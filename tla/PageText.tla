------------------------------- MODULE PageText -------------------------------
(***************************************************************************)
(* The text of a PDF as the files table keeps it: one string, in which      *)
(* "\n\n[PAGE n]\n\n" comes before every page but the first                 *)
(* (internal/worker/pdf.go, services/file.go).                              *)
(*                                                                          *)
(* A string is a sequence of tokens, as fine as the code looks at it: the   *)
(* characters "\n", " " and "]", any other white space (a tab), "[PAGE", a  *)
(* number (the value that %d reads, 0 past 64 bits) and words of anything   *)
(* else. So whether "[PAGE " starts a page depends on what comes before it, *)
(* as it does in the code, and a page may begin with it. Two numbers in a   *)
(* row would be one number; no string of an instance has them.              *)
(***************************************************************************)
EXTENDS Integers, Sequences, SequencesExt

Token == [kind : {"newline", "space", "tab", "page", "close", "number", "word"}, n : Int]
Sign(kind) == [kind |-> kind, n |-> 0]
Newline == Sign("newline")
Space == Sign("space")
Close == Sign("close")
Num(k) == [kind |-> "number", n |-> k]
Word(k) == [kind |-> "word", n |-> k]

IsSpace(t) == t.kind \in {"newline", "space", "tab"}

\* The string that ParsePages splits at.
Sep == <<Newline, Newline, Sign("page"), Space>>

SepAt(s, i) == \A j \in 1 .. 4 : s[i + j] = Sep[j]
HoldsSep(s) == \E i \in 0 .. Len(s) - 4 : SepAt(s, i)

\* What extractText and UpdatePage write before page n, but for the Sep.
Label(n) == <<Num(n), Close, Newline, Newline>>

-----------------------------------------------------------------------------
(* ParsePages. *)

Page(k, text) == [page |-> k, text |-> text]

\* Where a Sep begins, k tokens on or later.
SepsAfter(text, k) == {j \in k .. Len(text) - 4 : SepAt(text, j)}

\* strings.Split at Sep. after[k]: the parts of all but the first k tokens.
Split(text) ==
    LET after[k \in 0 .. Len(text)] ==
            LET seps == SepsAfter(text, k)
            IN  IF seps = {}
                THEN <<SubSeq(text, k + 1, Len(text))>>
                ELSE <<SubSeq(text, k + 1, Min(seps))>> \o after[Min(seps) + 4]
    IN  after[0]

\* strings.TrimSpace.
Solid(s) == {i \in DOMAIN s : ~IsSpace(s[i])}
Trim(s) == IF Solid(s) = {} THEN <<>> ELSE SubSeq(s, Min(Solid(s)), Max(Solid(s)))

\* fmt.Sscanf with %d skips blanks, but no newline, and fails on anything but a
\* number; the page is 0 then.
Number(s) ==
    LET i == SelectInSeq(s, LAMBDA t : t.kind \notin {"space", "tab"})
    IN  IF i # 0 /\ s[i].kind = "number" THEN s[i].n ELSE 0

ClosedAt(part) == SelectInSeq(part, LAMBDA t : t = Close)

\* What comes before the first Sep is page 1; a part that has no "]" is skipped.
PagesOf(part, i) ==
    LET c == ClosedAt(part)
    IN  CASE i = 1 -> <<Page(1, Trim(part))>>
          [] i # 1 /\ c = 0 -> <<>>
          [] i # 1 /\ c # 0 -> <<Page(Number(SubSeq(part, 1, c - 1)),
                                      Trim(SubSeq(part, c + 1, Len(part))))>>

\* No text, no page.
ParsePages(text) ==
    LET parts == Split(text)
    IN  IF text = <<>> THEN <<>>
        ELSE FlattenSeq([i \in DOMAIN parts |-> PagesOf(parts[i], i)])

-----------------------------------------------------------------------------
\* Slip: number the pages as they come.
JoinRenumbers(pages) ==
    FlattenSeq([i \in DOMAIN pages |->
        IF i = 1 THEN pages[i].text ELSE Sep \o Label(i) \o pages[i].text])

\* The end of extractText and of UpdatePage.
Join(pages) ==
    FlattenSeq([i \in DOMAIN pages |->
        IF i = 1 THEN pages[i].text ELSE Sep \o Label(pages[i].page) \o pages[i].text])

\* Slip: leave blank pages out.
ExtractSkipsBlank(doc) ==
    Join(SelectSeq([i \in DOMAIN doc |-> Page(i, doc[i])], LAMBDA p : p.text # <<>>))

\* extractPages numbers every page of the document, blank ones included.
Numbered(doc) == [i \in DOMAIN doc |-> Page(i, doc[i])]
ExtractText(doc) == Join(Numbered(doc))

\* The first page of that number, or 0.
PageAt(pages, k) == SelectInSeq(pages, LAMBDA p : p.page = k)

\* What the page shows; nothing when there is no such page.
TextOf(pages, k) ==
    IF PageAt(pages, k) = 0 THEN <<>> ELSE pages[PageAt(pages, k)].text

\* No page, where Join puts it, spells a Sep: none holds one, and none but the
\* first begins with "[PAGE ", which would make one with the newlines before it.
Unspelt(pages) ==
    \A i \in DOMAIN pages :
        ~HoldsSep(IF i = 1 THEN pages[i].text ELSE <<Newline, Newline>> \o pages[i].text)
=============================================================================
