------------------------------- MODULE FileText -------------------------------
(***************************************************************************)
(* The text of one PDF file under the requests that read and edit it        *)
(* (internal/services/file.go, handlers/files.go): UpdatePage and           *)
(* UpdateText, ExportPDF, Delete, and the worker's UpdateDone that stores   *)
(* the extracted text first.                                                *)
(*                                                                          *)
(* Every request reads the row, works on what it read, and writes in a      *)
(* statement or a call of its own; requests run concurrently. Those the     *)
(* handlers refuse (a foreign file, a bad id, an image) change nothing.     *)
(***************************************************************************)
EXTENDS PageText

CONSTANTS Request,   \* requests, each made at most once
          Document,  \* PDFs: the sequence of what extractPages finds on each page
          NewText,   \* the texts users send
          PageNo,    \* the page numbers users ask for
          Blank      \* no exported object

ASSUME FileTextAssumption ==
    /\ Document \subseteq Seq(Seq(Token))
    /\ NewText \subseteq Seq(Token)
    /\ PageNo \subseteq Nat

VARIABLES document,  \* the PDF that was uploaded
          status,    \* of the row: processing, done, deleted
          text,      \* extracted_text
          original,  \* the original's object is in the store
          export,    \* the text from which the _edited.pdf object was made
          req        \* req[r]: the state of request r

vars == <<document, status, text, original, export, req>>

\* page: the page edited, 0 for none. seen: the text the request read. pages:
\* its pages with the edit. blob: what it is going to write.
Idle == [at |-> "idle", page |-> 0, new |-> <<>>, seen |-> <<>>, pages |-> <<>>,
         blob |-> <<>>]

Init ==
    /\ document \in Document
    /\ status = "processing"
    /\ text = <<>>
    /\ original = FALSE
    /\ export = Blank
    /\ req = [r \in Request |-> Idle]

\* Steps 4 and 5 of the processor.
Complete ==
    /\ status = "processing"
    /\ status' = "done"
    /\ text' = ExtractText(document)
    /\ original' = TRUE
    /\ UNCHANGED <<document, export, req>>

-----------------------------------------------------------------------------
Goes(r, to) == req' = [req EXCEPT ![r] = to]
At(r, s) == req[r].at = s
Ends(r) == Goes(r, [req[r] EXCEPT !.at = "ended"])

\* What the handlers let through: a page number from 1 on, with any text, even
\* an empty one; a whole text that is not empty.
ValidPage(k) == k >= 1
ValidText(new) == new # <<>>

\* Slip: no look at the status.
ReadsAnyStatus(r) == At(r, "idle") /\ status # "deleted"

\* GetByID and the checks that follow it.
Reads(r) == At(r, "idle") /\ status = "done"

\* What is to be written when page k of the text has become new.
PageEdit(k, new, pages) ==
    [at |-> "write", page |-> k, new |-> new, seen |-> text, pages |-> pages,
     blob |-> Join(pages)]

\* What is to be done with a whole text.
Whole(to, new, blob) ==
    [at |-> to, page |-> 0, new |-> new, seen |-> text, pages |-> <<>>, blob |-> blob]

\* Slip: take the page's number for its place in the list.
ReadPageEditByIndex(r, k, new) ==
    /\ Reads(r) /\ ValidPage(k)
    /\ LET pages == ParsePages(text)
       IN  IF k > Len(pages)
           THEN Ends(r)
           ELSE Goes(r, PageEdit(k, new, [pages EXCEPT ![k].text = new]))
    /\ UNCHANGED <<document, status, text, original, export>>

\* Slip: a loop that ends at the page it was looking for.
ReadPageEditCuts(r, k, new) ==
    /\ Reads(r) /\ ValidPage(k)
    /\ LET pages == ParsePages(text)
           i == PageAt(pages, k)
       IN  IF i = 0
           THEN Ends(r)
           ELSE Goes(r, PageEdit(k, new, SubSeq([pages EXCEPT ![i].text = new], 1, i)))
    /\ UNCHANGED <<document, status, text, original, export>>

ReadPageEdit(r, k, new) ==
    /\ Reads(r) /\ ValidPage(k)
    /\ LET pages == ParsePages(text)
           i == PageAt(pages, k)
       IN  IF i = 0
           THEN Ends(r)
           ELSE Goes(r, PageEdit(k, new, [pages EXCEPT ![i].text = new]))
    /\ UNCHANGED <<document, status, text, original, export>>

ReadTextEdit(r, new) ==
    /\ Reads(r) /\ ValidText(new)
    /\ Goes(r, Whole("write", new, new))
    /\ UNCHANGED <<document, status, text, original, export>>

\* Slip: save the row that was read, which inserts it when it is gone.
WriteSavesRow(r) ==
    /\ At(r, "write")
    /\ text' = req[r].blob
    /\ status' = "done"
    /\ Ends(r)
    /\ UNCHANGED <<document, original, export>>

\* UPDATE files SET extracted_text WHERE id: no row, no error.
Write(r) ==
    /\ At(r, "write")
    /\ text' = IF status # "deleted" THEN req[r].blob ELSE text
    /\ Ends(r)
    /\ UNCHANGED <<document, status, original, export>>

\* A text of nothing but space is refused.
ReadExport(r) ==
    /\ Reads(r)
    /\ Trim(text) # <<>>
    /\ Goes(r, Whole("put", <<>>, text))
    /\ UNCHANGED <<document, status, text, original, export>>

\* Each export overwrites the one object of its key, or fails.
PutExport(r) ==
    /\ At(r, "put")
    /\ export' \in {export, req[r].blob}
    /\ Ends(r)
    /\ UNCHANGED <<document, status, text, original>>

-----------------------------------------------------------------------------
(* FileService.Delete; a file that is still processed has no storage path. *)

ReadDelete(r) ==
    /\ At(r, "idle")
    /\ status # "deleted"
    /\ Goes(r, [Idle EXCEPT !.at = IF status = "done" THEN "remove" ELSE "delete"])
    /\ UNCHANGED <<document, status, text, original, export>>

\* The original only, and the error is ignored.
RemoveOriginal(r) ==
    /\ At(r, "remove")
    /\ original' \in {original, FALSE}
    /\ Goes(r, [Idle EXCEPT !.at = "delete"])
    /\ UNCHANGED <<document, status, text, export>>

DeleteRow(r) ==
    /\ At(r, "delete")
    /\ status' = "deleted"
    /\ Ends(r)
    /\ UNCHANGED <<document, text, original, export>>

-----------------------------------------------------------------------------
Next ==
    \/ Complete
    \/ \E r \in Request :
          \/ \E k \in PageNo, new \in NewText : ReadPageEdit(r, k, new)
          \/ \E new \in NewText : ReadTextEdit(r, new)
          \/ Write(r)
          \/ ReadExport(r)
          \/ PutExport(r)
          \/ ReadDelete(r)
          \/ RemoveOriginal(r)
          \/ DeleteRow(r)

Spec == Init /\ [][Next]_vars

-----------------------------------------------------------------------------
(* Properties. *)

\* Text and object of a file come with its processing.
TypeOK ==
    /\ document \in Document
    /\ status \in {"processing", "done", "deleted"}
    /\ text \in Seq(Token)
    /\ original \in BOOLEAN
    /\ export \in Seq(Token) \cup {Blank}
    /\ req \in [Request ->
          [at : {"idle", "write", "put", "remove", "delete", "ended"},
           page : PageNo \cup {0}, new : Seq(Token), seen : Seq(Token),
           pages : Seq([page : Int, text : Seq(Token)]), blob : Seq(Token)]]
    /\ status = "processing" => text = <<>> /\ ~original

Pages == ParsePages(text)

\* What readers of page k get.
Shown(t, k) == TextOf(ParsePages(t), k)

\* When the file becomes done, page i of the document is what the reader of
\* page i gets, blank pages included, but for the space around it; unless a page
\* of the document itself spells a separator (pdf.go:422-457).
DocumentIsShown ==
    [][status = "processing" /\ status' = "done" /\ Unspelt(Numbered(document)) =>
         \A i \in DOMAIN document : Shown(text', i) = Trim(document[i])]_vars

\* Parsing a text and joining it again loses no page, no number and no word,
\* whatever separators and broken ones users typed into it, as long as no page
\* but the first begins with "[PAGE "; only an empty join has no page left.
JoinKeepsPages ==
    Unspelt(Pages) /\ Join(Pages) # <<>> => ParsePages(Join(Pages)) = Pages

\* Request r edits a page of a file that is still there.
EditsPage(r) ==
    At(r, "write") /\ status = "done" /\ req[r].page # 0 /\ req'[r].at = "ended"

\* A page edit is what readers of the page get, but for the space around it,
\* whatever was written since the request read the row: unless it, or a page that
\* is written back with it, spells a separator (file.go:165-186).
EditIsStored ==
    [][\A r \in Request :
         EditsPage(r) /\ Unspelt(req[r].pages) =>
             Shown(text', req[r].page) = Trim(req[r].new)]_vars

OthersKept(r) ==
    \A k \in PageNo \ {req[r].page} : Shown(text', k) = Shown(text, k)

\* It leaves the other pages alone if nothing was written meanwhile.
LoneEditTouchesOnePage ==
    [][\A r \in Request :
         EditsPage(r) /\ Unspelt(req[r].pages) /\ req[r].seen = text => OthersKept(r)]_vars

\* An edit that was under way does not bring a deleted file back.
DeletedStaysDeleted ==
    [][status = "deleted" => status' = "deleted" /\ text' = text]_vars
=============================================================================
