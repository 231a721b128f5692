------------------------------- MODULE FormText -------------------------------
(***************************************************************************)
(* The text of one page of a PDF (extractPageText, collectXObjectChunks and *)
(* interpretForChunks of internal/worker/pdf.go). Where the page has fonts  *)
(* of its own the library's text is taken; else the Form XObjects in the    *)
(* resources are read, nested ones first, operator by operator, for chunks  *)
(* of text with their places.                                               *)
(*                                                                          *)
(* The page is an input. Fonts and encodings decide only whether a string   *)
(* decodes to nothing; a form's Matrix and the place where the page draws   *)
(* it are not in the model because the code does not look at them.          *)
(***************************************************************************)
EXTENDS PageLayout

CONSTANTS Pages,  \* the pages to read, in sets of one kind each
          None    \* no form; no text yet

\* n operands, of which nums are the numbers and strs the strings, or what the
\* array of TJ holds. In the place of a number, anything else reads as 0.
Operators == [op : STRING, n : Nat, nums : Seq(Int), strs : Seq(STRING)]
Numeric == {"cm", "Tm", "Td", "TD"}
Streams == {s \in Seq(Operators) : \A i \in DOMAIN s : s[i].op \in Numeric => Len(s[i].nums) = s[i].n}

\* plain: the library's text. root: the forms of the page's resources; forms[f]:
\* the forms of f's resources, nested, in the order of their keys, and f's
\* operators, ops.
ASSUME PagesAssumption ==
    \A kind \in Pages : \A p \in kind :
        /\ None \notin DOMAIN p.forms
        /\ p.root \in Seq(DOMAIN p.forms)
        /\ \A f \in DOMAIN p.forms :
              p.forms[f].nested \in Seq(DOMAIN p.forms) /\ p.forms[f].ops \in Streams

VARIABLES page,    \* the page
          visits,  \* the recursion: what is still to visit, <<"enter" or "read", form>>
          form,    \* the form being read
          next,    \* its next operator
          ctm, ctmStack, tm, tlm,
          chunks,  \* all that was found
          text     \* the result

matrices == <<ctm, ctmStack, tm, tlm>>
vars == <<page, visits, form, next, matrices, chunks, text>>

Each(what, forms) == [i \in DOMAIN forms |-> <<what, forms[i]>>]

Init ==
    /\ \E kind \in Pages : page \in kind
    /\ visits = Each("enter", page.root)
    /\ form = None /\ next = 1
    /\ ctm = identMat /\ ctmStack = <<>> /\ tm = identMat /\ tlm = identMat
    /\ chunks = <<>>
    /\ text = None

-----------------------------------------------------------------------------
Between == form = None /\ text = None

\* The standard path, if its text is not blank.
TakePlainText ==
    /\ Between /\ page.plain # <<>>
    /\ text' = page.plain
    /\ UNCHANGED <<page, visits, form, next, matrices, chunks>>

Visiting(what) == Between /\ page.plain = <<>> /\ visits # <<>> /\ Head(visits)[1] = what

\* collectXObjectChunks: the forms nested in a form, then its own stream.
EnterForm ==
    /\ Visiting("enter")
    /\ LET f == Head(visits)[2]
       IN  visits' = Each("enter", page.forms[f].nested) \o <<<<"read", f>>>> \o Tail(visits)
    /\ UNCHANGED <<page, form, next, matrices, chunks, text>>

\* Slip: matrices shared by all forms.
ReadFormCarriesOn ==
    /\ Visiting("read")
    /\ form' = Head(visits)[2]
    /\ next' = 1
    /\ visits' = Tail(visits)
    /\ UNCHANGED <<page, matrices, chunks, text>>

\* interpretForChunks: every stream starts from the page's own matrix.
ReadForm ==
    /\ Visiting("read")
    /\ form' = Head(visits)[2]
    /\ next' = 1
    /\ ctm' = identMat /\ ctmStack' = <<>> /\ tm' = identMat /\ tlm' = identMat
    /\ visits' = Tail(visits)
    /\ UNCHANGED <<page, chunks, text>>

Stream == page.forms[form].ops

EndForm ==
    /\ form # None /\ next > Len(Stream)
    /\ form' = None
    /\ UNCHANGED <<page, visits, next, matrices, chunks, text>>

\* What was drawn, in the order of the visit, put into reading order.
Finish ==
    /\ Between /\ page.plain = <<>> /\ visits = <<>>
    /\ text' = chunksToText(chunks)
    /\ UNCHANGED <<page, visits, form, next, matrices, chunks>>

-----------------------------------------------------------------------------
(* The operators. One with the wrong number of operands is skipped.          *)

Now == Stream[next]
Reads(names) ==
    /\ form # None /\ next =< Len(Stream)
    /\ Now.op \in names
    /\ next' = next + 1
    /\ UNCHANGED <<page, visits, form, text>>
ReadsWith(names, n) == Reads(names) /\ Now.n = n

Save ==
    /\ Reads({"q"})
    /\ ctmStack' = Append(ctmStack, ctm)
    /\ UNCHANGED <<ctm, tm, tlm, chunks>>

\* Slip: the saved matrix is not popped.
RestoreTop ==
    /\ Reads({"Q"}) /\ ctmStack # <<>>
    /\ ctm' = Last(ctmStack)
    /\ UNCHANGED <<ctmStack, tm, tlm, chunks>>

Restore ==
    /\ Reads({"Q"}) /\ ctmStack # <<>>
    /\ ctm' = Last(ctmStack)
    /\ ctmStack' = Front(ctmStack)
    /\ UNCHANGED <<tm, tlm, chunks>>

Concat ==
    /\ ReadsWith({"cm"}, 6)
    /\ ctm' = Mul(Now.nums, ctm)
    /\ UNCHANGED <<ctmStack, tm, tlm, chunks>>

\* Slip: the line's matrix stays.
BeginTextHalf ==
    /\ Reads({"BT"})
    /\ tm' = identMat
    /\ UNCHANGED <<ctm, ctmStack, tlm, chunks>>

BeginText ==
    /\ Reads({"BT"})
    /\ tm' = identMat /\ tlm' = identMat
    /\ UNCHANGED <<ctm, ctmStack, chunks>>

SetMatrix ==
    /\ ReadsWith({"Tm"}, 6)
    /\ tm' = Now.nums /\ tlm' = Now.nums
    /\ UNCHANGED <<ctm, ctmStack, chunks>>

MoveLine(tx, ty) ==
    /\ tlm' = Mul(Shift(tx, ty), tlm)
    /\ tm' = tlm'
    /\ UNCHANGED <<ctm, ctmStack>>

Move == ReadsWith({"Td", "TD"}, 2) /\ MoveLine(Now.nums[1], Now.nums[2]) /\ UNCHANGED chunks

\* A new line is taken to be 12 points down, whatever TL and TD set.
Leading == 12
NextLine == Reads({"T*"}) /\ MoveLine(0, -Leading) /\ UNCHANGED chunks

Blank == "blank"  \* a string that decodes to nothing
IsText(s) == s \notin {Blank, "kern"}
Shown(strs) == Cardinality({i \in DOMAIN strs : IsText(strs[i])})

\* addText for each string of strs; m is the text matrix. Text does not move it:
\* the strings of one TJ all get one place.
Add(strs, m) ==
    chunks' = chunks \o
        [k \in 1 .. Shown(strs) |-> Chunk(<<form, next, k>>, Mul(m, ctm))]

\* In the array of TJ numbers, "kern", stand between the strings.
Show ==
    /\ ReadsWith({"Tj", "TJ"}, 1)
    /\ Add(Now.strs, tm)
    /\ UNCHANGED matrices

ShowOnNextLine ==
    /\ ReadsWith({"'"}, 1) \/ ReadsWith({"\""}, 3)
    /\ MoveLine(0, -Leading)
    /\ Add(Now.strs, tm')

\* Operands an operator needs; any number will do for those not named here.
Arity ==
    [op \in Numeric \cup {"Tj", "TJ", "'", "\""} |->
        CASE op \in {"cm", "Tm"} -> 6 [] op \in {"Td", "TD"} -> 2 [] op = "\"" -> 3 [] OTHER -> 1]
Known == DOMAIN Arity \cup {"q", "Q", "BT", "T*"}

\* Every other operator, a wrong number of operands, a Q too many.
Skip ==
    /\ form # None /\ next =< Len(Stream)
    /\ \/ Now.op \notin Known
       \/ Now.op \in DOMAIN Arity /\ Now.n # Arity[Now.op]
       \/ Now.op = "Q" /\ ctmStack = <<>>
    /\ next' = next + 1
    /\ UNCHANGED <<page, visits, form, matrices, chunks, text>>

-----------------------------------------------------------------------------
Next ==
    \/ TakePlainText \/ EnterForm \/ ReadForm \/ EndForm \/ Finish
    \/ Save \/ Restore \/ Concat
    \/ BeginText \/ SetMatrix \/ Move \/ NextLine
    \/ Show \/ ShowOnNextLine \/ Skip

Spec == Init /\ [][Next]_vars

-----------------------------------------------------------------------------
(* Properties. *)

Matrices == {m \in Seq(Int) : Len(m) = 6}
Records == [name : (DOMAIN page.forms) \X Nat \X Nat, x : Int, y : Int]

\* Both text matrices are always one: showing text does not move the pen.
TypeOK ==
    /\ form \in DOMAIN page.forms \cup {None}
    /\ visits \in Seq({"enter", "read"} \X (DOMAIN page.forms))
    /\ next \in Nat
    /\ ctm \in Matrices /\ tm \in Matrices /\ tlm = tm
    /\ ctmStack \in Seq(Matrices)
    /\ chunks \in Seq(Records)

(* Where operator i of a stream draws, told from the operators before it.   *)

Is(s, i, op) == s[i].op = op
Good(s, i, op) == Is(s, i, op) /\ s[i].n = Arity[op]
Count(s, a, b, op) == Cardinality({i \in a..b : Is(s, i, op)})

\* The Q at b restores what the q at a saved.
Closes(s, a, b) ==
    /\ Is(s, a, "q") /\ Is(s, b, "Q")
    /\ Count(s, a + 1, b - 1, "q") = Count(s, a + 1, b - 1, "Q")
    /\ \A i \in a + 1 .. b - 1 : Count(s, a + 1, i, "Q") =< Count(s, a + 1, i, "q")

\* The matrices concatenated before i and not undone by then.
InForce(s, i) ==
    {j \in 1 .. i - 1 :
        Good(s, j, "cm") /\ ~ \E a \in 1 .. j - 1, b \in j + 1 .. i - 1 : Closes(s, a, b)}

\* Their product, up to each operator.
Product(s, F) ==
    LET m[i \in 0 .. Len(s)] ==
            IF i = 0 THEN identMat ELSE IF i \in F THEN Mul(s[i].nums, m[i - 1]) ELSE m[i - 1]
    IN  m

PageMatrix(s, i) == Product(s, InForce(s, i))[i - 1]

\* Where the last BT or Tm put the origin, and how far the lines after it moved.
TextStart(s, i) == Max({0} \cup {j \in 1 .. i - 1 : Is(s, j, "BT") \/ Good(s, j, "Tm")})
TextMatrix(s, b) == IF b # 0 /\ Is(s, b, "Tm") THEN s[b].nums ELSE identMat

Moves(s, j) == Good(s, j, "Td") \/ Good(s, j, "TD")
Feeds(s, j) == Is(s, j, "T*") \/ Good(s, j, "'") \/ Good(s, j, "\"")
Step(s, i, d) ==
    IF Moves(s, i) THEN s[i].nums[d] ELSE IF d = 2 /\ Feeds(s, i) THEN - Leading ELSE 0

\* The sum of the steps after b, right for d = 1 and up for d = 2.
Moved(s, b, d) ==
    LET sum[i \in 0 .. Len(s)] == IF i =< b THEN 0 ELSE sum[i - 1] + Step(s, i, d)
    IN  sum

Place(s, i) ==
    LET b == TextStart(s, i)
    IN  Mul(Shift(Moved(s, b, 1)[i], Moved(s, b, 2)[i]), Mul(TextMatrix(s, b), PageMatrix(s, i)))

\* Every chunk is where its own form's stream draws it, whatever other forms and
\* closed q ... Q groups left behind (pdf.go:154-264).
PlacedWhereDrawn ==
    \A k \in DOMAIN chunks :
        LET n == chunks[k].name
        IN  chunks[k] = Chunk(n, Place(page.forms[n[1]].ops, n[2]))

\* The strings that operator i of s shows.
Strings(s, i) ==
    IF \E op \in {"Tj", "TJ", "'", "\""} : Good(s, i, op) THEN s[i].strs ELSE <<>>

Drawn(f, s) ==
    UNION {{<<f, i, k>> : k \in 1 .. Shown(Strings(s, i))} : i \in DOMAIN s}

AllDrawn == UNION {Drawn(f, page.forms[f].ops) : f \in DOMAIN page.forms}

Extracted == text # None /\ page.plain = <<>>
Position(c) == SelectInSeq(text, LAMBDA w : w = c.name)

\* The forms that are nested in form f, and in all of C.
Nested(p, f) == ToSet(p.forms[f].nested)
Within(p, C) == UNION {Nested(p, f) : f \in C}

\* No form is in the resources twice, and each is somewhere in them.
EachInOnePlace(p) ==
    /\ IsInjective(p.root)
    /\ \A f \in DOMAIN p.forms :
          /\ IsInjective(p.forms[f].nested) /\ Nested(p, f) \cap ToSet(p.root) = {}
          /\ \A g \in DOMAIN p.forms \ {f} : Nested(p, f) \cap Nested(p, g) = {}
    /\ \A C \in SUBSET DOMAIN p.forms :
          ToSet(p.root) \cup Within(p, C) \subseteq C => C = DOMAIN p.forms

\* The text of a page that has no form twice holds every string that any form
\* draws, once, and strings on one spot, as those of one TJ are, stay in the order
\* they were drawn in (pdf.go:125-150, 272-334).
DrawnOnceInOrder ==
    Extracted /\ EachInOnePlace(page) =>
        /\ ToSet(text) \ {Newline} = AllDrawn
        /\ \A i, j \in DOMAIN text : text[i] = text[j] /\ text[i] # Newline => i = j
        /\ \A k, l \in DOMAIN chunks :
              k < l /\ chunks[k].x = chunks[l].x /\ chunks[k].y = chunks[l].y =>
                  Position(chunks[k]) < Position(chunks[l])

(* A page on which the reader can tell rows and columns: chunks of one row   *)
(* are level but for 4 points; different rows are further apart, and by more *)
(* than half of the widest gap on the page; and its first row tells whether  *)
(* y grows downwards.                                                        *)

Chunks == ToSet(chunks)
Level(a, b) == Far(a, b) =< 4

Neighbours(ys) ==
    {p \in ys \X ys : p[1] < p[2] /\ \A y \in ys : y =< p[1] \/ y >= p[2]}
WidestGap == Max({0} \cup {p[2] - p[1] : p \in Neighbours(Ys(chunks))})

TopIsEvident ==
    LET lo == Min(Ys(chunks))
        height == Max(Ys(chunks)) - lo
    IN  IF page.down THEN height = 0 \/ (lo >= 0 /\ lo * 10 < height)
        ELSE height > 0 /\ lo * 10 >= height

Legible ==
    /\ chunks # <<>> /\ TopIsEvident
    /\ \A a, b \in Chunks : a # b =>
          IF Level(a, b) THEN a.x # b.x ELSE 2 * Far(a, b) > WidestGap
    /\ \A a, b, c \in Chunks : Level(a, b) /\ Level(b, c) => Level(a, c)

Above(a, b) == IF page.down THEN a.y < b.y ELSE a.y > b.y

\* A legible page reads row by row and from left to right, whatever the order in
\* which it was drawn, and a line ends exactly where a row does (pdf.go:283-323).
ReadsInOrder ==
    Extracted /\ Legible =>
        \A a, b \in Chunks :
            /\ Level(a, b) /\ a.x < b.x =>
                  /\ Position(a) < Position(b)
                  /\ Newline \notin ToSet(SubSeq(text, Position(a), Position(b)))
            /\ ~ Level(a, b) /\ Above(a, b) =>
                  /\ Position(a) < Position(b)
                  /\ Newline \in ToSet(SubSeq(text, Position(a), Position(b)))
=============================================================================
