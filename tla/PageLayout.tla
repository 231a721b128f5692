------------------------------ MODULE PageLayout ------------------------------
(***************************************************************************)
(* From pieces of text with a place on the page to the lines a reader sees: *)
(* the matrices and chunksToText of internal/worker/pdf.go. Coordinates are *)
(* whole points; half a point never decides anything then.                  *)
(***************************************************************************)
EXTENDS Integers, Sequences, FiniteSets, SequencesExt

(* [a b c d e f] stands for the matrix ((a, b, 0), (c, d, 0), (e, f, 1)).   *)

identMat == <<1, 0, 0, 1, 0, 0>>
Shift(tx, ty) == <<1, 0, 0, 1, tx, ty>>

\* x.mul(y): first x, then y.
Mul(x, y) ==
    << x[1] * y[1] + x[2] * y[3],        x[1] * y[2] + x[2] * y[4],
       x[3] * y[1] + x[4] * y[3],        x[3] * y[2] + x[4] * y[4],
       x[5] * y[1] + x[6] * y[3] + y[5], x[5] * y[2] + x[6] * y[4] + y[6] >>

\* A chunk of text, named by the operator that drew it; m takes the origin to
\* its place.
Chunk(name, m) == [name |-> name, x |-> m[5], y |-> m[6]]

-----------------------------------------------------------------------------
\* sort.Slice sorts up to 12 elements by insertion: each moves left until its
\* neighbour is not greater.
Sort(chunks, Less(_, _)) ==
    FoldLeft(LAMBDA sorted, c :
                InsertAt(sorted, 1 + Max({0} \cup {i \in DOMAIN sorted : ~ Less(c, sorted[i])}), c),
             <<>>, chunks)

-----------------------------------------------------------------------------
Far(a, b) == IF a.y < b.y THEN b.y - a.y ELSE a.y - b.y
Ys(chunks) == {chunks[i].y : i \in DOMAIN chunks}

\* yDirection: 1 when the rows count from the top of the page. It goes by the
\* first row: less than a tenth of the text's height from y = 0.
yDirection(chunks) ==
    LET lo == Min(Ys(chunks))
        span == Max(Ys(chunks)) - lo
    IN  IF span = 0 \/ (lo >= 0 /\ 10 * lo < span) THEN 1 ELSE -1

\* Numbers in order (sort.Float64s).
Ascending(numbers) == Sort(numbers, LAMBDA a, b : a < b)

\* The distances between neighbouring rows.
Gaps(chunks) ==
    LET ys == Ascending(SetToSeq(Ys(chunks)))
    IN  [i \in 1 .. Len(ys) - 1 |-> ys[i + 1] - ys[i]]

\* Slip: no least threshold.
ThresholdWithoutFloor(chunks) ==
    LET gaps == Ascending(Gaps(chunks))
    IN  IF gaps = <<>> THEN 20 ELSE gaps[Len(gaps) \div 2 + 1]

\* lineGroupThreshold, doubled: the median of these distances (of an even number,
\* the upper one), 8 at least.
TwiceThreshold(chunks) ==
    LET gaps == Ascending(Gaps(chunks))
    IN  IF gaps = <<>> THEN 20 ELSE Max({8, gaps[Len(gaps) \div 2 + 1]})

\* Slip: =< where < is meant.
BeforeOrEqual(a, b, down) ==
    IF Far(a, b) > 4 THEN (a.y - b.y) * down < 0 ELSE a.x =< b.x

\* The order of the first sort. It is not transitive: a may be level with b, and
\* b with c, though a and c are rows apart.
Before(a, b, down) ==
    IF Far(a, b) > 4 THEN (a.y - b.y) * down < 0 ELSE a.x < b.x

LeftOf(a, b) == a.x < b.x

-----------------------------------------------------------------------------
\* A chunk belongs to the current line unless it is far from the line's first.
Lines(chunks, threshold) ==
    FoldLeft(LAMBDA lines, c :
                IF lines = <<>> \/ 2 * Far(c, Head(Last(lines))) > threshold
                THEN Append(lines, <<c>>)
                ELSE [lines EXCEPT ![Len(lines)] = Append(@, c)],
             <<>>, chunks)

Newline == <<>>
Names(line) == [i \in DOMAIN line |-> line[i].name]

\* The line breaks before line i; a second one for a wide gap.
Breaks(lines, i, threshold) ==
    IF i = 1 THEN <<>>
    ELSE IF 2 * Far(Head(lines[i]), Head(lines[i - 1])) > 3 * threshold
         THEN <<Newline, Newline>>
         ELSE <<Newline>>

\* The text as the names of its chunks and the line breaks between them.
chunksToText(chunks) ==
    IF chunks = <<>> THEN <<>> ELSE
    LET down == yDirection(chunks)
        threshold == TwiceThreshold(chunks)
        lines == Lines(Sort(chunks, LAMBDA a, b : Before(a, b, down)), threshold)
    IN  FlattenSeq([i \in DOMAIN lines |->
            Breaks(lines, i, threshold) \o Names(Sort(lines[i], LeftOf))])
=============================================================================
