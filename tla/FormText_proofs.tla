---------------------------- MODULE FormText_proofs ----------------------------
(***************************************************************************)
(* Proofs about FormText: the types of the interpreter's state, that every   *)
(* chunk is where the stream of its own form draws it, that the text of a    *)
(* page holds what it draws once, and that a legible page reads in order.    *)
(***************************************************************************)
EXTENDS FormText, Induction, FiniteSetTheorems

-----------------------------------------------------------------------------
(* Matrices.                                                                *)

\* The entries of a matrix are whole numbers.
LEMMA Entries ==
    ASSUME NEW m \in Matrices
    PROVE  /\ m[1] \in Int /\ m[2] \in Int /\ m[3] \in Int
           /\ m[4] \in Int /\ m[5] \in Int /\ m[6] \in Int
<1>1. m \in Seq(Int) /\ Len(m) = 6
    BY DEF Matrices
<1>2. \A i \in 1 .. 6 : m[i] \in Int
    BY <1>1, ElementOfSeq
<1>3. /\ 1 \in 1 .. 6 /\ 2 \in 1 .. 6 /\ 3 \in 1 .. 6
      /\ 4 \in 1 .. 6 /\ 5 \in 1 .. 6 /\ 6 \in 1 .. 6
    OBVIOUS
<1> QED BY <1>2, <1>3

\* A matrix is its six entries,
LEMMA Spelt ==
    ASSUME NEW m \in Matrices
    PROVE  m = <<m[1], m[2], m[3], m[4], m[5], m[6]>>
<1> DEFINE n == <<m[1], m[2], m[3], m[4], m[5], m[6]>>
<1>1. n \in Seq(Int) /\ Len(n) = 6 /\ m \in Seq(Int) /\ Len(m) = 6
    BY Entries DEF Matrices
<1>2. \A i \in 1 .. 6 : i = 1 \/ i = 2 \/ i = 3 \/ i = 4 \/ i = 5 \/ i = 6
    OBVIOUS
<1>3. n[1] = m[1] /\ n[2] = m[2] /\ n[3] = m[3] /\ n[4] = m[4] /\ n[5] = m[5] /\ n[6] = m[6]
    OBVIOUS
<1> HIDE DEF n
<1>4. \A i \in 1 .. 6 : n[i] = m[i]
    BY <1>2, <1>3
<1> QED BY <1>1, <1>4, SeqEqual DEF n

\* and any six are one.
LEMMA SixEntries ==
    ASSUME NEW a \in Int, NEW b \in Int, NEW c \in Int,
           NEW d \in Int, NEW e \in Int, NEW f \in Int
    PROVE  <<a, b, c, d, e, f>> \in Matrices
BY DEF Matrices

\* What Mul adds up is whole.
LEMMA SumsOfProducts ==
    ASSUME NEW x \in Int, NEW y \in Int, NEW u \in Int, NEW v \in Int, NEW c \in Int
    PROVE  x * u + y * v \in Int /\ x * u + y * v + c \in Int
OBVIOUS

\* Mul and Shift make matrices of matrices and numbers.
LEMMA MulType ==
    ASSUME NEW x \in Matrices, NEW y \in Matrices
    PROVE  Mul(x, y) \in Matrices
<1>1. /\ x[1] * y[1] + x[2] * y[3] \in Int /\ x[1] * y[2] + x[2] * y[4] \in Int
      /\ x[3] * y[1] + x[4] * y[3] \in Int /\ x[3] * y[2] + x[4] * y[4] \in Int
      /\ x[5] * y[1] + x[6] * y[3] + y[5] \in Int /\ x[5] * y[2] + x[6] * y[4] + y[6] \in Int
    BY Entries, SumsOfProducts
<1> QED BY <1>1, SixEntries DEF Mul

LEMMA ShiftType ==
    ASSUME NEW x \in Int, NEW y \in Int
    PROVE  Shift(x, y) \in Matrices
BY SixEntries DEF Shift

LEMMA IdentType == identMat \in Matrices
BY SixEntries DEF identMat

\* A shift moves the origin and nothing else.
LEMMA Shifted ==
    ASSUME NEW x \in Int, NEW y \in Int, NEW m \in Matrices
    PROVE  Mul(Shift(x, y), m) =
               <<m[1], m[2], m[3], m[4], x * m[1] + y * m[3] + m[5], x * m[2] + y * m[4] + m[6]>>
<1>1. \A a, b \in Int : 1 * a + 0 * b = a /\ 0 * a + 1 * b = b
    OBVIOUS
<1>2. Shift(x, y)[1] = 1 /\ Shift(x, y)[2] = 0 /\ Shift(x, y)[3] = 0 /\ Shift(x, y)[4] = 1
      /\ Shift(x, y)[5] = x /\ Shift(x, y)[6] = y
    BY DEF Shift
<1> QED BY <1>1, <1>2, Entries DEF Mul

\* What is shifted and then transformed is transformed and shifted in one.
LEMMA ShiftAssoc ==
    ASSUME NEW x \in Int, NEW y \in Int, NEW t \in Matrices, NEW p \in Matrices
    PROVE  Mul(Shift(x, y), Mul(t, p)) = Mul(Mul(Shift(x, y), t), p)
<1> DEFINE tp == Mul(t, p)
           st == Mul(Shift(x, y), t)
<1>1. tp \in Matrices /\ st \in Matrices
    BY MulType, ShiftType
<1>2. /\ tp[1] = t[1] * p[1] + t[2] * p[3] /\ tp[2] = t[1] * p[2] + t[2] * p[4]
      /\ tp[3] = t[3] * p[1] + t[4] * p[3] /\ tp[4] = t[3] * p[2] + t[4] * p[4]
      /\ tp[5] = t[5] * p[1] + t[6] * p[3] + p[5] /\ tp[6] = t[5] * p[2] + t[6] * p[4] + p[6]
    BY DEF Mul
<1>3. /\ st[1] = t[1] /\ st[2] = t[2] /\ st[3] = t[3] /\ st[4] = t[4]
      /\ st[5] = x * t[1] + y * t[3] + t[5] /\ st[6] = x * t[2] + y * t[4] + t[6]
    BY Shifted
<1> HIDE DEF tp, st
<1>4. x * tp[1] + y * tp[3] + tp[5] = st[5] * p[1] + st[6] * p[3] + p[5]
    BY <1>2, <1>3, Entries
<1>5. x * tp[2] + y * tp[4] + tp[6] = st[5] * p[2] + st[6] * p[4] + p[6]
    BY <1>2, <1>3, Entries
<1>6. Mul(Shift(x, y), tp) =
          <<tp[1], tp[2], tp[3], tp[4],
            x * tp[1] + y * tp[3] + tp[5], x * tp[2] + y * tp[4] + tp[6]>>
    BY <1>1, Shifted
<1>7. Mul(st, p) =
          <<tp[1], tp[2], tp[3], tp[4],
            st[5] * p[1] + st[6] * p[3] + p[5], st[5] * p[2] + st[6] * p[4] + p[6]>>
    BY <1>2, <1>3 DEF Mul
<1> QED BY <1>4, <1>5, <1>6, <1>7 DEF tp, st

\* Two shifts are one.
LEMMA ShiftTwice ==
    ASSUME NEW x \in Int, NEW y \in Int, NEW a \in Int, NEW b \in Int, NEW m \in Matrices
    PROVE  Mul(Shift(x, y), Mul(Shift(a, b), m)) = Mul(Shift(a + x, b + y), m)
<1> DEFINE q == Mul(Shift(a, b), m)
<1>1. q \in Matrices
    BY MulType, ShiftType
<1>2. /\ q[1] = m[1] /\ q[2] = m[2] /\ q[3] = m[3] /\ q[4] = m[4]
      /\ q[5] = a * m[1] + b * m[3] + m[5] /\ q[6] = a * m[2] + b * m[4] + m[6]
    BY Shifted
<1> HIDE DEF q
<1>3. x * q[1] + y * q[3] + q[5] = (a + x) * m[1] + (b + y) * m[3] + m[5]
    BY <1>2, Entries
<1>4. x * q[2] + y * q[4] + q[6] = (a + x) * m[2] + (b + y) * m[4] + m[6]
    BY <1>2, Entries
<1>5. Mul(Shift(x, y), q) =
          <<q[1], q[2], q[3], q[4], x * q[1] + y * q[3] + q[5], x * q[2] + y * q[4] + q[6]>>
    BY <1>1, Shifted
<1>6. Mul(Shift(a + x, b + y), m) =
          <<q[1], q[2], q[3], q[4],
            (a + x) * m[1] + (b + y) * m[3] + m[5], (a + x) * m[2] + (b + y) * m[4] + m[6]>>
    BY <1>2, Shifted
<1> QED BY <1>3, <1>4, <1>5, <1>6 DEF q

\* To shift by nothing changes nothing.
LEMMA NoShift ==
    ASSUME NEW m \in Matrices
    PROVE  Mul(Shift(0, 0), m) = m
<1>1. \A a, b, c \in Int : 0 * a + 0 * b + c = c
    OBVIOUS
<1>2. 0 * m[1] + 0 * m[3] + m[5] = m[5] /\ 0 * m[2] + 0 * m[4] + m[6] = m[6]
    BY <1>1, Entries
<1>3. 0 \in Int
    OBVIOUS
<1>4. Mul(Shift(0, 0), m) = <<m[1], m[2], m[3], m[4], m[5], m[6]>>
    BY <1>2, <1>3, Shifted
<1> QED BY <1>4, Spelt

\* The numbers of an operator that takes numbers.
LEMMA NumbersOf ==
    ASSUME NEW s \in Streams, NEW i \in 1 .. Len(s)
    PROVE  /\ Good(s, i, "cm") \/ Good(s, i, "Tm") => s[i].nums \in Matrices
           /\ Moves(s, i) => s[i].nums[1] \in Int /\ s[i].nums[2] \in Int
           /\ s[i].n \in Nat /\ s[i].strs \in Seq(STRING)
<1>1. s \in Seq(Operators) /\ \A k \in DOMAIN s : s[k].op \in Numeric => Len(s[k].nums) = s[k].n
    BY DEF Streams
<1>2. s[i] \in Operators /\ i \in DOMAIN s
    BY <1>1, ElementOfSeq
<1>3. s[i].nums \in Seq(Int) /\ s[i].n \in Nat /\ s[i].strs \in Seq(STRING)
    BY <1>2 DEF Operators
<1>4. Arity["cm"] = 6 /\ Arity["Tm"] = 6 /\ Arity["Td"] = 2 /\ Arity["TD"] = 2
    BY DEF Arity, Numeric
<1>5. ASSUME Good(s, i, "cm") \/ Good(s, i, "Tm") PROVE s[i].nums \in Matrices
    <2>1. s[i].op \in Numeric /\ s[i].n = 6
        BY <1>4, <1>5 DEF Good, Is, Numeric
    <2> QED BY <1>1, <1>2, <1>3, <2>1 DEF Matrices
<1>6. ASSUME Moves(s, i) PROVE s[i].nums[1] \in Int /\ s[i].nums[2] \in Int
    <2>1. s[i].op \in Numeric /\ s[i].n = 2
        BY <1>4, <1>6 DEF Moves, Good, Is, Numeric
    <2>2. Len(s[i].nums) = 2
        BY <1>1, <1>2, <2>1
    <2>3. 1 \in 1 .. 2 /\ 2 \in 1 .. 2
        OBVIOUS
    <2> QED BY <1>3, <2>2, <2>3, ElementOfSeq
<1> QED BY <1>3, <1>5, <1>6
-----------------------------------------------------------------------------
(* Counting the q and the Q of a stream.                                    *)

\* Count counts,
LEMMA CountType ==
    ASSUME NEW s, NEW a \in Nat, NEW b \in Nat, NEW op
    PROVE  Count(s, a, b, op) \in Nat
<1>1. IsFiniteSet({i \in a .. b : Is(s, i, op)})
    <2>1. IsFiniteSet(a .. b) /\ {i \in a .. b : Is(s, i, op)} \subseteq a .. b
        BY FS_Interval
    <2> QED BY <2>1, FS_Subset
<1> QED BY <1>1, FS_CardinalityType DEF Count

\* nothing in an empty range,
LEMMA CountNone ==
    ASSUME NEW s, NEW a \in Nat, NEW b \in Int, b < a, NEW op
    PROVE  Count(s, a, b, op) = 0
<1>1. {i \in a .. b : Is(s, i, op)} = {}
    OBVIOUS
<1> QED BY <1>1, FS_EmptySet DEF Count

\* and one more at the end of the range.
LEMMA CountNext ==
    ASSUME NEW s, NEW a \in Nat, NEW b \in Nat, a <= b, NEW op
    PROVE  Count(s, a, b, op) = Count(s, a, b - 1, op) + IF Is(s, b, op) THEN 1 ELSE 0
<1> DEFINE A == {i \in a .. b - 1 : Is(s, i, op)}
           B == {i \in a .. b : Is(s, i, op)}
<1>1. IsFiniteSet(A)
    <2>1. b - 1 \in Int /\ A \subseteq a .. b - 1
        OBVIOUS
    <2>2. IsFiniteSet(a .. b - 1)
        BY <2>1, FS_Interval
    <2> QED BY <2>1, <2>2, FS_Subset
<1>2. Cardinality(A) \in Nat /\ b \notin A
    BY <1>1, FS_CardinalityType
<1>3. CASE Is(s, b, op)
    <2>1. B = A \cup {b}
        BY <1>3
    <2>2. Cardinality(B) = Cardinality(A) + 1
        BY <1>1, <1>2, <2>1, FS_AddElement
    <2> QED BY <1>3, <2>2 DEF Count
<1>4. CASE ~ Is(s, b, op)
    <2>1. B = A
        <3>1. \A i \in a .. b : Is(s, i, op) => i \in a .. b - 1
            BY <1>4
        <3> QED BY <3>1
    <2>2. Cardinality(A) + 0 = Cardinality(A)
        BY <1>2
    <2> QED BY <1>4, <2>1, <2>2 DEF Count
<1> QED BY <1>3, <1>4

\* The same with the range growing.
LEMMA CountAfter ==
    ASSUME NEW s, NEW a \in Nat, NEW b \in Nat, a <= b + 1, NEW op
    PROVE  Count(s, a, b + 1, op) = Count(s, a, b, op) + IF Is(s, b + 1, op) THEN 1 ELSE 0
<1>1. \A n \in Nat :
          a <= n => Count(s, a, n, op) = Count(s, a, n - 1, op) + IF Is(s, n, op) THEN 1 ELSE 0
    <2> TAKE n \in Nat
    <2> HAVE a <= n
    <2> QED BY CountNext
<1>2. b + 1 \in Nat /\ (b + 1) - 1 = b
    OBVIOUS
<1> QED BY <1>1, <1>2

\* Before c, at c and after it.
LEMMA CountSplit ==
    ASSUME NEW s, NEW a \in Nat, NEW b \in Nat, NEW c \in Nat, a <= c, c <= b, NEW op
    PROVE  Count(s, a, b, op) = Count(s, a, c - 1, op) + (IF Is(s, c, op) THEN 1 ELSE 0)
                                  + Count(s, c + 1, b, op)
<1> DEFINE d == Count(s, a, c, op)
           P == {k \in c .. b : Count(s, a, k, op) = d + Count(s, c + 1, k, op)}
<1>1. d \in Nat
    BY CountType
<1>2. c \in P
    <2>1. Count(s, c + 1, c, op) = 0
        BY CountNone
    <2> QED BY <1>1, <2>1
<1>3. ASSUME NEW k \in c .. b - 1, k \in P PROVE k + 1 \in P
    <2>1. k \in Nat /\ k + 1 \in Nat /\ a <= k + 1 /\ c + 1 <= k + 1 /\ (k + 1) - 1 = k
          /\ c + 1 \in Nat /\ k + 1 \in c .. b
        OBVIOUS
    <2> DEFINE one == IF Is(s, k + 1, op) THEN 1 ELSE 0
    <2>2. Count(s, a, k + 1, op) = Count(s, a, k, op) + one
        BY <2>1, CountAfter
    <2>3. Count(s, c + 1, k + 1, op) = Count(s, c + 1, k, op) + one
        BY <2>1, CountAfter
    <2>4. Count(s, a, k, op) = d + Count(s, c + 1, k, op)
        BY <1>3
    <2>5. Count(s, c + 1, k, op) \in Nat /\ one \in Nat
        BY <2>1, CountType
    <2> HIDE DEF d, one
    <2>6. Count(s, a, k + 1, op) = d + Count(s, c + 1, k + 1, op)
        BY <1>1, <2>2, <2>3, <2>4, <2>5
    <2> QED BY <2>1, <2>6
<1> HIDE DEF P
<1>4. c .. b \subseteq P
    BY <1>2, <1>3, IntervalInduct
<1>5. Count(s, a, b, op) = d + Count(s, c + 1, b, op)
    BY <1>4 DEF P
<1>6. d = Count(s, a, c - 1, op) + IF Is(s, c, op) THEN 1 ELSE 0
    BY CountNext
<1> QED BY <1>5, <1>6
-----------------------------------------------------------------------------
(* The q that are open before operator i, and how many were opened, and not *)
(* closed, after one.                                                       *)

Open(s, i) ==
    {a \in 1 .. i - 1 :
        /\ Is(s, a, "q")
        /\ \A j \in a + 1 .. i - 1 : Count(s, a + 1, j, "Q") =< Count(s, a + 1, j, "q")}

Depth(s, a, i) == Count(s, a + 1, i - 1, "q") - Count(s, a + 1, i - 1, "Q")

\* A Q closes the q that is open at depth 0.
LEMMA ClosesOpen ==
    ASSUME NEW s, NEW i \in Nat, NEW a \in 1 .. i - 1
    PROVE  Closes(s, a, i) <=> a \in Open(s, i) /\ Is(s, i, "Q") /\ Depth(s, a, i) = 0
<1>1. Count(s, a + 1, i - 1, "q") \in Nat /\ Count(s, a + 1, i - 1, "Q") \in Nat
    <2>1. a + 1 \in Nat /\ i - 1 \in Nat
        OBVIOUS
    <2> QED BY <2>1, CountType
<1> QED BY <1>1 DEF Closes, Open, Depth

LEMMA DepthType ==
    ASSUME NEW s, NEW i \in Nat, NEW a \in 1 .. i - 1
    PROVE  Depth(s, a, i) \in Int
<1>1. a + 1 \in Nat /\ i - 1 \in Nat
    OBVIOUS
<1>2. Count(s, a + 1, i - 1, "q") \in Nat /\ Count(s, a + 1, i - 1, "Q") \in Nat
    BY <1>1, CountType
<1> QED BY <1>2 DEF Depth

\* An operator changes every depth by one at most.
LEMMA DepthNext ==
    ASSUME NEW s, NEW i \in Nat, NEW a \in 1 .. i - 1
    PROVE  Depth(s, a, i + 1) = Depth(s, a, i) + (IF Is(s, i, "q") THEN 1 ELSE 0)
                                  - (IF Is(s, i, "Q") THEN 1 ELSE 0)
<1>1. a + 1 \in Nat /\ i - 1 \in Nat /\ a + 1 <= i /\ (i + 1) - 1 = i
    OBVIOUS
<1>2. Count(s, a + 1, i - 1, "q") \in Nat /\ Count(s, a + 1, i - 1, "Q") \in Nat
    BY <1>1, CountType
<1>3. Count(s, a + 1, i, "q") = Count(s, a + 1, i - 1, "q") + IF Is(s, i, "q") THEN 1 ELSE 0
    BY <1>1, CountNext
<1>4. Count(s, a + 1, i, "Q") = Count(s, a + 1, i - 1, "Q") + IF Is(s, i, "Q") THEN 1 ELSE 0
    BY <1>1, CountNext
<1> QED BY <1>1, <1>2, <1>3, <1>4 DEF Depth

\* A q stays open as long as no Q is too many.
LEMMA OpenNext ==
    ASSUME NEW s, NEW i \in Nat \ {0}
    PROVE  Open(s, i + 1) = {a \in Open(s, i) : Depth(s, a, i + 1) >= 0}
                              \cup {a \in {i} : Is(s, i, "q")}
<1>1. (i + 1) - 1 = i
    OBVIOUS
<1>2. ASSUME NEW a \in 1 .. i - 1
      PROVE  a \in Open(s, i + 1) <=> a \in Open(s, i) /\ Depth(s, a, i + 1) >= 0
    <2>1. a + 1 \in Nat /\ i \in a + 1 .. i /\ \A j \in a + 1 .. i : j = i \/ j \in a + 1 .. i - 1
        OBVIOUS
    <2>2. Count(s, a + 1, i, "q") \in Nat /\ Count(s, a + 1, i, "Q") \in Nat
        BY <2>1, CountType
    <2>3. Depth(s, a, i + 1) >= 0 <=> Count(s, a + 1, i, "Q") =< Count(s, a + 1, i, "q")
        BY <1>1, <2>2 DEF Depth
    <2>4. a + 1 .. i - 1 \subseteq a + 1 .. i
        OBVIOUS
    <2> QED BY <1>1, <2>1, <2>3, <2>4 DEF Open
<1>3. i \in Open(s, i + 1) <=> Is(s, i, "q")
    <2>1. i + 1 .. i = {}
        OBVIOUS
    <2> QED BY <1>1, <2>1 DEF Open
<1>4. Open(s, i) \subseteq 1 .. i - 1 /\ Open(s, i + 1) \subseteq 1 .. i
    BY <1>1 DEF Open
<1>5. \A a \in 1 .. i : a = i \/ a \in 1 .. i - 1
    OBVIOUS
<1>6. i \notin Open(s, i)
    BY <1>4
<1> QED BY <1>2, <1>3, <1>4, <1>5, <1>6, Zenon

\* q ... Q groups do not cross.
LEMMA NoCrossing ==
    ASSUME NEW s, NEW i \in Nat, NEW a \in 1 .. i - 1, Closes(s, a, i),
           NEW b \in 1 .. a - 1, NEW c \in a + 1 .. i
    PROVE  ~ Closes(s, b, c)
<1> SUFFICES ASSUME Closes(s, b, c) PROVE FALSE
    OBVIOUS
<1>1. b + 1 \in Nat /\ a \in Nat /\ a - 1 \in Nat /\ a + 1 \in Nat /\ c - 1 \in Nat
      /\ b + 1 <= a /\ a <= c - 1
    OBVIOUS
<1>2. Is(s, a, "q") /\ ~ Is(s, a, "Q")
    BY DEF Closes, Is
<1>3. Count(s, b + 1, c - 1, "q") = Count(s, b + 1, a - 1, "q") + 1 + Count(s, a + 1, c - 1, "q")
    BY <1>1, <1>2, CountSplit
<1>4. Count(s, b + 1, c - 1, "Q") = Count(s, b + 1, a - 1, "Q") + 0 + Count(s, a + 1, c - 1, "Q")
    BY <1>1, <1>2, CountSplit
<1>5. Count(s, b + 1, a - 1, "Q") =< Count(s, b + 1, a - 1, "q")
    <2>1. CASE a - 1 \in b + 1 .. c - 1
        BY <2>1 DEF Closes
    <2>2. CASE a - 1 < b + 1
        BY <1>1, <2>2, CountNone
    <2> QED BY <1>1, <2>1, <2>2
<1>6. Count(s, a + 1, c - 1, "Q") =< Count(s, a + 1, c - 1, "q")
    <2>1. CASE c - 1 \in a + 1 .. i - 1
        BY <2>1 DEF Closes
    <2>2. CASE c - 1 < a + 1
        BY <1>1, <2>2, CountNone
    <2> QED BY <1>1, <2>1, <2>2
<1>7. Count(s, b + 1, c - 1, "q") = Count(s, b + 1, c - 1, "Q")
    BY DEF Closes
<1>8. /\ Count(s, b + 1, a - 1, "q") \in Nat /\ Count(s, a + 1, c - 1, "q") \in Nat
      /\ Count(s, b + 1, a - 1, "Q") \in Nat /\ Count(s, a + 1, c - 1, "Q") \in Nat
    BY <1>1, CountType
<1> QED BY <1>3, <1>4, <1>5, <1>6, <1>7, <1>8

-----------------------------------------------------------------------------
(* The matrices in force.                                                   *)

\* An operator that closes no group adds at most its own matrix.
LEMMA InForceNext ==
    ASSUME NEW s, NEW i \in Nat \ {0}, \A a \in 1 .. i - 1 : ~ Closes(s, a, i)
    PROVE  InForce(s, i + 1) = InForce(s, i) \cup {j \in {i} : Good(s, i, "cm")}
<1> DEFINE Undone(j, n) == \E a \in 1 .. j - 1, b \in j + 1 .. n - 1 : Closes(s, a, b)
<1>1. (i + 1) - 1 = i
    OBVIOUS
<1>2. ~ Undone(i, i + 1)
    <2>1. i + 1 .. i = {}
        OBVIOUS
    <2> QED BY <1>1, <2>1
<1>3. ASSUME NEW j \in 1 .. i - 1 PROVE Undone(j, i + 1) <=> Undone(j, i)
    <2>1. \A b \in j + 1 .. i : b = i \/ b \in j + 1 .. i - 1
        OBVIOUS
    <2>2. j + 1 .. i - 1 \subseteq j + 1 .. i /\ 1 .. j - 1 \subseteq 1 .. i - 1
        OBVIOUS
    <2> QED BY <1>1, <2>1, <2>2
<1>4. InForce(s, i + 1) = {j \in 1 .. i : Good(s, j, "cm") /\ ~ Undone(j, i + 1)}
    BY <1>1 DEF InForce
<1>5. InForce(s, i) = {j \in 1 .. i - 1 : Good(s, j, "cm") /\ ~ Undone(j, i)}
    BY DEF InForce
<1>6. i \in 1 .. i /\ i \notin 1 .. i - 1 /\ 1 .. i - 1 \subseteq 1 .. i
      /\ \A j \in 1 .. i : j = i \/ j \in 1 .. i - 1
    OBVIOUS
<1> HIDE DEF Undone
<1> QED BY <1>2, <1>3, <1>4, <1>5, <1>6, Zenon

\* A Q that closes the group opened at a leaves what was in force there.
LEMMA InForceClosed ==
    ASSUME NEW s, NEW i \in Nat, NEW a \in 1 .. i - 1, Closes(s, a, i)
    PROVE  InForce(s, i + 1) = InForce(s, a)
<1>1. (i + 1) - 1 = i /\ i \in Nat
    OBVIOUS
<1>2. Is(s, a, "q") /\ Is(s, i, "Q") /\ ~ Is(s, a, "cm") /\ ~ Is(s, i, "cm") /\ ~ Is(s, a, "Q")
    BY DEF Closes, Is
<1>3. ASSUME NEW j \in InForce(s, i + 1) PROVE j \in InForce(s, a)
    <2>1. /\ j \in 1 .. i /\ Good(s, j, "cm")
          /\ ~ \E b \in 1 .. j - 1, c \in j + 1 .. i : Closes(s, b, c)
        BY <1>1 DEF InForce
    <2>2. j # a /\ j # i
        BY <1>2, <2>1 DEF Good
    <2>3. ~ (a < j)
        <3>1. a < j => a \in 1 .. j - 1 /\ i \in j + 1 .. i
            BY <2>1, <2>2
        <3> QED BY <2>1, <3>1
    <2>4. j \in 1 .. a - 1 /\ j + 1 .. a - 1 \subseteq j + 1 .. i
        BY <2>1, <2>2, <2>3
    <2> QED BY <2>1, <2>4 DEF InForce
<1>4. ASSUME NEW j \in InForce(s, a) PROVE j \in InForce(s, i + 1)
    <2>1. /\ j \in 1 .. a - 1 /\ Good(s, j, "cm")
          /\ ~ \E b \in 1 .. j - 1, c \in j + 1 .. a - 1 : Closes(s, b, c)
        BY DEF InForce
    <2>2. ASSUME NEW b \in 1 .. j - 1, NEW c \in j + 1 .. i PROVE ~ Closes(s, b, c)
        <3>1. CASE c \in j + 1 .. a - 1
            BY <2>1, <3>1
        <3>2. CASE c = a
            BY <1>2, <3>2 DEF Closes
        <3>3. CASE c \in a + 1 .. i
            <4>1. b \in 1 .. a - 1
                BY <2>1
            <4> QED BY <3>3, <4>1, NoCrossing
        <3> QED BY <2>1, <3>1, <3>2, <3>3
    <2>3. j \in 1 .. i
        BY <2>1
    <2> QED BY <1>1, <2>1, <2>2, <2>3 DEF InForce
<1> QED BY <1>3, <1>4
-----------------------------------------------------------------------------
(* The product of the matrices in force, operator by operator.              *)

\* Places of a stream that concatenate a matrix.
Concats(s) == {i \in 1 .. Len(s) : Good(s, i, "cm")}

IsProduct(m, s, F) ==
    m = [i \in 0 .. Len(s) |->
            IF i = 0 THEN identMat ELSE IF i \in F THEN Mul(s[i].nums, m[i - 1]) ELSE m[i - 1]]

\* The recursion of Product has a solution.
LEMMA ProductRuns ==
    ASSUME NEW s \in Streams, NEW F, F \subseteq Concats(s)
    PROVE  Product(s, F) \in [0 .. Len(s) -> Matrices] /\ IsProduct(Product(s, F), s, F)
<1> DEFINE n == Len(s)
           step == [p \in (1 .. n) \X Matrices |->
                       IF p[1] \in F THEN Mul(s[p[1]].nums, p[2]) ELSE p[2]]
<1>1. n \in Nat
    BY DEF Streams
<1>2. \A i \in F : i \in 1 .. n /\ s[i].nums \in Matrices
    BY NumbersOf DEF Concats
<1>3. step \in [(1 .. n) \X Matrices -> Matrices]
    <2>1. \A p \in (1 .. n) \X Matrices :
              (IF p[1] \in F THEN Mul(s[p[1]].nums, p[2]) ELSE p[2]) \in Matrices
        BY <1>2, MulType
    <2> QED BY <2>1
<1>4. \A i \in 1 .. n, m \in Matrices :
          step[<<i, m>>] = IF i \in F THEN Mul(s[i].nums, m) ELSE m
    OBVIOUS
<1> HIDE DEF n, step
<1>5. PICK f \in [0 .. n -> Matrices] : IsRecursion(f, step, identMat, n)
    BY <1>1, <1>3, IdentType, RecursionExists
<1>6. ASSUME NEW i \in 0 .. n
      PROVE  f[i] = IF i = 0 THEN identMat
                    ELSE IF i \in F THEN Mul(s[i].nums, f[i - 1]) ELSE f[i - 1]
    <2>1. f[i] = IF i = 0 THEN identMat ELSE step[<<i, f[i - 1]>>]
        BY <1>5 DEF IsRecursion
    <2>2. CASE i # 0
        <3>1. i \in 1 .. n /\ i - 1 \in 0 .. n
            BY <1>1, <2>2
        <3>2. f[i - 1] \in Matrices
            BY <3>1
        <3> QED BY <1>4, <2>1, <2>2, <3>1, <3>2
    <2> QED BY <2>1, <2>2
<1>7. IsProduct(f, s, F)
    <2>1. f = [i \in 0 .. n |-> f[i]]
        OBVIOUS
    <2> QED BY <1>6, <2>1 DEF IsProduct, n
<1>8. Product(s, F) = CHOOSE m : IsProduct(m, s, F)
    BY DEF Product, IsProduct
<1>9. IsProduct(Product(s, F), s, F)
    BY <1>7, <1>8
<1> DEFINE g == Product(s, F)
<1> HIDE DEF g
<1>10. /\ DOMAIN g = 0 .. n /\ g = [i \in 0 .. n |-> g[i]]
       /\ \A i \in 0 .. n :
            g[i] = IF i = 0 THEN identMat
                   ELSE IF i \in F THEN Mul(s[i].nums, g[i - 1]) ELSE g[i - 1]
    <2>1. IsProduct(g, s, F)
        BY <1>9 DEF g
    <2>2. g = [i \in 0 .. n |-> IF i = 0 THEN identMat
                   ELSE IF i \in F THEN Mul(s[i].nums, g[i - 1]) ELSE g[i - 1]]
        BY <2>1 DEF IsProduct, n
    <2> QED BY <2>2
<1> DEFINE P == {i \in 0 .. n : g[i] \in Matrices}
<1>11. 0 \in P
    <2>1. 0 \in 0 .. n
        BY <1>1
    <2>2. g[0] = identMat
        BY <1>10, <2>1
    <2> QED BY <2>1, <2>2, IdentType
<1>12. ASSUME NEW k \in 0 .. n - 1, k \in P PROVE k + 1 \in P
    <2>1. k + 1 \in 0 .. n /\ k + 1 # 0 /\ (k + 1) - 1 = k
        BY <1>1
    <2>2. g[k + 1] = IF k + 1 \in F THEN Mul(s[k + 1].nums, g[k]) ELSE g[k]
        BY <1>10, <2>1
    <2>3. g[k] \in Matrices
        BY <1>12
    <2> QED BY <1>2, <2>1, <2>2, <2>3, MulType
<1> HIDE DEF P
<1>13. 0 .. n \subseteq P
    <2>1. 0 \in Nat
        OBVIOUS
    <2> QED BY <1>1, <1>11, <1>12, <2>1, IntervalInduct
<1>14. g \in [0 .. n -> Matrices]
    BY <1>10, <1>13 DEF P
<1> QED BY <1>9, <1>14 DEF g, n

\* The product, one operator after the other.
LEMMA ProductStep ==
    ASSUME NEW s \in Streams, NEW F, F \subseteq Concats(s)
    PROVE  /\ \A i \in 0 .. Len(s) : Product(s, F)[i] \in Matrices
           /\ Product(s, F)[0] = identMat
           /\ \A i \in 1 .. Len(s) :
                 Product(s, F)[i] = IF i \in F THEN Mul(s[i].nums, Product(s, F)[i - 1])
                                    ELSE Product(s, F)[i - 1]
<1> DEFINE g == Product(s, F)
<1>1. g \in [0 .. Len(s) -> Matrices] /\ IsProduct(g, s, F)
    BY ProductRuns
<1>2. Len(s) \in Nat
    BY DEF Streams
<1> HIDE DEF g
<1>3. \A i \in 0 .. Len(s) :
          g[i] = IF i = 0 THEN identMat
                 ELSE IF i \in F THEN Mul(s[i].nums, g[i - 1]) ELSE g[i - 1]
    BY <1>1 DEF IsProduct
<1>4. \A i \in 1 .. Len(s) : i \in 0 .. Len(s) /\ i # 0
    OBVIOUS
<1>5. 0 \in 0 .. Len(s)
    BY <1>2
<1>6. g[0] = identMat
    BY <1>3, <1>5
<1>7. \A i \in 1 .. Len(s) : g[i] = IF i \in F THEN Mul(s[i].nums, g[i - 1]) ELSE g[i - 1]
    BY <1>3, <1>4
<1>8. \A i \in 0 .. Len(s) : g[i] \in Matrices
    BY <1>1
<1> QED BY <1>6, <1>7, <1>8 DEF g

\* It does not depend on matrices that come later,
LEMMA ProductBefore ==
    ASSUME NEW s \in Streams, NEW F, F \subseteq Concats(s), NEW G, G \subseteq Concats(s),
           NEW n \in 0 .. Len(s), \A i \in 1 .. n : i \in F <=> i \in G
    PROVE  Product(s, F)[n] = Product(s, G)[n]
<1> DEFINE f == Product(s, F)
           g == Product(s, G)
           P == {i \in 0 .. n : f[i] = g[i]}
<1>1. n \in Nat /\ Len(s) \in Nat
    BY DEF Streams
<1>2. f[0] = g[0]
    BY ProductStep
<1>3. ASSUME NEW i \in 1 .. Len(s)
      PROVE  /\ f[i] = IF i \in F THEN Mul(s[i].nums, f[i - 1]) ELSE f[i - 1]
             /\ g[i] = IF i \in G THEN Mul(s[i].nums, g[i - 1]) ELSE g[i - 1]
    BY ProductStep
<1> HIDE DEF f, g
<1>4. 0 \in P
    BY <1>1, <1>2
<1>5. ASSUME NEW k \in 0 .. n - 1, k \in P PROVE k + 1 \in P
    <2>1. k + 1 \in 1 .. n /\ k + 1 \in 1 .. Len(s) /\ k + 1 \in 0 .. n /\ (k + 1) - 1 = k
        BY <1>1
    <2>2. f[k] = g[k]
        BY <1>5
    <2> QED BY <1>3, <2>1, <2>2
<1> HIDE DEF P
<1>6. 0 .. n \subseteq P
    <2>1. 0 \in Nat
        OBVIOUS
    <2> QED BY <1>1, <1>4, <1>5, <2>1, IntervalInduct
<1>7. n \in 0 .. n
    BY <1>1
<1> QED BY <1>6, <1>7 DEF P, f, g

\* and stays where no more come.
LEMMA ProductStays ==
    ASSUME NEW s \in Streams, NEW F, F \subseteq Concats(s),
           NEW m \in 0 .. Len(s), NEW n \in m .. Len(s), \A i \in m + 1 .. n : i \notin F
    PROVE  Product(s, F)[n] = Product(s, F)[m]
<1> DEFINE f == Product(s, F)
           P == {i \in m .. n : f[i] = f[m]}
<1>1. n \in Nat /\ m \in Nat /\ m <= n /\ Len(s) \in Nat
    BY DEF Streams
<1>2. ASSUME NEW i \in 1 .. Len(s)
      PROVE  f[i] = IF i \in F THEN Mul(s[i].nums, f[i - 1]) ELSE f[i - 1]
    BY ProductStep
<1> HIDE DEF f
<1>3. m \in P
    BY <1>1
<1>4. ASSUME NEW k \in m .. n - 1, k \in P PROVE k + 1 \in P
    <2>1. k + 1 \in 1 .. Len(s) /\ k + 1 \in m + 1 .. n /\ k + 1 \in m .. n /\ (k + 1) - 1 = k
        BY <1>1
    <2>2. f[k] = f[m]
        BY <1>4
    <2> QED BY <1>2, <2>1, <2>2
<1> HIDE DEF P
<1>5. m .. n \subseteq P
    BY <1>1, <1>3, <1>4, IntervalInduct
<1>6. n \in m .. n
    BY <1>1
<1> QED BY <1>5, <1>6 DEF P, f

\* Only earlier cm operators are in force.
LEMMA InForceType ==
    ASSUME NEW s \in Streams, NEW i \in 1 .. Len(s) + 1
    PROVE  InForce(s, i) \subseteq Concats(s) /\ InForce(s, i) \subseteq 1 .. i - 1
<1>1. Len(s) \in Nat
    BY DEF Streams
<1>2. 1 .. i - 1 \subseteq 1 .. Len(s)
    BY <1>1
<1> QED BY <1>2 DEF InForce, Concats

\* The matrix of the page before the first operator,
LEMMA PageMatrixFirst ==
    ASSUME NEW s \in Streams
    PROVE  PageMatrix(s, 1) = identMat
<1>1. Len(s) \in Nat /\ 1 \in 1 .. Len(s) + 1 /\ 1 - 1 = 0
    BY DEF Streams
<1>2. InForce(s, 1) \subseteq Concats(s)
    BY <1>1, InForceType
<1> QED BY <1>1, <1>2, ProductStep DEF PageMatrix

\* after one that concatenates or leaves it alone,
LEMMA PageMatrixNext ==
    ASSUME NEW s \in Streams, NEW i \in 1 .. Len(s), \A a \in 1 .. i - 1 : ~ Closes(s, a, i)
    PROVE  PageMatrix(s, i + 1) = IF Good(s, i, "cm") THEN Mul(s[i].nums, PageMatrix(s, i))
                                  ELSE PageMatrix(s, i)
<1> DEFINE F == InForce(s, i)
           G == InForce(s, i + 1)
<1>1. Len(s) \in Nat /\ i \in Nat \ {0} /\ i \in 1 .. Len(s) + 1 /\ i + 1 \in 1 .. Len(s) + 1
      /\ (i + 1) - 1 = i /\ i - 1 \in 0 .. Len(s)
    BY DEF Streams
<1>2. F \subseteq Concats(s) /\ G \subseteq Concats(s) /\ F \subseteq 1 .. i - 1
    BY <1>1, InForceType
<1>3. G = F \cup {j \in {i} : Good(s, i, "cm")}
    BY <1>1, InForceNext
<1>4. i \in G <=> Good(s, i, "cm")
    <2>1. i \notin F
        BY <1>1, <1>2
    <2> HIDE DEF F, G
    <2> QED BY <1>3, <2>1
<1>5. \A j \in 1 .. i - 1 : j \in F <=> j \in G
    <2>1. \A j \in 1 .. i - 1 : j # i
        BY <1>1
    <2> HIDE DEF F, G
    <2> QED BY <1>3, <2>1
<1>6. PageMatrix(s, i + 1) = Product(s, G)[i] /\ PageMatrix(s, i) = Product(s, F)[i - 1]
    BY <1>1 DEF PageMatrix
<1>7. Product(s, G)[i - 1] = Product(s, F)[i - 1]
    <2>1. \A A, B : /\ A \subseteq Concats(s) /\ B \subseteq Concats(s)
                    /\ \A j \in 1 .. i - 1 : j \in A <=> j \in B
                    => Product(s, A)[i - 1] = Product(s, B)[i - 1]
        BY <1>1, ProductBefore
    <2> HIDE DEF F, G
    <2> QED BY <1>2, <1>5, <2>1
<1>8. Product(s, G)[i] = IF i \in G THEN Mul(s[i].nums, Product(s, G)[i - 1])
                         ELSE Product(s, G)[i - 1]
    <2>1. \A A : A \subseteq Concats(s) =>
              Product(s, A)[i] = IF i \in A THEN Mul(s[i].nums, Product(s, A)[i - 1])
                                 ELSE Product(s, A)[i - 1]
        BY ProductStep
    <2> HIDE DEF G
    <2> QED BY <1>2, <2>1
<1> HIDE DEF F, G
<1> QED BY <1>4, <1>6, <1>7, <1>8

\* and after one that closes a group.
LEMMA PageMatrixClosed ==
    ASSUME NEW s \in Streams, NEW i \in 1 .. Len(s), NEW a \in 1 .. i - 1, Closes(s, a, i)
    PROVE  PageMatrix(s, i + 1) = PageMatrix(s, a)
<1> DEFINE F == InForce(s, a)
<1>1. Len(s) \in Nat /\ i \in Nat /\ a \in 1 .. Len(s) + 1 /\ (i + 1) - 1 = i
      /\ a - 1 \in 0 .. Len(s) /\ i \in a - 1 .. Len(s)
    BY DEF Streams
<1>2. InForce(s, i + 1) = F
    BY <1>1, InForceClosed
<1>3. F \subseteq Concats(s) /\ F \subseteq 1 .. a - 1
    BY <1>1, InForceType
<1>4. \A j \in (a - 1) + 1 .. i : j \notin F
    BY <1>1, <1>3
<1>5. PageMatrix(s, i + 1) = Product(s, F)[i] /\ PageMatrix(s, a) = Product(s, F)[a - 1]
    BY <1>1, <1>2 DEF PageMatrix
<1> HIDE DEF F
<1>6. Product(s, F)[i] = Product(s, F)[a - 1]
    BY <1>1, <1>3, <1>4, ProductStays
<1> QED BY <1>5, <1>6

LEMMA PageMatrixType ==
    ASSUME NEW s \in Streams, NEW i \in 1 .. Len(s) + 1
    PROVE  PageMatrix(s, i) \in Matrices
<1>1. i - 1 \in 0 .. Len(s)
    BY DEF Streams
<1>2. InForce(s, i) \subseteq Concats(s)
    BY InForceType
<1> QED BY <1>1, <1>2, ProductStep DEF PageMatrix
-----------------------------------------------------------------------------
(* Where the text of a stream is.                                           *)

IsSum(m, s, b, d) ==
    m = [i \in 0 .. Len(s) |-> IF i =< b THEN 0 ELSE m[i - 1] + Step(s, i, d)]

LEMMA StepType ==
    ASSUME NEW s \in Streams, NEW i \in 1 .. Len(s), NEW d \in {1, 2}
    PROVE  Step(s, i, d) \in Int
BY NumbersOf DEF Step, Leading

\* The recursion of Moved has a solution.
LEMMA MovedRuns ==
    ASSUME NEW s \in Streams, NEW b \in Nat, NEW d \in {1, 2}
    PROVE  Moved(s, b, d) \in [0 .. Len(s) -> Int] /\ IsSum(Moved(s, b, d), s, b, d)
<1> DEFINE n == Len(s)
           step == [p \in (1 .. n) \X Int |-> IF p[1] =< b THEN 0 ELSE p[2] + Step(s, p[1], d)]
<1>1. n \in Nat
    BY DEF Streams
<1>2. step \in [(1 .. n) \X Int -> Int]
    <2>1. \A p \in (1 .. n) \X Int : (IF p[1] =< b THEN 0 ELSE p[2] + Step(s, p[1], d)) \in Int
        BY StepType
    <2> QED BY <2>1
<1>3. \A i \in 1 .. n, m \in Int : step[<<i, m>>] = IF i =< b THEN 0 ELSE m + Step(s, i, d)
    OBVIOUS
<1> HIDE DEF n, step
<1>4. PICK f \in [0 .. n -> Int] : IsRecursion(f, step, 0, n)
    <2>1. 0 \in Int
        OBVIOUS
    <2> QED BY <1>1, <1>2, <2>1, RecursionExists
<1>5. ASSUME NEW i \in 0 .. n PROVE f[i] = IF i =< b THEN 0 ELSE f[i - 1] + Step(s, i, d)
    <2>1. f[i] = IF i = 0 THEN 0 ELSE step[<<i, f[i - 1]>>]
        BY <1>4 DEF IsRecursion
    <2>2. CASE i # 0
        <3>1. i \in 1 .. n /\ i - 1 \in 0 .. n
            BY <1>1, <2>2
        <3>2. f[i - 1] \in Int
            BY <3>1
        <3> QED BY <1>3, <2>1, <2>2, <3>1, <3>2
    <2> QED BY <2>1, <2>2
<1>6. IsSum(f, s, b, d)
    <2>1. f = [i \in 0 .. n |-> f[i]]
        OBVIOUS
    <2> QED BY <1>5, <2>1 DEF IsSum, n
<1>7. Moved(s, b, d) = CHOOSE m : IsSum(m, s, b, d)
    BY DEF Moved, IsSum
<1>8. IsSum(Moved(s, b, d), s, b, d)
    BY <1>6, <1>7
<1> DEFINE g == Moved(s, b, d)
<1> HIDE DEF g
<1>9. /\ g = [i \in 0 .. n |-> g[i]]
      /\ \A i \in 0 .. n : g[i] = IF i =< b THEN 0 ELSE g[i - 1] + Step(s, i, d)
    <2>1. IsSum(g, s, b, d)
        BY <1>8 DEF g
    <2>2. g = [i \in 0 .. n |-> IF i =< b THEN 0 ELSE g[i - 1] + Step(s, i, d)]
        BY <2>1 DEF IsSum, n
    <2> QED BY <2>2
<1> DEFINE P == {i \in 0 .. n : g[i] \in Int}
<1>10. 0 \in P
    <2>1. 0 \in 0 .. n /\ 0 =< b
        BY <1>1
    <2> QED BY <1>9, <2>1
<1>11. ASSUME NEW k \in 0 .. n - 1, k \in P PROVE k + 1 \in P
    <2>1. k + 1 \in 0 .. n /\ k + 1 \in 1 .. n /\ (k + 1) - 1 = k
        BY <1>1
    <2>2. Step(s, k + 1, d) \in Int
        BY <2>1, StepType DEF n
    <2>3. g[k + 1] = IF k + 1 =< b THEN 0 ELSE g[k] + Step(s, k + 1, d)
        BY <1>9, <2>1
    <2>4. g[k] \in Int
        BY <1>11
    <2>5. g[k + 1] \in Int
        BY <2>2, <2>3, <2>4
    <2> QED BY <2>1, <2>5
<1> HIDE DEF P
<1>12. 0 .. n \subseteq P
    <2>1. 0 \in Nat
        OBVIOUS
    <2> QED BY <1>1, <1>10, <1>11, <2>1, IntervalInduct
<1>13. g \in [0 .. n -> Int]
    BY <1>9, <1>12 DEF P
<1> QED BY <1>8, <1>13 DEF g, n

\* The sum, one operator after the other.
LEMMA MovedStep ==
    ASSUME NEW s \in Streams, NEW b \in Nat, NEW d \in {1, 2}, NEW i \in 0 .. Len(s)
    PROVE  /\ Moved(s, b, d)[i] \in Int
           /\ Moved(s, b, d)[i] = IF i =< b THEN 0 ELSE Moved(s, b, d)[i - 1] + Step(s, i, d)
<1> DEFINE g == Moved(s, b, d)
<1>1. g \in [0 .. Len(s) -> Int] /\ IsSum(g, s, b, d)
    BY MovedRuns
<1> HIDE DEF g
<1>2. g[i] \in Int /\ g[i] = IF i =< b THEN 0 ELSE g[i - 1] + Step(s, i, d)
    BY <1>1 DEF IsSum
<1> QED BY <1>2 DEF g

\* The text matrix before operator i.
TextPlace(s, i) ==
    LET b == TextStart(s, i)
    IN  Mul(Shift(Moved(s, b, 1)[i - 1], Moved(s, b, 2)[i - 1]), TextMatrix(s, b))

Starts(s, i) == Is(s, i, "BT") \/ Good(s, i, "Tm")

LEMMA TextStartType ==
    ASSUME NEW s, NEW i \in Nat \ {0}
    PROVE  /\ TextStart(s, i) \in 0 .. i - 1
           /\ TextStart(s, i) # 0 => Starts(s, TextStart(s, i))
<1> DEFINE S == {j \in 1 .. i - 1 : Starts(s, j)}
           T == {0} \cup S
<1>1. TextStart(s, i) = Max(T)
    BY DEF TextStart, Starts
<1>2. \E x \in T : \A y \in T : x >= y
    <2>1. CASE S = {}
        <3>1. T = {0}
            BY <2>1
        <3> QED BY <3>1
    <2>2. CASE S # {}
        <3>1. S \subseteq 1 .. i - 1 /\ i - 1 \in Nat
            OBVIOUS
        <3> HIDE DEF S
        <3>2. \E x \in S : \A y \in S : x >= y
            BY <2>2, <3>1, GreatestOfInterval
        <3>3. \A x \in S : x >= 0
            BY <3>1
        <3> QED BY <3>2, <3>3
    <2> QED BY <2>1, <2>2
<1>3. Max(T) \in T
    <2> HIDE DEF T
    <2> QED BY <1>2 DEF Max
<1>4. T \subseteq 0 .. i - 1 /\ \A x \in T : x # 0 => Starts(s, x)
    OBVIOUS
<1> QED BY <1>1, <1>3, <1>4

\* BT and Tm start anew, other operators do not.
LEMMA TextStartNext ==
    ASSUME NEW s, NEW i \in Nat \ {0}
    PROVE  TextStart(s, i + 1) = IF Starts(s, i) THEN i ELSE TextStart(s, i)
<1> DEFINE T == {0} \cup {j \in 1 .. i : Starts(s, j)}
<1>1. (i + 1) - 1 = i
    OBVIOUS
<1>2. TextStart(s, i + 1) = Max(T)
    BY <1>1 DEF TextStart, Starts
<1>3. CASE Starts(s, i)
    <2>1. i \in T /\ \A x \in T : x \in Int /\ x <= i
        BY <1>3
    <2> HIDE DEF T
    <2>2. \A x \in T : (\A y \in T : x >= y) => x = i
        BY <2>1
    <2>3. Max(T) = i
        BY <2>1, <2>2 DEF Max
    <2> QED BY <1>2, <1>3, <2>3
<1>4. CASE ~ Starts(s, i)
    <2>1. T = {0} \cup {j \in 1 .. i - 1 : Starts(s, j)}
        <3>1. \A j \in 1 .. i : j = i \/ j \in 1 .. i - 1
            OBVIOUS
        <3>2. 1 .. i - 1 \subseteq 1 .. i
            OBVIOUS
        <3> QED BY <1>4, <3>1, <3>2
    <2>2. TextStart(s, i) = Max(T)
        BY <2>1 DEF TextStart, Starts
    <2> QED BY <1>2, <1>4, <2>2
<1> QED BY <1>3, <1>4

LEMMA TextMatrixType ==
    ASSUME NEW s \in Streams, NEW i \in 1 .. Len(s) + 1
    PROVE  TextMatrix(s, TextStart(s, i)) \in Matrices
<1> DEFINE b == TextStart(s, i)
<1>1. Len(s) \in Nat /\ i \in Nat \ {0}
    BY DEF Streams
<1>2. b \in 0 .. i - 1 /\ (b # 0 => Starts(s, b))
    BY <1>1, TextStartType
<1> HIDE DEF b
<1>3. CASE b # 0 /\ Is(s, b, "Tm")
    <2>1. Good(s, b, "Tm")
        BY <1>2, <1>3 DEF Starts, Is
    <2>2. b \in 1 .. Len(s)
        BY <1>1, <1>2, <1>3
    <2>3. s[b].nums \in Matrices
        BY <2>1, <2>2, NumbersOf
    <2> QED BY <1>3, <2>3 DEF TextMatrix, b
<1>4. CASE ~ (b # 0 /\ Is(s, b, "Tm"))
    BY <1>4, IdentType DEF TextMatrix, b
<1> QED BY <1>3, <1>4

\* The text matrix before the first operator,
LEMMA TextPlaceFirst ==
    ASSUME NEW s \in Streams
    PROVE  TextPlace(s, 1) = identMat
<1>1. 1 \in Nat \ {0} /\ 1 - 1 = 0 /\ 0 \in 0 .. Len(s)
    BY DEF Streams
<1>2. TextStart(s, 1) = 0
    <2>1. TextStart(s, 1) \in 0 .. 1 - 1
        BY <1>1, TextStartType
    <2> QED BY <2>1
<1>3. Moved(s, 0, 1)[0] = 0 /\ Moved(s, 0, 2)[0] = 0
    <2>1. 0 \in Nat /\ 0 =< 0 /\ 1 \in {1, 2} /\ 2 \in {1, 2}
        OBVIOUS
    <2> QED BY <1>1, <2>1, MovedStep
<1>4. TextMatrix(s, 0) = identMat
    BY DEF TextMatrix
<1> QED BY <1>1, <1>2, <1>3, <1>4, NoShift, IdentType DEF TextPlace

\* after one that starts anew,
LEMMA TextPlaceStarts ==
    ASSUME NEW s \in Streams, NEW i \in 1 .. Len(s), Starts(s, i)
    PROVE  TextPlace(s, i + 1) = IF Is(s, i, "Tm") THEN s[i].nums ELSE identMat
<1>1. Len(s) \in Nat /\ i \in Nat \ {0} /\ i \in 0 .. Len(s) /\ (i + 1) - 1 = i
      /\ i + 1 \in 1 .. Len(s) + 1 /\ i \in Nat /\ i =< i
    BY DEF Streams
<1>2. TextStart(s, i + 1) = i
    BY <1>1, TextStartNext
<1>3. Moved(s, i, 1)[i] = 0 /\ Moved(s, i, 2)[i] = 0
    <2>1. 1 \in {1, 2} /\ 2 \in {1, 2}
        OBVIOUS
    <2> QED BY <1>1, <2>1, MovedStep
<1>4. TextMatrix(s, i) \in Matrices
    BY <1>1, <1>2, TextMatrixType
<1>5. TextPlace(s, i + 1) = TextMatrix(s, i)
    BY <1>1, <1>2, <1>3, <1>4, NoShift DEF TextPlace
<1> QED BY <1>1, <1>5 DEF TextMatrix

\* and after one that does not.
LEMMA TextPlaceNext ==
    ASSUME NEW s \in Streams, NEW i \in 1 .. Len(s), ~ Starts(s, i)
    PROVE  TextPlace(s, i + 1) = Mul(Shift(Step(s, i, 1), Step(s, i, 2)), TextPlace(s, i))
<1> DEFINE b == TextStart(s, i)
           m == TextMatrix(s, b)
<1>1. Len(s) \in Nat /\ i \in Nat \ {0} /\ i \in 0 .. Len(s) /\ i - 1 \in 0 .. Len(s)
      /\ (i + 1) - 1 = i /\ i \in 1 .. Len(s) + 1 /\ 1 \in {1, 2} /\ 2 \in {1, 2}
    BY DEF Streams
<1>2. TextStart(s, i + 1) = b
    BY <1>1, TextStartNext
<1>3. b \in 0 .. i - 1 /\ m \in Matrices
    BY <1>1, TextStartType, TextMatrixType
<1> HIDE DEF b
<1>4. b \in Nat /\ ~ (i =< b)
    BY <1>1, <1>3
<1>5. Step(s, i, 1) \in Int /\ Step(s, i, 2) \in Int
    BY <1>1, StepType
<1>6. Moved(s, b, 1)[i - 1] \in Int /\ Moved(s, b, 2)[i - 1] \in Int
    BY <1>1, <1>4, MovedStep
<1>7. Moved(s, b, 1)[i] = Moved(s, b, 1)[i - 1] + Step(s, i, 1)
    BY <1>1, <1>4, MovedStep
<1>8. Moved(s, b, 2)[i] = Moved(s, b, 2)[i - 1] + Step(s, i, 2)
    BY <1>1, <1>4, MovedStep
<1>9. TextPlace(s, i + 1) = Mul(Shift(Moved(s, b, 1)[i], Moved(s, b, 2)[i]), m)
    BY <1>1, <1>2 DEF TextPlace
<1>10. TextPlace(s, i) = Mul(Shift(Moved(s, b, 1)[i - 1], Moved(s, b, 2)[i - 1]), m)
    BY DEF TextPlace, b
<1> HIDE DEF m
<1>11. Mul(Shift(Step(s, i, 1), Step(s, i, 2)),
           Mul(Shift(Moved(s, b, 1)[i - 1], Moved(s, b, 2)[i - 1]), m))
         = Mul(Shift(Moved(s, b, 1)[i - 1] + Step(s, i, 1), Moved(s, b, 2)[i - 1] + Step(s, i, 2)), m)
    BY <1>3, <1>5, <1>6, ShiftTwice
<1> QED BY <1>7, <1>8, <1>9, <1>10, <1>11

LEMMA TextPlaceType ==
    ASSUME NEW s \in Streams, NEW i \in 1 .. Len(s) + 1
    PROVE  TextPlace(s, i) \in Matrices
<1> DEFINE b == TextStart(s, i)
<1>1. i - 1 \in 0 .. Len(s) /\ i \in Nat \ {0} /\ 1 \in {1, 2} /\ 2 \in {1, 2}
    BY DEF Streams
<1>2. b \in Nat /\ TextMatrix(s, b) \in Matrices
    BY <1>1, TextStartType, TextMatrixType
<1> HIDE DEF b
<1>3. Moved(s, b, 1)[i - 1] \in Int /\ Moved(s, b, 2)[i - 1] \in Int
    BY <1>1, <1>2, MovedStep
<1>4. Mul(Shift(Moved(s, b, 1)[i - 1], Moved(s, b, 2)[i - 1]), TextMatrix(s, b)) \in Matrices
    BY <1>2, <1>3, MulType, ShiftType
<1> QED BY <1>4 DEF TextPlace, b

\* An operator that shows text shows it with the text matrix it leaves behind.
LEMMA PlaceOfText ==
    ASSUME NEW s \in Streams, NEW i \in 1 .. Len(s), ~ Starts(s, i)
    PROVE  Place(s, i) = Mul(TextPlace(s, i + 1), PageMatrix(s, i))
<1> DEFINE b == TextStart(s, i)
           m == TextMatrix(s, b)
           p == PageMatrix(s, i)
<1>1. Len(s) \in Nat /\ i \in Nat \ {0} /\ i \in 0 .. Len(s) /\ (i + 1) - 1 = i
      /\ i \in 1 .. Len(s) + 1 /\ 1 \in {1, 2} /\ 2 \in {1, 2}
    BY DEF Streams
<1>2. TextStart(s, i + 1) = b
    BY <1>1, TextStartNext
<1>3. b \in Nat /\ m \in Matrices /\ p \in Matrices
    BY <1>1, TextStartType, TextMatrixType, PageMatrixType
<1>4. TextPlace(s, i + 1) = Mul(Shift(Moved(s, b, 1)[i], Moved(s, b, 2)[i]), m)
    BY <1>1, <1>2 DEF TextPlace
<1>5. Place(s, i) = Mul(Shift(Moved(s, b, 1)[i], Moved(s, b, 2)[i]), Mul(m, p))
    BY DEF Place
<1> HIDE DEF b, m, p
<1>6. Moved(s, b, 1)[i] \in Int /\ Moved(s, b, 2)[i] \in Int
    BY <1>1, <1>3, MovedStep
<1>7. Mul(Shift(Moved(s, b, 1)[i], Moved(s, b, 2)[i]), Mul(m, p))
        = Mul(Mul(Shift(Moved(s, b, 1)[i], Moved(s, b, 2)[i]), m), p)
    BY <1>3, <1>6, ShiftAssoc
<1> QED BY <1>4, <1>5, <1>7 DEF p
-----------------------------------------------------------------------------
(* The stack holds the matrix at every q that is open.                      *)

StackInv(s, i, stack) ==
    \E pos \in [1 .. Len(stack) -> Open(s, i)] :
        /\ \A k \in 1 .. Len(stack) :
              stack[k] = PageMatrix(s, pos[k]) /\ Depth(s, pos[k], i) = Len(stack) - k
        /\ \A a \in Open(s, i) : \E k \in 1 .. Len(stack) : pos[k] = a

LEMMA OpenType ==
    ASSUME NEW s, NEW i \in Nat \ {0}, NEW a \in Open(s, i)
    PROVE  a \in 1 .. i - 1 /\ a \in Open(s, i) /\ Depth(s, a, i) \in Int
<1>1. a \in 1 .. i - 1
    BY DEF Open
<1>2. Depth(s, a, i) \in Int
    BY <1>1, DepthType
<1> QED BY <1>1, <1>2

\* Before the first operator none is open.
LEMMA StackFirst ==
    ASSUME NEW s
    PROVE  StackInv(s, 1, <<>>)
<1>1. Open(s, 1) = {} /\ Len(<<>>) = 0 /\ 1 .. 0 = {}
    <2>1. 1 .. 1 - 1 = {}
        OBVIOUS
    <2> QED BY <2>1 DEF Open
<1> DEFINE pos == [k \in 1 .. 0 |-> 0]
<1>2. pos \in [1 .. Len(<<>>) -> Open(s, 1)]
    BY <1>1
<1> QED BY <1>1, <1>2 DEF StackInv

\* Only q and Q change what is open.
LEMMA StackStays ==
    ASSUME NEW s, NEW i \in Nat \ {0}, NEW stack \in Seq(Matrices), StackInv(s, i, stack),
           ~ Is(s, i, "q"), ~ Is(s, i, "Q")
    PROVE  StackInv(s, i + 1, stack) /\ \A a \in 1 .. i - 1 : ~ Closes(s, a, i)
<1> DEFINE n == Len(stack)
<1>1. n \in Nat
    OBVIOUS
<1>2. PICK pos \in [1 .. n -> Open(s, i)] :
          /\ \A k \in 1 .. n :
                stack[k] = PageMatrix(s, pos[k]) /\ Depth(s, pos[k], i) = n - k
          /\ \A a \in Open(s, i) : \E k \in 1 .. n : pos[k] = a
    BY DEF StackInv
<1> HIDE DEF n
<1>3. \A a \in Open(s, i) : Depth(s, a, i + 1) = Depth(s, a, i)
    <2> TAKE a \in Open(s, i)
    <2>1. a \in 1 .. i - 1 /\ Depth(s, a, i) \in Int
        BY OpenType
    <2>2. Depth(s, a, i + 1) = Depth(s, a, i) + 0 - 0
        BY <2>1, DepthNext
    <2> QED BY <2>1, <2>2
<1>4. \A a \in Open(s, i) : Depth(s, a, i + 1) >= 0
    <2> TAKE a \in Open(s, i)
    <2>1. PICK k \in 1 .. n : pos[k] = a
        BY <1>2
    <2>2. Depth(s, a, i) = n - k
        BY <1>2, <2>1
    <2> QED BY <1>1, <1>3, <2>1, <2>2
<1>5. Open(s, i + 1) = Open(s, i)
    BY <1>4, OpenNext
<1>6. \A k \in 1 .. n : Depth(s, pos[k], i + 1) = n - k
    BY <1>2, <1>3
<1>7. StackInv(s, i + 1, stack)
    BY <1>2, <1>5, <1>6 DEF StackInv, n
<1> QED BY <1>7 DEF Closes

\* A q opens one more.
LEMMA StackPush ==
    ASSUME NEW s, NEW i \in Nat \ {0}, NEW stack \in Seq(Matrices), StackInv(s, i, stack),
           PageMatrix(s, i) \in Matrices, Is(s, i, "q")
    PROVE  /\ StackInv(s, i + 1, Append(stack, PageMatrix(s, i)))
           /\ \A a \in 1 .. i - 1 : ~ Closes(s, a, i)
<1> DEFINE n == Len(stack)
           more == Append(stack, PageMatrix(s, i))
           all == [1 .. n -> Open(s, i)]
<1>1. n \in Nat
    OBVIOUS
<1>2. PICK pos \in all :
          /\ \A k \in 1 .. n :
                stack[k] = PageMatrix(s, pos[k]) /\ Depth(s, pos[k], i) = n - k
          /\ \A a \in Open(s, i) : \E k \in 1 .. n : pos[k] = a
    BY DEF StackInv
<1>3. Len(more) = n + 1 /\ more[n + 1] = PageMatrix(s, i) /\ \A k \in 1 .. n : more[k] = stack[k]
    OBVIOUS
<1>4. pos \in [1 .. n -> Open(s, i)]
    OBVIOUS
<1> HIDE DEF n, more, all
<1>5. ~ Is(s, i, "Q")
    BY DEF Is
<1>6. \A a \in Open(s, i) : Depth(s, a, i + 1) = Depth(s, a, i) + 1
    <2> TAKE a \in Open(s, i)
    <2>1. a \in 1 .. i - 1 /\ Depth(s, a, i) \in Int
        BY OpenType
    <2>2. Depth(s, a, i + 1) = Depth(s, a, i) + 1 - 0
        BY <1>5, <2>1, DepthNext
    <2> QED BY <2>1, <2>2
<1>7. \A k \in 1 .. n : pos[k] \in Open(s, i) /\ Depth(s, pos[k], i + 1) = (n + 1) - k
    BY <1>1, <1>2, <1>4, <1>6
<1>8. Open(s, i + 1) = Open(s, i) \cup {i}
    <2>1. \A a \in Open(s, i) : Depth(s, a, i + 1) >= 0
        <3> TAKE a \in Open(s, i)
        <3>1. PICK k \in 1 .. n : pos[k] = a
            BY <1>2
        <3> QED BY <1>1, <1>7, <3>1
    <2> QED BY <2>1, OpenNext
<1>9. Depth(s, i, i + 1) = 0
    <2>1. (i + 1) - 1 = i /\ i + 1 \in Nat /\ i < i + 1
        OBVIOUS
    <2>2. Count(s, i + 1, i, "q") = 0 /\ Count(s, i + 1, i, "Q") = 0
        BY <2>1, CountNone
    <2> QED BY <2>1, <2>2 DEF Depth
<1> DEFINE qos == [k \in 1 .. n + 1 |-> IF k = n + 1 THEN i ELSE pos[k]]
<1>10. \A k \in 1 .. n : qos[k] = pos[k] /\ k \in 1 .. n + 1
    BY <1>1
<1>11. n + 1 \in 1 .. n + 1 /\ qos[n + 1] = i /\ \A k \in 1 .. n + 1 : k = n + 1 \/ k \in 1 .. n
    BY <1>1
<1>12. qos \in [1 .. n + 1 -> Open(s, i + 1)]
    BY <1>7, <1>8, <1>11
<1> HIDE DEF qos
<1>13. \A k \in 1 .. n + 1 :
          more[k] = PageMatrix(s, qos[k]) /\ Depth(s, qos[k], i + 1) = (n + 1) - k
    <2> TAKE k \in 1 .. n + 1
    <2>1. CASE k = n + 1
        BY <1>1, <1>3, <1>9, <1>11, <2>1
    <2>2. CASE k \in 1 .. n
        BY <1>2, <1>3, <1>7, <1>10, <2>2
    <2> QED BY <1>11, <2>1, <2>2
<1>14. \A a \in Open(s, i + 1) : \E k \in 1 .. n + 1 : qos[k] = a
    BY <1>2, <1>8, <1>10, <1>11
<1>15. StackInv(s, i + 1, more)
    BY <1>3, <1>12, <1>13, <1>14 DEF StackInv
<1> QED BY <1>5, <1>15 DEF more, Closes

\* A Q closes the last one, and its matrix is the one that was in force there.
LEMMA StackPop ==
    ASSUME NEW s, NEW i \in Nat \ {0}, NEW stack \in Seq(Matrices), StackInv(s, i, stack),
           Is(s, i, "Q"), stack # <<>>
    PROVE  /\ StackInv(s, i + 1, Front(stack))
           /\ \E a \in 1 .. i - 1 : Closes(s, a, i) /\ Last(stack) = PageMatrix(s, a)
<1> DEFINE n == Len(stack)
           less == Front(stack)
<1>1. n \in Nat /\ n # 0 /\ n \in 1 .. n /\ n - 1 \in Nat
    BY EmptySeq, LenProperties
<1>2. PICK pos \in [1 .. n -> Open(s, i)] :
          /\ \A k \in 1 .. n :
                stack[k] = PageMatrix(s, pos[k]) /\ Depth(s, pos[k], i) = n - k
          /\ \A a \in Open(s, i) : \E k \in 1 .. n : pos[k] = a
    BY DEF StackInv
<1>3. Last(stack) = stack[n]
    BY DEF Last
<1>4. Len(less) = n - 1 /\ \A k \in 1 .. n - 1 : less[k] = stack[k]
    <2>1. less = SubSeq(stack, 1, n - 1)
        BY DEF Front
    <2>2. stack \in Seq(Matrices) /\ 1 \in 1 .. n + 1 /\ n - 1 \in 1 - 1 .. n
        BY <1>1
    <2>3. (IF 1 <= n - 1 THEN (n - 1) - 1 + 1 ELSE 0) = n - 1
        <3>1. \A m \in Nat \ {0} : (IF 1 <= m - 1 THEN (m - 1) - 1 + 1 ELSE 0) = m - 1
            OBVIOUS
        <3> HIDE DEF n
        <3> QED BY <1>1, <3>1
    <2>4. Len(less) = n - 1 /\ \A k \in 1 .. n - 1 : less[k] = stack[1 + k - 1]
        BY <2>1, <2>2, <2>3, SubSeqProperties
    <2>5. \A k \in 1 .. n - 1 : 1 + k - 1 = k
        BY <1>1
    <2> QED BY <2>4, <2>5
<1> HIDE DEF n, less
<1>5. ~ Is(s, i, "q")
    BY DEF Is
<1>6. \A a \in Open(s, i) : Depth(s, a, i + 1) = Depth(s, a, i) - 1
    <2> TAKE a \in Open(s, i)
    <2>1. a \in 1 .. i - 1 /\ Depth(s, a, i) \in Int
        BY OpenType
    <2>2. Depth(s, a, i + 1) = Depth(s, a, i) + 0 - 1
        BY <1>5, <2>1, DepthNext
    <2> QED BY <2>1, <2>2
<1>7. \A k \in 1 .. n : pos[k] \in Open(s, i) /\ Depth(s, pos[k], i + 1) = (n - 1) - k
    BY <1>1, <1>2, <1>6
<1>8. \A k \in 1 .. n - 1 : k \in 1 .. n /\ (n - 1) - k >= 0
    BY <1>1
<1>9. Open(s, i + 1) = {a \in Open(s, i) : Depth(s, a, i + 1) >= 0}
    BY <1>5, OpenNext
<1>10. \A k \in 1 .. n - 1 : pos[k] \in Open(s, i + 1)
    BY <1>7, <1>8, <1>9
<1>11. \A a \in Open(s, i + 1) : \E k \in 1 .. n - 1 : pos[k] = a
    <2> TAKE a \in Open(s, i + 1)
    <2>1. a \in Open(s, i) /\ Depth(s, a, i + 1) >= 0
        BY <1>9
    <2>2. PICK k \in 1 .. n : pos[k] = a
        BY <1>2, <2>1
    <2>3. (n - 1) - k >= 0
        BY <1>7, <2>1, <2>2
    <2>4. k \in 1 .. n - 1
        BY <1>1, <2>2, <2>3
    <2> QED BY <2>2, <2>4
<1> DEFINE qos == [k \in 1 .. n - 1 |-> pos[k]]
<1>12. qos \in [1 .. n - 1 -> Open(s, i + 1)] /\ \A k \in 1 .. n - 1 : qos[k] = pos[k]
    BY <1>10
<1> HIDE DEF qos
<1>13. \A k \in 1 .. n - 1 :
          less[k] = PageMatrix(s, qos[k]) /\ Depth(s, qos[k], i + 1) = (n - 1) - k
    BY <1>2, <1>4, <1>7, <1>8, <1>12
<1>14. \A a \in Open(s, i + 1) : \E k \in 1 .. n - 1 : qos[k] = a
    BY <1>11, <1>12
<1>15. StackInv(s, i + 1, less)
    <2>1. qos \in [1 .. Len(less) -> Open(s, i + 1)]
        BY <1>4, <1>12
    <2>2. \A k \in 1 .. Len(less) :
              less[k] = PageMatrix(s, qos[k]) /\ Depth(s, qos[k], i + 1) = Len(less) - k
        BY <1>4, <1>13
    <2>3. \A a \in Open(s, i + 1) : \E k \in 1 .. Len(less) : qos[k] = a
        BY <1>4, <1>14
    <2> QED BY <2>1, <2>2, <2>3 DEF StackInv
<1>16. Closes(s, pos[n], i) /\ Last(stack) = PageMatrix(s, pos[n]) /\ pos[n] \in 1 .. i - 1
    <2>1. pos[n] \in Open(s, i) /\ stack[n] = PageMatrix(s, pos[n]) /\ Depth(s, pos[n], i) = n - n
        BY <1>1, <1>2
    <2>2. pos[n] \in 1 .. i - 1 /\ n - n = 0
        BY <1>1, <2>1, OpenType
    <2>3. Closes(s, pos[n], i)
        BY <2>1, <2>2, ClosesOpen
    <2> QED BY <1>3, <2>1, <2>2, <2>3
<1> QED BY <1>15, <1>16 DEF less

\* A Q too many closes nothing.
LEMMA StackEmpty ==
    ASSUME NEW s, NEW i \in Nat \ {0}, StackInv(s, i, <<>>), Is(s, i, "Q")
    PROVE  StackInv(s, i + 1, <<>>) /\ \A a \in 1 .. i - 1 : ~ Closes(s, a, i)
<1>1. Len(<<>>) = 0 /\ 1 .. 0 = {}
    OBVIOUS
<1>2. Open(s, i) = {}
    BY <1>1 DEF StackInv
<1>3. ~ Is(s, i, "q")
    BY DEF Is
<1>4. Open(s, i + 1) = {}
    BY <1>2, <1>3, OpenNext
<1> DEFINE pos == [k \in 1 .. 0 |-> 0]
<1>5. pos \in [1 .. Len(<<>>) -> Open(s, i + 1)]
    BY <1>1
<1>6. StackInv(s, i + 1, <<>>)
    BY <1>1, <1>4, <1>5 DEF StackInv
<1>7. \A a \in 1 .. i - 1 : ~ Closes(s, a, i)
    BY <1>2, ClosesOpen
<1> QED BY <1>6, <1>7
-----------------------------------------------------------------------------
(* The state of the interpreter is the one that the operators read so far   *)
(* make: st is the stack, c and t the matrices of the page and of the text, *)
(* before operator i of s.                                                  *)

ReadingAt(s, i, c, t, st) ==
    /\ s \in Streams /\ i \in 1 .. Len(s) + 1
    /\ c = PageMatrix(s, i) /\ t = TextPlace(s, i)
    /\ st \in Seq(Matrices) /\ StackInv(s, i, st)

LEMMA Arities ==
    /\ Arity["cm"] = 6 /\ Arity["Tm"] = 6 /\ Arity["Td"] = 2 /\ Arity["TD"] = 2
    /\ Arity["Tj"] = 1 /\ Arity["TJ"] = 1 /\ Arity["'"] = 1 /\ Arity["\""] = 3
BY DEF Arity, Numeric

LEMMA ReadingTypes ==
    ASSUME NEW s, NEW i, NEW c, NEW t, NEW st, ReadingAt(s, i, c, t, st)
    PROVE  c \in Matrices /\ t \in Matrices /\ st \in Seq(Matrices)
BY PageMatrixType, TextPlaceType DEF ReadingAt

\* Every stream starts from the page's own matrix.
LEMMA ReadingStarts ==
    ASSUME NEW s \in Streams
    PROVE  ReadingAt(s, 1, identMat, identMat, <<>>)
<1>1. 1 \in 1 .. Len(s) + 1
    BY DEF Streams
<1>2. <<>> \in Seq(Matrices)
    OBVIOUS
<1> QED BY <1>1, <1>2, PageMatrixFirst, TextPlaceFirst, StackFirst DEF ReadingAt

\* What ReadingAt says of an operator that is there.
LEMMA ReadingPlace ==
    ASSUME NEW s, NEW i, NEW c, NEW t, NEW st, ReadingAt(s, i, c, t, st), i =< Len(s)
    PROVE  /\ s \in Streams /\ i \in 1 .. Len(s) /\ i \in Nat \ {0} /\ i + 1 \in 1 .. Len(s) + 1
           /\ c = PageMatrix(s, i) /\ t = TextPlace(s, i)
           /\ c \in Matrices /\ t \in Matrices
           /\ st \in Seq(Matrices) /\ StackInv(s, i, st)
<1>1. s \in Streams /\ i \in 1 .. Len(s) + 1 /\ Len(s) \in Nat
    BY DEF ReadingAt, Streams
<1>2. i \in 1 .. Len(s) /\ i \in Nat \ {0} /\ i + 1 \in 1 .. Len(s) + 1
    BY <1>1
<1> QED BY <1>1, <1>2, ReadingTypes DEF ReadingAt

\* What neither starts a text nor moves the line leaves the text's matrix alone.
LEMMA TextPlaceStays ==
    ASSUME NEW s \in Streams, NEW i \in 1 .. Len(s),
           ~ Starts(s, i), ~ Moves(s, i), ~ Feeds(s, i)
    PROVE  TextPlace(s, i + 1) = TextPlace(s, i)
<1>1. Step(s, i, 1) = 0 /\ Step(s, i, 2) = 0
    BY DEF Step
<1>2. TextPlace(s, i) \in Matrices
    <2>1. i \in 1 .. Len(s) + 1
        BY DEF Streams
    <2> QED BY <2>1, TextPlaceType
<1> QED BY <1>1, <1>2, TextPlaceNext, NoShift

\* q saves the matrix.
LEMMA ReadingSave ==
    ASSUME NEW s, NEW i, NEW c, NEW t, NEW st, ReadingAt(s, i, c, t, st), i =< Len(s),
           Is(s, i, "q")
    PROVE  ReadingAt(s, i + 1, c, t, Append(st, c))
<1>1. /\ s \in Streams /\ i \in 1 .. Len(s) /\ i \in Nat \ {0} /\ i + 1 \in 1 .. Len(s) + 1
      /\ c = PageMatrix(s, i) /\ t = TextPlace(s, i)
      /\ c \in Matrices /\ st \in Seq(Matrices) /\ StackInv(s, i, st)
    BY ReadingPlace
<1>2. StackInv(s, i + 1, Append(st, c)) /\ \A a \in 1 .. i - 1 : ~ Closes(s, a, i)
    BY <1>1, StackPush
<1>3. PageMatrix(s, i + 1) = c
    BY <1>1, <1>2, PageMatrixNext DEF Good, Is
<1>4. TextPlace(s, i + 1) = t
    BY <1>1, TextPlaceStays DEF Starts, Moves, Feeds, Good, Is
<1>5. Append(st, c) \in Seq(Matrices)
    BY <1>1
<1> QED BY <1>1, <1>2, <1>3, <1>4, <1>5 DEF ReadingAt

\* Q takes the last one off the stack.
LEMMA ReadingRestore ==
    ASSUME NEW s, NEW i, NEW c, NEW t, NEW st, ReadingAt(s, i, c, t, st), i =< Len(s),
           Is(s, i, "Q"), st # <<>>
    PROVE  ReadingAt(s, i + 1, Last(st), t, Front(st))
<1>1. /\ s \in Streams /\ i \in 1 .. Len(s) /\ i \in Nat \ {0} /\ i + 1 \in 1 .. Len(s) + 1
      /\ t = TextPlace(s, i) /\ st \in Seq(Matrices) /\ StackInv(s, i, st)
    BY ReadingPlace
<1>2. /\ StackInv(s, i + 1, Front(st))
      /\ \E a \in 1 .. i - 1 : Closes(s, a, i) /\ Last(st) = PageMatrix(s, a)
    BY <1>1, StackPop
<1>3. PICK a \in 1 .. i - 1 : Closes(s, a, i) /\ Last(st) = PageMatrix(s, a)
    BY <1>2
<1>4. PageMatrix(s, i + 1) = Last(st)
    BY <1>1, <1>3, PageMatrixClosed
<1>5. TextPlace(s, i + 1) = t
    BY <1>1, TextPlaceStays DEF Starts, Moves, Feeds, Good, Is
<1>6. Front(st) \in Seq(Matrices)
    <2>1. Len(st) \in Nat /\ \A k \in 1 .. Len(st) : st[k] \in Matrices
        BY <1>1, ElementOfSeq
    <2>2. 1 \in Int /\ Len(st) - 1 \in Int /\ \A k \in 1 .. Len(st) - 1 : st[k] \in Matrices
        BY <2>1
    <2>3. SubSeq(st, 1, Len(st) - 1) \in Seq(Matrices)
        BY <2>2, SubSeqProperties
    <2> QED BY <2>3 DEF Front
<1> QED BY <1>1, <1>2, <1>4, <1>5, <1>6 DEF ReadingAt

\* A Q too many does nothing.
LEMMA ReadingEmpty ==
    ASSUME NEW s, NEW i, NEW c, NEW t, NEW st, ReadingAt(s, i, c, t, st), i =< Len(s),
           Is(s, i, "Q"), st = <<>>
    PROVE  ReadingAt(s, i + 1, c, t, st)
<1>1. /\ s \in Streams /\ i \in 1 .. Len(s) /\ i \in Nat \ {0} /\ i + 1 \in 1 .. Len(s) + 1
      /\ c = PageMatrix(s, i) /\ t = TextPlace(s, i)
      /\ st \in Seq(Matrices) /\ StackInv(s, i, <<>>)
    BY ReadingPlace
<1>2. StackInv(s, i + 1, <<>>) /\ \A a \in 1 .. i - 1 : ~ Closes(s, a, i)
    BY <1>1, StackEmpty
<1>3. PageMatrix(s, i + 1) = c
    BY <1>1, <1>2, PageMatrixNext DEF Good, Is
<1>4. TextPlace(s, i + 1) = t
    BY <1>1, TextPlaceStays DEF Starts, Moves, Feeds, Good, Is
<1> QED BY <1>1, <1>2, <1>3, <1>4 DEF ReadingAt

\* Any other operator leaves the stack alone, and but for cm the page's matrix.
LEMMA ReadingOn ==
    ASSUME NEW s, NEW i, NEW c, NEW t, NEW st, ReadingAt(s, i, c, t, st), i =< Len(s),
           ~ Is(s, i, "q"), ~ Is(s, i, "Q")
    PROVE  ReadingAt(s, i + 1, IF Good(s, i, "cm") THEN Mul(s[i].nums, c) ELSE c,
                     TextPlace(s, i + 1), st)
<1>1. /\ s \in Streams /\ i \in 1 .. Len(s) /\ i \in Nat \ {0} /\ i + 1 \in 1 .. Len(s) + 1
      /\ c = PageMatrix(s, i) /\ st \in Seq(Matrices) /\ StackInv(s, i, st)
    BY ReadingPlace
<1>2. StackInv(s, i + 1, st) /\ \A a \in 1 .. i - 1 : ~ Closes(s, a, i)
    BY <1>1, StackStays
<1>3. PageMatrix(s, i + 1) = IF Good(s, i, "cm") THEN Mul(s[i].nums, c) ELSE c
    BY <1>1, <1>2, PageMatrixNext
<1> QED BY <1>1, <1>2, <1>3 DEF ReadingAt
-----------------------------------------------------------------------------
(* The invariant.                                                           *)

ReadingInv ==
    form # None =>
        \A s, i, c, t, st :
            s = Stream /\ i = next /\ c = ctm /\ t = tm /\ st = ctmStack =>
                ReadingAt(s, i, c, t, st)

\* Every chunk of cs is where the stream of its own form in forms draws it.
Placed(cs, forms) ==
    \A k \in DOMAIN cs :
        cs[k] = Chunk(cs[k].name, Place(forms[cs[k].name[1]].ops, cs[k].name[2]))

PlacedInv == \A cs, forms : cs = chunks /\ forms = page.forms => Placed(cs, forms)

InterpInv ==
    /\ TypeOK
    /\ \E kind \in Pages : page \in kind
    /\ ReadingInv
    /\ PlacedInv

\* The assumption on the constants, for one page.
LEMMA PageType ==
    ASSUME NEW p, \E kind \in Pages : p \in kind
    PROVE  /\ None \notin DOMAIN p.forms
           /\ p.root \in Seq(DOMAIN p.forms)
           /\ \A f \in DOMAIN p.forms :
                 p.forms[f].nested \in Seq(DOMAIN p.forms) /\ p.forms[f].ops \in Streams
BY PagesAssumption

LEMMA EachType ==
    ASSUME NEW D, NEW forms \in Seq(D), NEW what \in {"enter", "read"}
    PROVE  Each(what, forms) \in Seq({"enter", "read"} \X D)
BY DEF Each

LEMMA InitInterp == Init => InterpInv
<1> SUFFICES ASSUME Init PROVE InterpInv
    OBVIOUS
<1>1. \E kind \in Pages : page \in kind
    BY DEF Init
<1>2. visits \in Seq({"enter", "read"} \X (DOMAIN page.forms))
    BY <1>1, PageType, EachType DEF Init
<1>3. ctm \in Matrices /\ tm \in Matrices /\ tlm = tm
    BY IdentType DEF Init
<1>4. ctmStack \in Seq(Matrices) /\ chunks \in Seq(Records)
    BY DEF Init
<1>5. TypeOK
    BY <1>2, <1>3, <1>4 DEF TypeOK, Init
<1>6. ReadingInv
    BY DEF ReadingInv, Init
<1>7. DOMAIN <<>> = {}
    OBVIOUS
<1>8. PlacedInv
    BY <1>7 DEF PlacedInv, Placed, Init
<1> QED BY <1>1, <1>5, <1>6, <1>8 DEF InterpInv

\* What the invariant says of the operator to be read.
LEMMA Reading ==
    ASSUME InterpInv, form # None, next =< Len(Stream)
    PROVE  /\ ReadingAt(Stream, next, ctm, tm, ctmStack)
           /\ Stream \in Streams /\ next \in 1 .. Len(Stream) /\ next \in Nat
           /\ ctm \in Matrices /\ tm \in Matrices /\ tlm = tm
           /\ form \in DOMAIN page.forms
<1>1. ReadingAt(Stream, next, ctm, tm, ctmStack)
    BY DEF InterpInv, ReadingInv
<1>2. Stream \in Streams /\ next \in 1 .. Len(Stream)
    BY <1>1, ReadingPlace
<1>3. next \in Nat /\ ctm \in Matrices /\ tm \in Matrices /\ tlm = tm /\ form \in DOMAIN page.forms
    BY DEF InterpInv, TypeOK
<1> QED BY <1>1, <1>2, <1>3

\* One operator read.
LEMMA OneOperator ==
    ASSUME InterpInv, form # None, next =< Len(Stream),
           next' = next + 1, UNCHANGED <<page, visits, form, text>>,
           ReadingAt(Stream, next + 1, ctm', tm', ctmStack'), tlm' = tm',
           chunks' \in Seq(Records), PlacedInv'
    PROVE  InterpInv'
<1>1. page' = page /\ visits' = visits /\ form' = form
    OBVIOUS
<1>2. ctm' \in Matrices /\ tm' \in Matrices /\ ctmStack' \in Seq(Matrices)
    BY ReadingTypes
<1>3. next' \in Nat
    BY Reading
<1>4. Records' = Records
    BY <1>1 DEF Records
<1>5. TypeOK'
    BY <1>1, <1>2, <1>3, <1>4 DEF TypeOK, InterpInv
<1>6. Stream' = Stream
    BY <1>1 DEF Stream
<1>7. ReadingInv'
    BY <1>1, <1>6 DEF ReadingInv
<1>8. (\E kind \in Pages : page \in kind)'
    BY <1>1 DEF InterpInv
<1> QED BY <1>5, <1>7, <1>8 DEF InterpInv

\* One that shows nothing.
LEMMA SilentOperator ==
    ASSUME InterpInv, form # None, next =< Len(Stream),
           next' = next + 1, UNCHANGED <<page, visits, form, text>>,
           ReadingAt(Stream, next + 1, ctm', tm', ctmStack'), tlm' = tm', UNCHANGED chunks
    PROVE  InterpInv'
<1>1. chunks' \in Seq(Records)
    BY DEF InterpInv, TypeOK
<1>2. PlacedInv'
    BY DEF PlacedInv, InterpInv
<1> QED BY <1>1, <1>2, OneOperator

\* Chunks that are placed stay so when others are added.
LEMMA PlacedAdded ==
    ASSUME NEW forms, NEW R, NEW cs \in Seq(R), Placed(cs, forms),
           NEW new \in Seq(R), Placed(new, forms)
    PROVE  cs \o new \in Seq(R) /\ Placed(cs \o new, forms)
<1> DEFINE all == cs \o new
<1>1. /\ all \in Seq(R) /\ Len(all) = Len(cs) + Len(new)
      /\ \A k \in 1 .. Len(cs) + Len(new) :
            all[k] = IF k <= Len(cs) THEN cs[k] ELSE new[k - Len(cs)]
    BY ConcatProperties
<1>2. /\ Len(cs) \in Nat /\ DOMAIN cs = 1 .. Len(cs)
      /\ Len(new) \in Nat /\ DOMAIN new = 1 .. Len(new)
    OBVIOUS
<1>3. DOMAIN all = 1 .. Len(cs) + Len(new)
    BY <1>1
<1> HIDE DEF all
<1>4. ASSUME NEW k \in DOMAIN all
      PROVE  all[k] = Chunk(all[k].name, Place(forms[all[k].name[1]].ops, all[k].name[2]))
    <2>1. CASE k \in 1 .. Len(cs)
        BY <1>1, <1>2, <1>3, <2>1 DEF Placed
    <2>2. CASE k \notin 1 .. Len(cs)
        <3>1. k - Len(cs) \in 1 .. Len(new) /\ ~ (k <= Len(cs))
            BY <1>2, <1>3, <2>2
        <3> QED BY <1>1, <1>2, <1>3, <3>1 DEF Placed
    <2> QED BY <2>1, <2>2
<1>5. Placed(all, forms)
    BY <1>4 DEF Placed
<1> QED BY <1>1, <1>5 DEF all
\* An operator that shows text draws it where the text's matrix, as it leaves
\* it, and the page's matrix put it.
LEMMA TextOperator ==
    ASSUME InterpInv, form # None, next =< Len(Stream),
           next' = next + 1, UNCHANGED <<page, visits, form, text>>,
           ctm' = ctm, ctmStack' = ctmStack, tlm' = tm',
           ~ Is(Stream, next, "q"), ~ Is(Stream, next, "Q"), ~ Good(Stream, next, "cm"),
           ~ Starts(Stream, next), tm' = TextPlace(Stream, next + 1),
           Add(Stream[next].strs, tm')
    PROVE  InterpInv'
<1> DEFINE s == Stream
           strs == Stream[next].strs
           n == Shown(strs)
           m == Mul(tm', ctm)
           new == [k \in 1 .. n |-> Chunk(<<form, next, k>>, m)]
<1>1. /\ ReadingAt(s, next, ctm, tm, ctmStack)
      /\ s \in Streams /\ next \in 1 .. Len(s) /\ next \in Nat
      /\ ctm \in Matrices /\ form \in DOMAIN page.forms
    BY Reading
<1>2. ReadingAt(s, next + 1, ctm', tm', ctmStack')
    BY <1>1, ReadingOn
<1>3. tm' \in Matrices
    BY <1>2, ReadingTypes
<1>4. m \in Matrices
    BY <1>1, <1>3, MulType
<1>5. n \in Nat
    <2>1. strs \in Seq(STRING)
        BY <1>1, NumbersOf
    <2>2. Len(strs) \in Nat /\ DOMAIN strs = 1 .. Len(strs)
        BY <2>1
    <2> HIDE DEF strs
    <2>5. IsFiniteSet(1 .. Len(strs))
        BY <2>2, FS_Interval
    <2>3. {i \in DOMAIN strs : IsText(strs[i])} \subseteq 1 .. Len(strs)
        BY <2>2
    <2>4. IsFiniteSet({i \in DOMAIN strs : IsText(strs[i])})
        BY <2>3, <2>5, FS_Subset
    <2> QED BY <2>4, FS_CardinalityType DEF strs, Shown
<1>6. m = Place(page.forms[form].ops, next)
    <2>1. ctm = PageMatrix(s, next)
        BY <1>1 DEF ReadingAt
    <2>2. Place(s, next) = Mul(TextPlace(s, next + 1), PageMatrix(s, next))
        BY <1>1, PlaceOfText
    <2> QED BY <2>1, <2>2 DEF Stream
<1>7. chunks \in Seq(Records) /\ Placed(chunks, page.forms)
    BY DEF InterpInv, TypeOK, PlacedInv
<1>8. chunks' = chunks \o new
    BY DEF Add
<1> HIDE DEF s, n, m
<1>9. \A k \in 1 .. n : new[k] = [name |-> <<form, next, k>>, x |-> m[5], y |-> m[6]]
    BY DEF Chunk
<1>10. new \in Seq(Records) /\ DOMAIN new = 1 .. n
    <2>1. m[5] \in Int /\ m[6] \in Int
        BY <1>4, Entries
    <2>2. ASSUME NEW k \in 1 .. n PROVE new[k] \in Records
        <3>1. <<form, next, k>> \in (DOMAIN page.forms) \X Nat \X Nat
            BY <1>1
        <3>2. [name |-> <<form, next, k>>, x |-> m[5], y |-> m[6]] \in Records
            BY <2>1, <3>1 DEF Records
        <3> HIDE DEF new
        <3> QED BY <1>9, <3>2
    <2> QED BY <1>5, <2>2
<1>11. Placed(chunks \o new, page.forms) /\ chunks \o new \in Seq(Records)
    <2>1. \A k \in 1 .. n :
              new[k] = Chunk(new[k].name, Place(page.forms[new[k].name[1]].ops, new[k].name[2]))
        BY <1>6, <1>9 DEF Chunk
    <2> HIDE DEF new
    <2>2. Placed(new, page.forms)
        BY <1>10, <2>1 DEF Placed
    <2> QED BY <1>7, <1>10, <2>2, PlacedAdded
<1>12. chunks' \in Seq(Records) /\ Placed(chunks', page.forms)
    BY <1>8, <1>11
<1>13. PlacedInv'
    BY <1>12 DEF PlacedInv
<1> QED BY <1>2, <1>12, <1>13, OneOperator DEF s

\* An operator is of the kinds of its name only.
LEMMA Kinds ==
    ASSUME NEW s, NEW i
    PROVE  /\ s[i].op # "q" => ~ Is(s, i, "q")
           /\ s[i].op # "Q" => ~ Is(s, i, "Q")
           /\ s[i].op # "cm" => ~ Good(s, i, "cm")
           /\ s[i].op # "BT" /\ s[i].op # "Tm" => ~ Starts(s, i)
           /\ s[i].op # "Td" /\ s[i].op # "TD" => ~ Moves(s, i)
           /\ s[i].op # "T*" /\ s[i].op # "'" /\ s[i].op # "\"" => ~ Feeds(s, i)
BY DEF Starts, Moves, Feeds, Good, Is

\* Each operator of the stream keeps the invariant.
LEMMA OperatorKeeps ==
    ASSUME InterpInv,
           \/ Save \/ Restore \/ Concat \/ BeginText \/ SetMatrix
           \/ Move \/ NextLine \/ Show \/ ShowOnNextLine \/ Skip
    PROVE  InterpInv'
<1>1. /\ form # None /\ next =< Len(Stream)
      /\ next' = next + 1 /\ UNCHANGED <<page, visits, form, text>>
    BY DEF Save, Restore, Concat, BeginText, SetMatrix, Move, NextLine, Show, ShowOnNextLine,
           Skip, Reads, ReadsWith
<1> DEFINE s == Stream
           ReadsOn == ReadingAt(s, next + 1, ctm', tm', ctmStack')
<1>2. /\ ReadingAt(s, next, ctm, tm, ctmStack)
      /\ s \in Streams /\ next \in 1 .. Len(s) /\ next \in Nat
      /\ ctm \in Matrices /\ tm \in Matrices /\ tlm = tm
    BY <1>1, Reading
<1>3. ASSUME ReadsOn, tlm' = tm', UNCHANGED chunks PROVE InterpInv'
    BY <1>1, <1>3, SilentOperator
<1>4. tm = TextPlace(s, next)
    BY <1>2 DEF ReadingAt
<1>20. Now.op = s[next].op
    BY DEF Now
<1>5. \A op : Is(s, next, op) <=> Now.op = op
    BY DEF Is, Now
<1>6. \A op : Good(s, next, op) <=> Now.op = op /\ Now.n = Arity[op]
    BY DEF Good, Is, Now
\* A step that only moves the line.
<1>7. ASSUME ~ Starts(s, next), Step(s, next, 1) \in Int, Step(s, next, 2) \in Int
      PROVE  TextPlace(s, next + 1) = Mul(Shift(Step(s, next, 1), Step(s, next, 2)), tm)
    BY <1>2, <1>4, <1>7, TextPlaceNext
<1>8. ASSUME ~ Starts(s, next), ~ Moves(s, next), ~ Feeds(s, next)
      PROVE  TextPlace(s, next + 1) = tm
    BY <1>2, <1>4, <1>8, TextPlaceStays
<1> HIDE DEF s
<1>9. CASE Save
    <2>1. Now.op = "q" /\ ctmStack' = Append(ctmStack, ctm) /\ UNCHANGED <<ctm, tm, tlm, chunks>>
        BY <1>9 DEF Save, Reads
    <2>2. ReadingAt(s, next + 1, ctm, tm, Append(ctmStack, ctm))
        BY <1>1, <1>2, <1>5, <2>1, ReadingSave DEF s
    <2> QED BY <1>2, <1>3, <2>1, <2>2
<1>10. CASE Restore
    <2>1. /\ Now.op = "Q" /\ ctmStack # <<>>
          /\ ctm' = Last(ctmStack) /\ ctmStack' = Front(ctmStack) /\ UNCHANGED <<tm, tlm, chunks>>
        BY <1>10 DEF Restore, Reads
    <2>2. ReadingAt(s, next + 1, Last(ctmStack), tm, Front(ctmStack))
        BY <1>1, <1>2, <1>5, <2>1, ReadingRestore DEF s
    <2> QED BY <1>2, <1>3, <2>1, <2>2
<1>11. CASE Concat
    <2>1. /\ Now.op = "cm" /\ Now.n = 6
          /\ ctm' = Mul(Now.nums, ctm) /\ UNCHANGED <<ctmStack, tm, tlm, chunks>>
        BY <1>11 DEF Concat, ReadsWith, Reads
    <2>2. Good(s, next, "cm")
        BY <1>6, <2>1, Arities
    <2>3. TextPlace(s, next + 1) = tm
        <3>1. ~ Starts(s, next) /\ ~ Moves(s, next) /\ ~ Feeds(s, next)
            BY <1>20, <2>1, Kinds
        <3> QED BY <1>8, <3>1
    <2>4. ReadingAt(s, next + 1, Mul(s[next].nums, ctm), TextPlace(s, next + 1), ctmStack)
        BY <1>1, <1>2, <1>5, <2>1, <2>2, ReadingOn DEF s
    <2> QED BY <1>2, <1>3, <2>1, <2>3, <2>4 DEF Now, s
<1>12. CASE BeginText
    <2>1. Now.op = "BT" /\ tm' = identMat /\ tlm' = identMat /\ UNCHANGED <<ctm, ctmStack, chunks>>
        BY <1>12 DEF BeginText, Reads
    <2>2. Is(s, next, "BT") /\ ~ Is(s, next, "Tm") /\ ~ Good(s, next, "cm")
          /\ ~ Is(s, next, "q") /\ ~ Is(s, next, "Q")
        BY <1>5, <1>6, <2>1
    <2>3. TextPlace(s, next + 1) = identMat
        BY <1>2, <2>2, TextPlaceStarts DEF Starts
    <2>4. ReadingAt(s, next + 1, ctm, TextPlace(s, next + 1), ctmStack)
        BY <1>1, <1>2, <2>2, ReadingOn DEF s
    <2> QED BY <1>3, <2>1, <2>3, <2>4
<1>13. CASE SetMatrix
    <2>1. /\ Now.op = "Tm" /\ Now.n = 6
          /\ tm' = Now.nums /\ tlm' = Now.nums /\ UNCHANGED <<ctm, ctmStack, chunks>>
        BY <1>13 DEF SetMatrix, ReadsWith, Reads
    <2>5. Is(s, next, "Tm") /\ Good(s, next, "Tm")
        BY <1>5, <1>6, <2>1, Arities
    <2>2. ~ Good(s, next, "cm") /\ ~ Is(s, next, "q") /\ ~ Is(s, next, "Q")
        BY <1>20, <2>1, Kinds
    <2>3. TextPlace(s, next + 1) = Now.nums
        BY <1>2, <2>5, TextPlaceStarts DEF Starts, Now, s
    <2>4. ReadingAt(s, next + 1, ctm, TextPlace(s, next + 1), ctmStack)
        BY <1>1, <1>2, <2>2, ReadingOn DEF s
    <2> QED BY <1>3, <2>1, <2>3, <2>4
<1>14. CASE Move
    <2>1. /\ Now.op \in {"Td", "TD"} /\ Now.n = 2
          /\ tlm' = Mul(Shift(Now.nums[1], Now.nums[2]), tlm) /\ tm' = tlm'
          /\ UNCHANGED <<ctm, ctmStack, chunks>>
        BY <1>14 DEF Move, ReadsWith, Reads, MoveLine
    <2>7. Moves(s, next)
        BY <1>6, <2>1, Arities DEF Moves
    <2>2. ~ Starts(s, next) /\ ~ Good(s, next, "cm") /\ ~ Is(s, next, "q") /\ ~ Is(s, next, "Q")
        BY <1>20, <2>1, Kinds
    <2>3. Step(s, next, 1) = Now.nums[1] /\ Step(s, next, 2) = Now.nums[2]
        BY <2>7 DEF Step, Now, s
    <2>4. Now.nums[1] \in Int /\ Now.nums[2] \in Int
        BY <1>2, <2>7, NumbersOf DEF Now, s
    <2>5. TextPlace(s, next + 1) = Mul(Shift(Now.nums[1], Now.nums[2]), tm)
        BY <1>7, <2>2, <2>3, <2>4
    <2>6. ReadingAt(s, next + 1, ctm, TextPlace(s, next + 1), ctmStack)
        BY <1>1, <1>2, <2>2, ReadingOn DEF s
    <2> QED BY <1>2, <1>3, <2>1, <2>5, <2>6
\* T*, ' and ".
<1>15. ASSUME Feeds(s, next)
       PROVE  TextPlace(s, next + 1) = Mul(Shift(0, - Leading), tm)
    <2>1. Now.op \in {"T*", "'", "\""}
        BY <1>5, <1>6, <1>15 DEF Feeds
    <2>2. ~ Moves(s, next) /\ ~ Starts(s, next)
        BY <1>20, <2>1, Kinds
    <2>3. Step(s, next, 1) = 0 /\ Step(s, next, 2) = - Leading /\ - Leading \in Int /\ 0 \in Int
        BY <1>15, <2>2 DEF Step, Leading
    <2> QED BY <1>7, <2>2, <2>3
<1>16. CASE NextLine
    <2>1. /\ Now.op = "T*"
          /\ tlm' = Mul(Shift(0, - Leading), tlm) /\ tm' = tlm'
          /\ UNCHANGED <<ctm, ctmStack, chunks>>
        BY <1>16 DEF NextLine, Reads, MoveLine
    <2>5. Feeds(s, next)
        BY <1>5, <2>1 DEF Feeds
    <2>2. ~ Good(s, next, "cm") /\ ~ Is(s, next, "q") /\ ~ Is(s, next, "Q")
        BY <1>20, <2>1, Kinds
    <2>3. TextPlace(s, next + 1) = Mul(Shift(0, - Leading), tm)
        BY <1>15, <2>5
    <2>4. ReadingAt(s, next + 1, ctm, TextPlace(s, next + 1), ctmStack)
        BY <1>1, <1>2, <2>2, ReadingOn DEF s
    <2> QED BY <1>2, <1>3, <2>1, <2>3, <2>4
<1>17. CASE Show
    <2>1. /\ Now.op \in {"Tj", "TJ"} /\ Add(Now.strs, tm)
          /\ UNCHANGED <<ctm, ctmStack, tm, tlm>>
        BY <1>17 DEF Show, ReadsWith, Reads, matrices
    <2>2. /\ ~ Good(s, next, "cm") /\ ~ Is(s, next, "q") /\ ~ Is(s, next, "Q")
          /\ ~ Moves(s, next) /\ ~ Starts(s, next) /\ ~ Feeds(s, next)
        BY <1>20, <2>1, Kinds
    <2>3. TextPlace(s, next + 1) = tm
        BY <1>8, <2>2
    <2>4. Add(Stream[next].strs, tm')
        BY <2>1 DEF Now
    <2>5. tm' = TextPlace(s, next + 1) /\ tlm' = tm'
        BY <1>2, <2>1, <2>3
    <2> QED BY <1>1, <2>1, <2>2, <2>4, <2>5, TextOperator DEF s
<1>18. CASE ShowOnNextLine
    <2>1. /\ \/ Now.op = "'" /\ Now.n = 1
             \/ Now.op = "\"" /\ Now.n = 3
          /\ tlm' = Mul(Shift(0, - Leading), tlm) /\ tm' = tlm'
          /\ UNCHANGED <<ctm, ctmStack>>
          /\ Add(Now.strs, tm')
        BY <1>18 DEF ShowOnNextLine, ReadsWith, Reads, MoveLine
    <2>2. /\ ~ Good(s, next, "cm") /\ ~ Is(s, next, "q") /\ ~ Is(s, next, "Q")
          /\ ~ Starts(s, next)
        BY <1>20, <2>1, Kinds
    <2>3. Feeds(s, next)
        BY <1>6, <2>1, Arities DEF Feeds
    <2>4. tm' = TextPlace(s, next + 1) /\ tlm' = tm'
        BY <1>2, <1>15, <2>1, <2>3
    <2>5. Add(Stream[next].strs, tm')
        BY <2>1 DEF Now
    <2> QED BY <1>1, <2>1, <2>2, <2>4, <2>5, TextOperator DEF s
<1>19. CASE Skip
    <2>1. /\ \/ Now.op \notin Known
             \/ Now.op \in DOMAIN Arity /\ Now.n # Arity[Now.op]
             \/ Now.op = "Q" /\ ctmStack = <<>>
          /\ UNCHANGED <<ctm, ctmStack, tm, tlm, chunks>>
        BY <1>19 DEF Skip, matrices
    <2>2. CASE Now.op = "Q" /\ ctmStack = <<>>
        <3>1. ReadingAt(s, next + 1, ctm, tm, ctmStack)
            BY <1>1, <1>2, <1>5, <2>2, ReadingEmpty DEF s
        <3> QED BY <1>2, <1>3, <2>1, <3>1
    <2>3. CASE ~ (Now.op = "Q" /\ ctmStack = <<>>)
        <3>1. /\ DOMAIN Arity = {"cm", "Tm", "Td", "TD", "Tj", "TJ", "'", "\""}
              /\ Known = DOMAIN Arity \cup {"q", "Q", "BT", "T*"}
            BY DEF Arity, Known, Numeric
        <3>2. Now.op \notin {"q", "Q", "BT", "T*"}
            BY <2>1, <2>3, <3>1
        <3>3. \A op \in DOMAIN Arity : ~ Good(s, next, op)
            BY <1>6, <2>1, <2>3, <3>1
        <3>4. /\ ~ Good(s, next, "cm") /\ ~ Is(s, next, "q") /\ ~ Is(s, next, "Q")
              /\ ~ Moves(s, next) /\ ~ Starts(s, next) /\ ~ Feeds(s, next)
            BY <1>5, <3>1, <3>2, <3>3 DEF Moves, Starts, Feeds
        <3>5. ReadingAt(s, next + 1, ctm, TextPlace(s, next + 1), ctmStack)
            BY <1>1, <1>2, <3>4, ReadingOn DEF s
        <3>6. TextPlace(s, next + 1) = tm
            BY <1>8, <3>4
        <3> QED BY <1>2, <1>3, <2>1, <3>5, <3>6
    <2> QED BY <2>2, <2>3
<1> QED BY <1>9, <1>10, <1>11, <1>12, <1>13, <1>14, <1>16, <1>17, <1>18, <1>19
-----------------------------------------------------------------------------
(* The visit of the forms.                                                  *)

\* Going from form to form keeps the invariant.
LEMMA VisitKeeps ==
    ASSUME InterpInv, TakePlainText \/ EnterForm \/ ReadForm \/ EndForm \/ Finish
    PROVE  InterpInv'
<1>1. page' = page /\ (\E kind \in Pages : page \in kind) /\ (\E kind \in Pages : page \in kind)'
    <2>1. page' = page
        BY DEF TakePlainText, EnterForm, ReadForm, EndForm, Finish
    <2> QED BY <2>1 DEF InterpInv
<1>2. chunks' = chunks /\ Records' = Records
    BY <1>1 DEF TakePlainText, EnterForm, ReadForm, EndForm, Finish, Records
<1>3. PlacedInv'
    BY <1>1, <1>2 DEF PlacedInv, InterpInv
<1>4. /\ visits \in Seq({"enter", "read"} \X (DOMAIN page.forms))
      /\ form \in DOMAIN page.forms \cup {None} /\ next \in Nat
      /\ ctm \in Matrices /\ tm \in Matrices /\ tlm = tm
      /\ ctmStack \in Seq(Matrices) /\ chunks \in Seq(Records)
    BY DEF InterpInv, TypeOK
\* The matrices are not read between forms.
<1>5. ASSUME form' = None, visits' \in Seq({"enter", "read"} \X (DOMAIN page.forms)),
             UNCHANGED <<next, matrices>>
      PROVE  InterpInv'
    <2>1. TypeOK'
        BY <1>1, <1>2, <1>4, <1>5 DEF TypeOK, matrices
    <2>2. ReadingInv'
        BY <1>5 DEF ReadingInv
    <2> QED BY <1>1, <1>3, <2>1, <2>2 DEF InterpInv
\* A form that is still to visit is one of the page's.
<1>6. ASSUME NEW what, Visiting(what)
      PROVE  /\ Head(visits)[2] \in DOMAIN page.forms
             /\ Tail(visits) \in Seq({"enter", "read"} \X (DOMAIN page.forms))
             /\ form = None
    <2>1. visits # <<>> /\ form = None
        BY <1>6 DEF Visiting, Between
    <2>2. Head(visits) \in {"enter", "read"} \X (DOMAIN page.forms)
        BY <1>4, <2>1, HeadTailProperties
    <2>3. Tail(visits) \in Seq({"enter", "read"} \X (DOMAIN page.forms))
        BY <1>4, <2>1, HeadTailProperties
    <2> QED BY <2>1, <2>2, <2>3
<1>7. CASE TakePlainText
    BY <1>4, <1>5, <1>7 DEF TakePlainText, Between
<1>8. CASE EnterForm
    <2> DEFINE f == Head(visits)[2]
               V == {"enter", "read"} \X (DOMAIN page.forms)
               nested == Each("enter", page.forms[f].nested)
    <2>1. /\ form' = None /\ UNCHANGED <<next, matrices>>
          /\ visits' = nested \o <<<<"read", f>>>> \o Tail(visits)
        BY <1>6, <1>8 DEF EnterForm
    <2>2. f \in DOMAIN page.forms /\ Tail(visits) \in Seq(V)
        BY <1>6, <1>8 DEF EnterForm
    <2>3. nested \in Seq(V)
        BY <1>1, <2>2, PageType, EachType
    <2>4. <<<<"read", f>>>> \in Seq(V)
        BY <2>2
    <2> HIDE DEF f, V, nested
    <2>5. nested \o <<<<"read", f>>>> \in Seq(V)
        BY <2>3, <2>4, ConcatProperties
    <2>6. visits' \in Seq(V)
        BY <2>1, <2>2, <2>5, ConcatProperties
    <2> QED BY <1>5, <2>1, <2>6 DEF V
<1>9. CASE ReadForm
    <2> DEFINE f == Head(visits)[2]
    <2>1. /\ f \in DOMAIN page.forms
          /\ Tail(visits) \in Seq({"enter", "read"} \X (DOMAIN page.forms))
        BY <1>6, <1>9 DEF ReadForm
    <2>2. /\ form' = f /\ next' = 1 /\ visits' = Tail(visits)
          /\ ctm' = identMat /\ ctmStack' = <<>> /\ tm' = identMat /\ tlm' = identMat
        BY <1>9 DEF ReadForm
    <2>3. <<>> \in Seq(Matrices)
        OBVIOUS
    <2>4. TypeOK'
        BY <1>1, <1>2, <1>4, <2>1, <2>2, <2>3, IdentType DEF TypeOK
    <2>5. page.forms[f].ops \in Streams
        BY <1>1, <2>1, PageType
    <2>6. Stream' = page.forms[f].ops
        BY <1>1, <2>2 DEF Stream
    <2>7. ReadingAt(page.forms[f].ops, 1, identMat, identMat, <<>>)
        BY <2>5, ReadingStarts
    <2>8. ReadingInv'
        BY <2>2, <2>6, <2>7 DEF ReadingInv
    <2> QED BY <1>1, <1>3, <2>4, <2>8 DEF InterpInv
<1>10. CASE EndForm
    BY <1>4, <1>5, <1>10 DEF EndForm
<1>11. CASE Finish
    BY <1>4, <1>5, <1>11 DEF Finish, Between
<1> QED BY <1>7, <1>8, <1>9, <1>10, <1>11

\* So does every step.
LEMMA NextInterp == InterpInv /\ [Next]_vars => InterpInv'
<1> SUFFICES ASSUME InterpInv, [Next]_vars PROVE InterpInv'
    OBVIOUS
<1>1. CASE TakePlainText \/ EnterForm \/ ReadForm \/ EndForm \/ Finish
    BY <1>1, VisitKeeps
<1>2. CASE \/ Save \/ Restore \/ Concat \/ BeginText \/ SetMatrix
           \/ Move \/ NextLine \/ Show \/ ShowOnNextLine \/ Skip
    BY <1>2, OperatorKeeps
<1>3. CASE UNCHANGED vars
    <2>1. /\ page' = page /\ visits' = visits /\ form' = form /\ next' = next
          /\ ctm' = ctm /\ ctmStack' = ctmStack /\ tm' = tm /\ tlm' = tlm
          /\ chunks' = chunks /\ text' = text
        BY <1>3 DEF vars, matrices
    <2>2. TypeOK'
        BY <2>1 DEF TypeOK, Records, InterpInv
    <2>3. ReadingInv'
        BY <2>1 DEF ReadingInv, Stream, InterpInv
    <2>4. PlacedInv'
        BY <2>1 DEF PlacedInv, InterpInv
    <2>5. (\E kind \in Pages : page \in kind)'
        BY <2>1 DEF InterpInv
    <2> QED BY <2>2, <2>3, <2>4, <2>5 DEF InterpInv
<1> QED BY <1>1, <1>2, <1>3 DEF Next

LEMMA InterpShows == InterpInv => TypeOK /\ PlacedWhereDrawn
<1> SUFFICES ASSUME InterpInv PROVE TypeOK /\ PlacedWhereDrawn
    OBVIOUS
<1>1. Placed(chunks, page.forms)
    BY DEF InterpInv, PlacedInv
<1>2. PlacedWhereDrawn
    BY <1>1 DEF Placed, PlacedWhereDrawn
<1> QED BY <1>2 DEF InterpInv

\* For every set of pages, forms nested to any depth and streams of any length:
\* the matrices stay matrices of whole numbers, the stack holds nothing else,
\* and both text matrices are one (pdf.go:154-264).
THEOREM InterpreterTypes == Spec => []TypeOK
<1>1. Init => InterpInv
    BY InitInterp
<1>2. InterpInv /\ [Next]_vars => InterpInv'
    BY NextInterp
<1>3. InterpInv => TypeOK
    BY InterpShows
<1> QED BY <1>1, <1>2, <1>3, PTL DEF Spec

\* Every piece of text is where the stream of its own form draws it: the product
\* of the matrices that no closed q ... Q group took back, with the lines moved
\* since the last BT or Tm. What other forms do, a Q without its q, and operators
\* with a wrong number of operands leave no trace (pdf.go:154-264).
THEOREM TextIsPlacedWhereDrawn == Spec => []PlacedWhereDrawn
<1>1. Init => InterpInv
    BY InitInterp
<1>2. InterpInv /\ [Next]_vars => InterpInv'
    BY NextInterp
<1>3. InterpInv => PlacedWhereDrawn
    BY InterpShows
<1> QED BY <1>1, <1>2, <1>3, PTL DEF Spec
-----------------------------------------------------------------------------
(* Sorting. It moves every chunk to a place of its own, and those that share *)
(* a place on the page keep their order.                                    *)

SamePlace(a, b) == a.x = b.x /\ a.y = b.y

\* p moves the first n of cs to different places up to m.
Stable(p, cs, n, m) ==
    /\ p \in [1 .. n -> 1 .. m]
    /\ \A k, l \in 1 .. n :
          k < l => p[k] # p[l] /\ (SamePlace(cs[k], cs[l]) => p[k] < p[l])

\* s has the first n of cs, and nothing else.
Sorted(cs, n, s) ==
    \E p : /\ Stable(p, cs, n, Len(s))
           /\ \A k \in 1 .. n : s[p[k]] = cs[k]
           /\ \A i \in 1 .. Len(s) : \E k \in 1 .. n : p[k] = i

\* The place after the last one that is not to come later.
LEMMA AfterLast ==
    ASSUME NEW n \in Nat, NEW S, S \subseteq 1 .. n
    PROVE  /\ 1 + Max({0} \cup S) \in 1 .. n + 1
           /\ \A i \in S : i < 1 + Max({0} \cup S)
           /\ Max({0} \cup S) \in {0} \cup S
<1> DEFINE T == {0} \cup S
<1>1. PICK x \in T : \A y \in T : x >= y
    <2>1. CASE S = {}
        BY <2>1
    <2>2. CASE S # {}
        <3>1. PICK z \in S : \A y \in S : z >= y
            BY <2>2, GreatestOfInterval
        <3>2. z >= 0
            OBVIOUS
        <3> QED BY <3>1, <3>2
    <2> QED BY <2>1, <2>2
<1>2. x \in 0 .. n /\ \A y \in T : y \in Nat
    OBVIOUS
<1>3. \A z \in T : (\A y \in T : z >= y) => z = x
    BY <1>1, <1>2
<1>4. Max(T) = x
    <2> HIDE DEF T
    <2> QED BY <1>1, <1>3 DEF Max
<1> QED BY <1>1, <1>2, <1>4

LEMMA Inserted ==
    ASSUME NEW R, NEW s \in Seq(R), NEW at \in 1 .. Len(s) + 1, NEW c \in R
    PROVE  /\ InsertAt(s, at, c) \in Seq(R) /\ Len(InsertAt(s, at, c)) = Len(s) + 1
           /\ InsertAt(s, at, c)[at] = c
           /\ \A i \in 1 .. Len(s) : i < at => InsertAt(s, at, c)[i] = s[i]
           /\ \A i \in 1 .. Len(s) : i >= at => InsertAt(s, at, c)[i + 1] = s[i]
<1> DEFINE n == Len(s)
           a == SubSeq(s, 1, at - 1)
           b == SubSeq(s, at, n)
           ab == a \o <<c>>
           all == ab \o b
<1>1. n \in Nat /\ at \in Int /\ at - 1 \in Int /\ at >= 1 /\ at =< n + 1
    OBVIOUS
<1>2. \A i \in 1 .. n : s[i] \in R
    OBVIOUS
<1>3. a \in Seq(R) /\ Len(a) = at - 1 /\ \A i \in 1 .. at - 1 : a[i] = s[i]
    <2>1. \A i \in 1 .. at - 1 : s[i] \in R
        BY <1>1, <1>2
    <2>2. /\ a \in Seq(R) /\ Len(a) = IF 1 <= at - 1 THEN (at - 1) - 1 + 1 ELSE 0
          /\ \A i \in 1 .. (at - 1) - 1 + 1 : a[i] = s[1 + i - 1]
        BY <1>1, <2>1, SubSeqProperties
    <2> HIDE DEF a, n
    <2>3. (at - 1) - 1 + 1 = at - 1 /\ \A i \in 1 .. at - 1 : 1 + i - 1 = i
        BY <1>1
    <2> QED BY <1>1, <2>2, <2>3
<1>4. b \in Seq(R) /\ Len(b) = n - at + 1 /\ \A i \in 1 .. n - at + 1 : b[i] = s[at + i - 1]
    <2>1. \A i \in at .. n : s[i] \in R
        BY <1>1, <1>2
    <2>2. /\ b \in Seq(R) /\ Len(b) = IF at <= n THEN n - at + 1 ELSE 0
          /\ \A i \in 1 .. n - at + 1 : b[i] = s[at + i - 1]
        BY <1>1, <2>1, SubSeqProperties
    <2> HIDE DEF b, n
    <2> QED BY <1>1, <2>2
<1>5. <<c>> \in Seq(R) /\ Len(<<c>>) = 1 /\ <<c>>[1] = c
    OBVIOUS
<1> HIDE DEF a, b, n
<1>6. /\ ab \in Seq(R) /\ Len(ab) = at
      /\ \A i \in 1 .. at - 1 : ab[i] = s[i]
      /\ ab[at] = c
    <2>1. /\ ab \in Seq(R) /\ Len(ab) = Len(a) + Len(<<c>>)
          /\ \A i \in 1 .. Len(a) + Len(<<c>>) :
                ab[i] = IF i <= Len(a) THEN a[i] ELSE <<c>>[i - Len(a)]
        BY <1>3, <1>5, ConcatProperties
    <2> HIDE DEF ab
    <2>2. (at - 1) + 1 = at /\ at - (at - 1) = 1 /\ at \in 1 .. at /\ ~ (at <= at - 1)
          /\ \A i \in 1 .. at - 1 : i \in 1 .. at /\ i <= at - 1
        BY <1>1
    <2> QED BY <1>3, <1>5, <2>1, <2>2
<1> HIDE DEF ab
<1>7. /\ all \in Seq(R) /\ Len(all) = n + 1
      /\ \A i \in 1 .. n + 1 : all[i] = IF i <= at THEN ab[i] ELSE b[i - at]
    <2>1. /\ all \in Seq(R) /\ Len(all) = Len(ab) + Len(b)
          /\ \A i \in 1 .. Len(ab) + Len(b) :
                all[i] = IF i <= Len(ab) THEN ab[i] ELSE b[i - Len(ab)]
        BY <1>4, <1>6, ConcatProperties
    <2> HIDE DEF all
    <2>2. at + (n - at + 1) = n + 1
        BY <1>1
    <2> QED BY <1>4, <1>6, <2>1, <2>2
<1>8. InsertAt(s, at, c) = all
    BY DEF InsertAt, all, ab, a, b, n
<1> HIDE DEF all
<1>9. all[at] = c
    <2>1. at \in 1 .. n + 1 /\ at <= at
        BY <1>1
    <2> QED BY <1>6, <1>7, <2>1
<1>10. ASSUME NEW i \in 1 .. n, i < at PROVE all[i] = s[i]
    <2>1. i \in 1 .. n + 1 /\ i <= at /\ i \in 1 .. at - 1
        BY <1>1, <1>10
    <2> QED BY <1>6, <1>7, <2>1
<1>11. ASSUME NEW i \in 1 .. n, i >= at PROVE all[i + 1] = s[i]
    <2>1. i + 1 \in 1 .. n + 1 /\ ~ (i + 1 <= at) /\ (i + 1) - at \in 1 .. n - at + 1
          /\ at + ((i + 1) - at) - 1 = i
        BY <1>1, <1>11
    <2> QED BY <1>4, <1>7, <2>1
<1> QED BY <1>7, <1>8, <1>9, <1>10, <1>11 DEF n

\* One more chunk, put after those on its own place.
LEMMA SortedInsert ==
    ASSUME NEW R, NEW cs \in Seq(R), NEW n \in 0 .. Len(cs) - 1, NEW s \in Seq(R),
           Sorted(cs, n, s), NEW at \in 1 .. Len(s) + 1,
           \A i \in 1 .. Len(s) : SamePlace(s[i], cs[n + 1]) => i < at
    PROVE  Sorted(cs, n + 1, InsertAt(s, at, cs[n + 1]))
<1> DEFINE c == cs[n + 1]
           t == InsertAt(s, at, c)
           m == Len(s)
<1>1. c \in R /\ n \in Nat /\ m \in Nat /\ at \in Nat
    <2>1. n + 1 \in 1 .. Len(cs) /\ n \in Nat
        OBVIOUS
    <2> QED BY <2>1, ElementOfSeq
<1>2. /\ Len(t) = m + 1 /\ t[at] = c
      /\ \A i \in 1 .. m : i < at => t[i] = s[i]
      /\ \A i \in 1 .. m : i >= at => t[i + 1] = s[i]
    BY <1>1, Inserted
<1>3. PICK p : /\ Stable(p, cs, n, m)
               /\ \A k \in 1 .. n : s[p[k]] = cs[k]
               /\ \A i \in 1 .. m : \E k \in 1 .. n : p[k] = i
    BY DEF Sorted
<1>4. /\ p \in [1 .. n -> 1 .. m]
      /\ \A k, l \in 1 .. n :
            k < l => p[k] # p[l] /\ (SamePlace(cs[k], cs[l]) => p[k] < p[l])
    BY <1>3 DEF Stable
<1>5. \A i \in 1 .. m : SamePlace(s[i], c) => i < at
    OBVIOUS
<1>6. at \in 1 .. m + 1
    OBVIOUS
<1> HIDE DEF c, t, m
<1> DEFINE q == [k \in 1 .. n + 1 |->
                    IF k = n + 1 THEN at ELSE IF p[k] < at THEN p[k] ELSE p[k] + 1]
<1>7. \A k \in 1 .. n + 1 : k = n + 1 \/ k \in 1 .. n
    BY <1>1
<1>8. \A k \in 1 .. n : k \in 1 .. n + 1 /\ k # n + 1 /\ p[k] \in 1 .. m
    BY <1>1, <1>4
<1>9. q[n + 1] = at
    BY <1>1
<1>10. \A k \in 1 .. n : q[k] = IF p[k] < at THEN p[k] ELSE p[k] + 1
    BY <1>8
<1>11. q \in [1 .. n + 1 -> 1 .. m + 1]
    BY <1>1, <1>6, <1>7, <1>8
<1> HIDE DEF q
<1>12. \A k \in 1 .. n : q[k] # at /\ (p[k] < at => q[k] < at)
    BY <1>1, <1>8, <1>10
<1>13. ASSUME NEW k \in 1 .. n + 1, NEW l \in 1 .. n + 1, k < l
       PROVE  q[k] # q[l] /\ (SamePlace(cs[k], cs[l]) => q[k] < q[l])
    <2>1. k \in 1 .. n
        BY <1>1, <1>7, <1>13
    <2>2. CASE l = n + 1
        <3>1. q[k] # q[l]
            BY <1>9, <1>12, <2>1, <2>2
        <3>2. ASSUME SamePlace(cs[k], cs[l]) PROVE q[k] < q[l]
            <4>1. SamePlace(s[p[k]], c)
                BY <1>3, <2>1, <2>2, <3>2 DEF c
            <4>2. p[k] < at
                BY <1>5, <1>8, <2>1, <4>1
            <4> QED BY <1>9, <1>12, <2>1, <2>2, <4>2
        <3> QED BY <3>1, <3>2
    <2>3. CASE l \in 1 .. n
        <3>1. p[k] \in Nat /\ p[l] \in Nat
            BY <1>8, <2>1, <2>3
        <3>2. p[k] # p[l] => q[k] # q[l]
            BY <1>1, <1>10, <2>1, <2>3, <3>1, SMTT(30)
        <3>3. p[k] < p[l] => q[k] < q[l]
            BY <1>1, <1>10, <2>1, <2>3, <3>1
        <3> QED BY <1>4, <1>13, <2>1, <2>3, <3>2, <3>3
    <2> QED BY <1>7, <2>2, <2>3
<1>14. Stable(q, cs, n + 1, Len(t))
    BY <1>2, <1>11, <1>13 DEF Stable
<1>15. ASSUME NEW k \in 1 .. n + 1 PROVE t[q[k]] = cs[k]
    <2>1. CASE k = n + 1
        BY <1>2, <1>9, <2>1 DEF c
    <2>2. CASE k \in 1 .. n
        <3>1. p[k] \in 1 .. m /\ s[p[k]] = cs[k]
            BY <1>3, <1>8, <2>2
        <3>2. CASE p[k] < at
            BY <1>2, <1>10, <2>2, <3>1, <3>2
        <3>3. CASE ~ (p[k] < at)
            <4>1. p[k] >= at
                BY <1>1, <3>1, <3>3
            <4> QED BY <1>2, <1>10, <2>2, <3>1, <3>3, <4>1
        <3> QED BY <3>2, <3>3
    <2> QED BY <1>7, <2>1, <2>2
<1>16. ASSUME NEW i \in 1 .. m + 1 PROVE \E k \in 1 .. n + 1 : q[k] = i
    <2>1. CASE i = at
        <3>1. n + 1 \in 1 .. n + 1
            BY <1>1
        <3> QED BY <1>9, <2>1, <3>1
    <2>2. CASE i < at
        <3>1. i \in 1 .. m
            BY <1>1, <1>6, <2>2
        <3>2. PICK k \in 1 .. n : p[k] = i
            BY <1>3, <3>1
        <3> QED BY <1>8, <1>10, <2>2, <3>2
    <2>3. CASE i > at
        <3>1. i - 1 \in 1 .. m /\ ~ (i - 1 < at) /\ (i - 1) + 1 = i
            BY <1>1, <1>6, <2>3
        <3>2. PICK k \in 1 .. n : p[k] = i - 1
            BY <1>3, <3>1
        <3> QED BY <1>8, <1>10, <3>1, <3>2
    <2> QED BY <1>1, <2>1, <2>2, <2>3
<1>17. Sorted(cs, n + 1, t)
    BY <1>2, <1>14, <1>15, <1>16 DEF Sorted
<1> QED BY <1>17 DEF t, c

\* Where c goes into s: after the last element that it is not less than.
Slot(L, s, c) == 1 + Max({0} \cup {i \in DOMAIN s : ~ (<<c, s[i]>> \in L)})
Put(L, s, c) == InsertAt(s, Slot(L, s, c), c)

LEMMA SlotType ==
    ASSUME NEW R, NEW L, NEW s \in Seq(R), NEW c \in R
    PROVE  /\ Slot(L, s, c) \in 1 .. Len(s) + 1
           /\ \A i \in 1 .. Len(s) : ~ (<<c, s[i]>> \in L) => i < Slot(L, s, c)
           /\ Slot(L, s, c) = 1 \/ ~ (<<c, s[Slot(L, s, c) - 1]>> \in L)
<1> DEFINE S == {i \in DOMAIN s : ~ (<<c, s[i]>> \in L)}
<1>1. Len(s) \in Nat /\ DOMAIN s = 1 .. Len(s) /\ S \subseteq 1 .. Len(s)
    OBVIOUS
<1>2. \A i \in 1 .. Len(s) : i \in S <=> ~ (<<c, s[i]>> \in L)
    BY <1>1
<1> HIDE DEF S
<1> DEFINE m == Max({0} \cup S)
           n == Len(s)
<1>3. 1 + m \in 1 .. n + 1 /\ (\A i \in S : i < 1 + m) /\ m \in {0} \cup S
    BY <1>1, AfterLast
<1>4. Slot(L, s, c) = 1 + m
    BY DEF Slot, S
<1> HIDE DEF m, n
<1>5. m \in Int
    BY <1>1, <1>3 DEF n
<1>6. m = 0 \/ ~ (<<c, s[m]>> \in L)
    BY <1>1, <1>2, <1>3
<1>7. (1 + m) - 1 = m /\ (m = 0 => 1 + m = 1)
    BY <1>5
<1>8. 1 + m = 1 \/ ~ (<<c, s[(1 + m) - 1]>> \in L)
    BY <1>6, <1>7
<1>9. \A i \in 1 .. n : ~ (<<c, s[i]>> \in L) => i < 1 + m
    BY <1>2, <1>3 DEF n
<1> QED BY <1>3, <1>4, <1>8, <1>9 DEF n

LEMMA PutType ==
    ASSUME NEW R, NEW L, NEW s \in Seq(R), NEW c \in R
    PROVE  Put(L, s, c) \in Seq(R)
BY SlotType, Inserted DEF Put

\* c[k]: the first k of cs, each put in its slot; and s is the last of these.
Puts(c, L, R, cs) ==
    /\ c \in [0 .. Len(cs) -> Seq(R)] /\ c[0] = <<>>
    /\ \A k \in 1 .. Len(cs) : c[k] = Put(L, c[k - 1], cs[k])
SortedBy(L, R, cs, s) == \E c : Puts(c, L, R, cs) /\ s = c[Len(cs)]

\* A recursion over the places of cs puts one element after the other.
LEMMA SortRuns ==
    ASSUME NEW R, NEW L, NEW cs \in Seq(R), NEW it,
           it[{}] = <<>>,
           \A S \in SUBSET DOMAIN cs :
               S # {} /\ it[S \ {Max(S)}] \in Seq(R) =>
                   it[S] = Put(L, it[S \ {Max(S)}], cs[Max(S)])
    PROVE  SortedBy(L, R, cs, it[DOMAIN cs])
<1> DEFINE step == [p \in Seq(R) \X R |-> Put(L, p[1], p[2])]
<1>1. step \in [Seq(R) \X R -> Seq(R)]
    BY PutType
<1>2. ASSUME NEW S \in SUBSET DOMAIN cs, S # {}, it[S \ {Max(S)}] \in Seq(R)
      PROVE  it[S] = step[<<it[S \ {Max(S)}], cs[Max(S)]>>]
    <2>1. cs[Max(S)] \in R
        BY <1>2, LastPlace
    <2> QED BY <1>2, <2>1
<1>3. \A s \in Seq(R), c \in R : step[<<s, c>>] = Put(L, s, c)
    OBVIOUS
<1>4. <<>> \in Seq(R)
    OBVIOUS
<1> HIDE DEF step
<1>5. Follows(it, Seq(R), step, <<>>, cs)
    BY <1>2 DEF Follows
<1>6. \E c : IsRun(c, it, Seq(R), step, <<>>, cs)
    <2> DEFINE X == Seq(R)
               e == <<>>
    <2>1. step \in [X \X R -> X] /\ e \in X /\ Follows(it, X, step, e, cs)
        BY <1>1, <1>4, <1>5
    <2> HIDE DEF X, e
    <2>2. \E c : IsRun(c, it, X, step, e, cs)
        BY <2>1, IterationRuns
    <2> QED BY <2>2 DEF X, e
<1>7. PICK c : IsRun(c, it, Seq(R), step, <<>>, cs)
    BY <1>6
<1>8. /\ c \in [0 .. Len(cs) -> Seq(R)]
      /\ c[0] = <<>> /\ it[DOMAIN cs] = c[Len(cs)]
      /\ \A k \in 1 .. Len(cs) : c[k] = step[<<c[k - 1], cs[k]>>]
    BY <1>7 DEF IsRun
<1>9. ASSUME NEW k \in 1 .. Len(cs) PROVE c[k] = Put(L, c[k - 1], cs[k])
    <2>1. k - 1 \in 0 .. Len(cs) /\ cs[k] \in R
        BY ElementOfSeq
    <2> QED BY <1>3, <1>8, <2>1
<1>10. Puts(c, L, R, cs)
    BY <1>8, <1>9 DEF Puts
<1> QED BY <1>8, <1>10 DEF SortedBy

\* Each step puts cs[k + 1] in its slot.
LEMMA PutStep ==
    ASSUME NEW R, NEW L, NEW cs \in Seq(R), NEW c, Puts(c, L, R, cs), NEW k \in 0 .. Len(cs) - 1
    PROVE  /\ k \in Nat /\ k + 1 \in 1 .. Len(cs) /\ cs[k + 1] \in R /\ c[k] \in Seq(R)
           /\ c[k + 1] = InsertAt(c[k], Slot(L, c[k], cs[k + 1]), cs[k + 1])
<1>1. k \in Nat /\ k + 1 \in 1 .. Len(cs) /\ (k + 1) - 1 = k /\ k \in 0 .. Len(cs)
    OBVIOUS
<1>2. c[k] \in Seq(R) /\ cs[k + 1] \in R
    BY <1>1, ElementOfSeq DEF Puts
<1> QED BY <1>1, <1>2 DEF Puts, Put

\* An order that does not tell chunks on one place apart.
Fair(L, R) == \A a, b \in R : SamePlace(a, b) => ~ (<<a, b>> \in L)

\* Then sorting keeps all chunks, and the order of those on one place.
LEMMA SortIsStable ==
    ASSUME NEW R, NEW L, Fair(L, R), NEW cs \in Seq(R), NEW s, SortedBy(L, R, cs, s)
    PROVE  s \in Seq(R) /\ Sorted(cs, Len(cs), s)
<1>1. PICK c : Puts(c, L, R, cs) /\ s = c[Len(cs)]
    BY DEF SortedBy
<1>2. c \in [0 .. Len(cs) -> Seq(R)] /\ c[0] = <<>>
    BY <1>1 DEF Puts
<1> DEFINE P == {k \in 0 .. Len(cs) : Sorted(cs, k, c[k])}
<1>3. Len(cs) \in Nat /\ 0 \in 0 .. Len(cs) /\ Len(cs) \in 0 .. Len(cs)
    OBVIOUS
<1>4. 0 \in P
    <2> DEFINE p == [k \in {} |-> k]
    <2>1. 1 .. 0 = {} /\ Len(<<>>) = 0
        OBVIOUS
    <2>2. p \in [1 .. 0 -> 1 .. Len(<<>>)]
        BY <2>1
    <2> HIDE DEF p
    <2>3. Stable(p, cs, 0, Len(<<>>))
        BY <2>1, <2>2 DEF Stable
    <2>4. Sorted(cs, 0, <<>>)
        BY <2>1, <2>3 DEF Sorted
    <2> QED BY <1>2, <1>3, <2>4
<1>5. ASSUME NEW k \in 0 .. Len(cs) - 1, k \in P PROVE k + 1 \in P
    <2> DEFINE t == c[k]
               x == cs[k + 1]
               at == Slot(L, t, x)
    <2>1. k + 1 \in 0 .. Len(cs) /\ x \in R /\ t \in Seq(R) /\ c[k + 1] = InsertAt(t, at, x)
        BY <1>1, PutStep
    <2>2. Sorted(cs, k, t)
        BY <1>5
    <2> HIDE DEF t
    <2>3. at \in 1 .. Len(t) + 1 /\ \A i \in 1 .. Len(t) : ~ (<<x, t[i]>> \in L) => i < at
        BY <2>1, SlotType
    <2> HIDE DEF at
    <2>4. \A i \in 1 .. Len(t) : SamePlace(t[i], cs[k + 1]) => i < at
        <3> TAKE i \in 1 .. Len(t)
        <3> HAVE SamePlace(t[i], x)
        <3>1. t[i] \in R /\ SamePlace(x, t[i])
            BY <2>1, ElementOfSeq DEF SamePlace
        <3>2. ~ (<<x, t[i]>> \in L)
            BY <2>1, <3>1 DEF Fair
        <3> QED BY <2>3, <3>2
    <2>5. Sorted(cs, k + 1, InsertAt(t, at, cs[k + 1]))
        BY <2>1, <2>2, <2>3, <2>4, SortedInsert
    <2> QED BY <2>1, <2>5
<1> HIDE DEF P
<1>6. 0 .. Len(cs) \subseteq P
    BY <1>3, <1>4, <1>5, IntervalInduct
<1>7. Len(cs) \in P
    BY <1>3, <1>6
<1> QED BY <1>1, <1>2, <1>3, <1>7 DEF P

\* Whatever the order, sorting keeps all elements and adds none.
LEMMA SortKeeps ==
    ASSUME NEW R, NEW L, NEW cs \in Seq(R), NEW s, SortedBy(L, R, cs, s)
    PROVE  s \in Seq(R) /\ ToSet(s) = ToSet(cs)
<1>1. PICK c : Puts(c, L, R, cs) /\ s = c[Len(cs)]
    BY DEF SortedBy
<1>2. c \in [0 .. Len(cs) -> Seq(R)] /\ c[0] = <<>>
    BY <1>1 DEF Puts
<1> DEFINE First(k) == {cs[i] : i \in 1 .. k}
           P == {k \in 0 .. Len(cs) : ToSet(c[k]) = First(k)}
<1>3. Len(cs) \in Nat /\ 0 \in 0 .. Len(cs) /\ Len(cs) \in 0 .. Len(cs)
    OBVIOUS
<1>4. 0 \in P
    BY <1>2, <1>3 DEF ToSet
<1>5. ASSUME NEW k \in 0 .. Len(cs) - 1, k \in P PROVE k + 1 \in P
    <2> DEFINE t == c[k]
               x == cs[k + 1]
               at == Slot(L, t, x)
               u == InsertAt(t, at, x)
               n == Len(t)
    <2>1. k \in Nat /\ k + 1 \in 0 .. Len(cs) /\ x \in R /\ t \in Seq(R) /\ c[k + 1] = u
        BY <1>1, PutStep
    <2>2. ToSet(t) = First(k)
        BY <1>5
    <2> HIDE DEF t
    <2>3. at \in 1 .. n + 1
        BY <2>1, SlotType
    <2> HIDE DEF at
    <2>4. /\ u \in Seq(R) /\ Len(u) = n + 1 /\ u[at] = x
          /\ \A i \in 1 .. n : i < at => u[i] = t[i]
          /\ \A i \in 1 .. n : i >= at => u[i + 1] = t[i]
        BY <2>1, <2>3, Inserted
    <2>5. n \in Nat /\ DOMAIN t = 1 .. n
        BY <2>1
    <2> HIDE DEF n, u
    <2>6. DOMAIN u = 1 .. n + 1
        BY <2>4
    <2>7. ASSUME NEW i \in 1 .. n + 1 PROVE u[i] \in ToSet(t) \cup {x}
        <3>1. CASE i < at
            <4>1. i \in 1 .. n /\ u[i] = t[i]
                BY <2>3, <2>4, <2>5, <3>1
            <4> QED BY <2>5, <4>1 DEF ToSet
        <3>2. CASE i = at
            BY <2>4, <3>2
        <3>3. CASE i > at
            <4>1. i - 1 \in 1 .. n /\ i - 1 >= at /\ (i - 1) + 1 = i
                BY <2>3, <2>5, <3>3
            <4>2. u[i] = t[i - 1]
                BY <2>4, <4>1
            <4> QED BY <2>5, <4>1, <4>2 DEF ToSet
        <3> QED BY <2>3, <2>5, <3>1, <3>2, <3>3
    <2>8. ASSUME NEW i \in 1 .. n PROVE t[i] \in ToSet(u)
        <3>1. CASE i < at
            <4>1. i \in 1 .. n + 1
                BY <2>5
            <4> QED BY <2>4, <2>6, <3>1, <4>1 DEF ToSet
        <3>2. CASE i >= at
            <4>1. i + 1 \in 1 .. n + 1
                BY <2>5
            <4> QED BY <2>4, <2>6, <3>2, <4>1 DEF ToSet
        <3> QED BY <2>3, <2>5, <3>1, <3>2
    <2>9. ToSet(u) = ToSet(t) \cup {x}
        <3>1. x \in ToSet(u)
            BY <2>3, <2>4, <2>6 DEF ToSet
        <3>2. \A e \in ToSet(u) : e \in ToSet(t) \cup {x}
            BY <2>6, <2>7 DEF ToSet
        <3>3. \A e \in ToSet(t) : e \in ToSet(u)
            BY <2>5, <2>8 DEF ToSet
        <3> QED BY <3>1, <3>2, <3>3
    <2>10. First(k + 1) = First(k) \cup {x}
        <3>1. 1 .. k + 1 = (1 .. k) \cup {k + 1}
            BY <2>1
        <3> QED BY <3>1
    <2> HIDE DEF First
    <2> QED BY <2>1, <2>2, <2>9, <2>10
<1>6. ToSet(cs) = First(Len(cs))
    BY DEF ToSet
<1> HIDE DEF P, First
<1>7. 0 .. Len(cs) \subseteq P
    BY <1>3, <1>4, <1>5, IntervalInduct
<1>8. Len(cs) \in P
    BY <1>3, <1>7
<1> QED BY <1>1, <1>2, <1>3, <1>6, <1>8 DEF P

\* An order that tells all elements apart, but for those that are alike in it.
WeakOrder(L, R) ==
    /\ \A a, b \in R : <<a, b>> \in L => ~ (<<b, a>> \in L)
    /\ \A a, b, c \in R : ~ (<<a, b>> \in L) /\ ~ (<<b, c>> \in L) => ~ (<<a, c>> \in L)

InOrder(L, s) == \A i, j \in 1 .. Len(s) : i < j => ~ (<<s[j], s[i]>> \in L)

\* Then nothing comes before what is less.
LEMMA SortOrders ==
    ASSUME NEW R, NEW L, WeakOrder(L, R), NEW cs \in Seq(R), NEW s, SortedBy(L, R, cs, s)
    PROVE  InOrder(L, s)
<1>1. PICK c : Puts(c, L, R, cs) /\ s = c[Len(cs)]
    BY DEF SortedBy
<1>2. c \in [0 .. Len(cs) -> Seq(R)] /\ c[0] = <<>>
    BY <1>1 DEF Puts
<1> DEFINE P == {k \in 0 .. Len(cs) : InOrder(L, c[k])}
<1>3. Len(cs) \in Nat /\ 0 \in 0 .. Len(cs) /\ Len(cs) \in 0 .. Len(cs)
    OBVIOUS
<1>4. 0 \in P
    <2>1. \A i, j \in 1 .. Len(<<>>) : ~ (i < j)
        OBVIOUS
    <2> QED BY <1>2, <1>3, <2>1 DEF InOrder
<1>5. ASSUME NEW k \in 0 .. Len(cs) - 1, k \in P PROVE k + 1 \in P
    <2> DEFINE t == c[k]
               x == cs[k + 1]
               at == Slot(L, t, x)
               u == InsertAt(t, at, x)
               n == Len(t)
    <2>1. k + 1 \in 0 .. Len(cs) /\ x \in R /\ t \in Seq(R) /\ c[k + 1] = u
        BY <1>1, PutStep
    <2>2. \A i, j \in 1 .. n : i < j => ~ (<<t[j], t[i]>> \in L)
        BY <1>5 DEF InOrder
    <2> HIDE DEF t
    <2>3. /\ at \in 1 .. n + 1
          /\ \A i \in 1 .. n : ~ (<<x, t[i]>> \in L) => i < at
          /\ at = 1 \/ ~ (<<x, t[at - 1]>> \in L)
        BY <2>1, SlotType
    <2> HIDE DEF at
    <2>4. /\ u \in Seq(R) /\ Len(u) = n + 1 /\ u[at] = x
          /\ \A i \in 1 .. n : i < at => u[i] = t[i]
          /\ \A i \in 1 .. n : i >= at => u[i + 1] = t[i]
        <3>1. x \in R /\ t \in Seq(R) /\ at \in 1 .. Len(t) + 1
            BY <2>1, <2>3
        <3> HIDE DEF x
        <3>2. u \in Seq(R) /\ Len(u) = n + 1 /\ u[at] = x
            BY <3>1, Inserted
        <3>3. \A i \in 1 .. n : i < at => u[i] = t[i]
            BY <3>1, Inserted
        <3>4. \A i \in 1 .. n : i >= at => u[i + 1] = t[i]
            BY <3>1, Inserted
        <3> QED BY <3>2, <3>3, <3>4
    <2>5. n \in Nat /\ \A i \in 1 .. n : t[i] \in R
        BY <2>1, ElementOfSeq
    <2> HIDE DEF n, u
    \* What stands before the slot is not greater than x,
    <2>6. ASSUME NEW i \in 1 .. n, i < at PROVE ~ (<<x, t[i]>> \in L)
        <3>1. at - 1 \in 1 .. n /\ ~ (<<x, t[at - 1]>> \in L)
            BY <2>3, <2>5, <2>6
        <3>2. CASE i = at - 1
            BY <3>1, <3>2
        <3>3. CASE i # at - 1
            <4>1. i < at - 1
                BY <2>3, <2>5, <2>6, <3>3
            <4>2. ~ (<<t[at - 1], t[i]>> \in L)
                BY <2>2, <3>1, <4>1
            <4> QED BY <2>1, <2>5, <3>1, <4>2 DEF WeakOrder
        <3> QED BY <3>2, <3>3
    \* and what stands after it is.
    <2>7. ASSUME NEW i \in 1 .. n, i >= at PROVE ~ (<<t[i], x>> \in L)
        <3>1. ~ (i < at)
            BY <2>3, <2>7
        <3>2. <<x, t[i]>> \in L
            BY <2>3, <3>1
        <3> QED BY <2>1, <2>5, <3>2 DEF WeakOrder
    <2>8. ASSUME NEW i \in 1 .. n + 1
          PROVE  \/ i < at /\ i \in 1 .. n /\ u[i] = t[i]
                 \/ i = at /\ u[i] = x
                 \/ i > at /\ i - 1 \in 1 .. n /\ i - 1 >= at /\ u[i] = t[i - 1]
        <3>1. CASE i < at
            <4>1. i \in 1 .. n
                BY <2>3, <2>5, <3>1
            <4> QED BY <2>4, <3>1, <4>1
        <3>2. CASE i > at
            <4>1. i - 1 \in 1 .. n /\ i - 1 >= at /\ (i - 1) + 1 = i
                BY <2>3, <2>5, <3>2
            <4> QED BY <2>4, <3>2, <4>1
        <3> QED BY <2>3, <2>4, <2>5, <3>1, <3>2
    <2>9. ASSUME NEW i \in 1 .. n + 1, NEW j \in 1 .. n + 1, i < j PROVE ~ (<<u[j], u[i]>> \in L)
        <3>1. CASE i < at /\ i \in 1 .. n /\ u[i] = t[i]
            <4>1. CASE j < at /\ j \in 1 .. n /\ u[j] = t[j]
                BY <2>2, <2>9, <3>1, <4>1
            <4>2. CASE j = at /\ u[j] = x
                BY <2>6, <3>1, <4>2
            <4>3. CASE j > at /\ j - 1 \in 1 .. n /\ j - 1 >= at /\ u[j] = t[j - 1]
                <5>1. i < j - 1
                    BY <2>3, <3>1, <4>3
                <5> QED BY <2>2, <3>1, <4>3, <5>1
            <4> QED BY <2>8, <4>1, <4>2, <4>3
        <3>2. CASE i = at /\ u[i] = x
            <4>1. j > at
                BY <2>3, <2>9, <3>2
            <4>2. j - 1 \in 1 .. n /\ j - 1 >= at /\ u[j] = t[j - 1]
                BY <2>3, <2>8, <4>1
            <4> QED BY <2>7, <3>2, <4>2
        <3>3. CASE i > at /\ i - 1 \in 1 .. n /\ u[i] = t[i - 1]
            <4>1. j > at /\ i - 1 < j - 1
                BY <2>3, <2>9, <3>3
            <4>2. j - 1 \in 1 .. n /\ u[j] = t[j - 1]
                BY <2>3, <2>8, <4>1
            <4> QED BY <2>2, <3>3, <4>1, <4>2
        <3> QED BY <2>8, <3>1, <3>2, <3>3
    <2>10. InOrder(L, u)
        BY <2>4, <2>9 DEF InOrder
    <2> QED BY <2>1, <2>10
<1> HIDE DEF P
<1>6. 0 .. Len(cs) \subseteq P
    BY <1>3, <1>4, <1>5, IntervalInduct
<1>7. Len(cs) \in P
    BY <1>3, <1>6
<1> QED BY <1>1, <1>7 DEF P

\* it[S]: the chunks at the places S of cs, each put in its slot.
Inserting(it, R, L, cs) ==
    /\ it \in [SUBSET DOMAIN cs -> Seq(R)]
    /\ it[{}] = <<>>
    /\ \A S \in SUBSET DOMAIN cs :
           S # {} => /\ it[S \ {Max(S)}] \in Seq(R)
                     /\ it[S] = Put(L, it[S \ {Max(S)}], cs[Max(S)])

\* The recursion has a solution.
LEMMA SortExists ==
    ASSUME NEW R, NEW L, NEW cs \in Seq(R)
    PROVE  \E it : Inserting(it, R, L, cs)
<1> DEFINE step == [p \in Seq(R) \X R |-> Put(L, p[1], p[2])]
<1>1. step \in [Seq(R) \X R -> Seq(R)]
    BY PutType
<1>2. <<>> \in Seq(R)
    OBVIOUS
<1>3. \A s \in Seq(R), c \in R : step[<<s, c>>] = Put(L, s, c)
    OBVIOUS
<1> HIDE DEF step
<1>4. \E i \in [SUBSET DOMAIN cs -> Seq(R)] : IsIteration(i, step, <<>>, cs)
    BY <1>1, <1>2, IterationExists
<1>5. PICK i \in [SUBSET DOMAIN cs -> Seq(R)] : IsIteration(i, step, <<>>, cs)
    BY <1>4
<1>6. \A S \in SUBSET DOMAIN cs :
          i[S] = IF S = {} THEN <<>> ELSE step[<<i[S \ {Max(S)}], cs[Max(S)]>>]
    BY <1>5 DEF IsIteration
<1>7. i[{}] = <<>>
    BY <1>6
<1>8. ASSUME NEW S \in SUBSET DOMAIN cs, S # {}
      PROVE  i[S \ {Max(S)}] \in Seq(R) /\ i[S] = Put(L, i[S \ {Max(S)}], cs[Max(S)])
    <2>1. cs[Max(S)] \in R /\ S \ {Max(S)} \in SUBSET DOMAIN cs
        BY <1>8, LastPlace
    <2>2. i[S \ {Max(S)}] \in Seq(R)
        BY <2>1
    <2> QED BY <1>3, <1>6, <1>8, <2>1, <2>2
<1> QED BY <1>7, <1>8 DEF Inserting

\* Chunks with names in N.
Pieces(N) == [name : N, x : Int, y : Int]

\* The three orders in which the code sorts, on the elements of R.
RowOrder(R, down) == {p \in R \X R : Before(p[1], p[2], down)}
LineOrder(R) == {p \in R \X R : LeftOf(p[1], p[2])}
NumberOrder(R) == {p \in R \X R : p[1] < p[2]}

\* The sort into rows,
InRows(cs, down) == Sort(cs, LAMBDA a, b : Before(a, b, down))

LEMMA RowSort ==
    ASSUME NEW R, NEW cs \in Seq(R), NEW down
    PROVE  SortedBy(RowOrder(R, down), R, cs, InRows(cs, down))
<1> DEFINE L == RowOrder(R, down)
           sort == InRows(cs, down)
           Place1(s, c) == 1 + Max({0} \cup {i \in DOMAIN s : ~ Before(c, s[i], down)})
           Steps(it) == it = [S \in SUBSET DOMAIN cs |->
                               IF S = {} THEN <<>>
                               ELSE InsertAt(it[S \ {Max(S)}],
                                             Place1(it[S \ {Max(S)}], cs[Max(S)]), cs[Max(S)])]
           it == CHOOSE i : Steps(i)
<1>1. sort = it[DOMAIN cs]
    BY DEF InRows, Sort, FoldLeft, MapThenFoldSet
<1>2. ASSUME NEW s \in Seq(R), NEW c \in R
      PROVE  InsertAt(s, Place1(s, c), c) = Put(L, s, c)
    <2>1. \A i \in DOMAIN s : s[i] \in R
        OBVIOUS
    <2>2. \A i \in DOMAIN s : <<c, s[i]>> \in L <=> Before(c, s[i], down)
        BY <2>1 DEF RowOrder
    <2>3. {i \in DOMAIN s : ~ Before(c, s[i], down)} = {i \in DOMAIN s : ~ (<<c, s[i]>> \in L)}
        BY <2>2
    <2> HIDE DEF L
    <2> QED BY <2>3 DEF Put, Slot
<1> HIDE DEF sort, L, Place1
<1>3. PICK i : Inserting(i, R, L, cs)
    BY SortExists
<1>4. Steps(i)
    <2>1. ASSUME NEW S \in SUBSET DOMAIN cs, S # {}
          PROVE  i[S] = InsertAt(i[S \ {Max(S)}], Place1(i[S \ {Max(S)}], cs[Max(S)]), cs[Max(S)])
        <3>1. cs[Max(S)] \in R
            BY <2>1, LastPlace
        <3> QED BY <1>2, <1>3, <2>1, <3>1 DEF Inserting
    <2>2. \A S \in SUBSET DOMAIN cs :
              i[S] = IF S = {} THEN <<>>
                     ELSE InsertAt(i[S \ {Max(S)}], Place1(i[S \ {Max(S)}], cs[Max(S)]), cs[Max(S)])
        BY <1>3, <2>1 DEF Inserting
    <2>3. i \in [SUBSET DOMAIN cs -> Seq(R)]
        BY <1>3 DEF Inserting
    <2> QED BY <2>2, <2>3
<1>5. Steps(it)
    <2> HIDE DEF Steps
    <2> QED BY <1>4
<1> HIDE DEF it
<1>6. it[{}] = <<>>
    <2>1. {} \in SUBSET DOMAIN cs
        OBVIOUS
    <2> QED BY <1>5, <2>1
<1>7. ASSUME NEW S \in SUBSET DOMAIN cs, S # {}, it[S \ {Max(S)}] \in Seq(R)
      PROVE  it[S] = Put(L, it[S \ {Max(S)}], cs[Max(S)])
    <2>1. cs[Max(S)] \in R
        BY <1>7, LastPlace
    <2>2. it[S] = InsertAt(it[S \ {Max(S)}], Place1(it[S \ {Max(S)}], cs[Max(S)]), cs[Max(S)])
        BY <1>5, <1>7
    <2> QED BY <1>2, <1>7, <2>1, <2>2
<1> HIDE DEF Steps
<1>8. \A S \in SUBSET DOMAIN cs :
          S # {} /\ it[S \ {Max(S)}] \in Seq(R) =>
              it[S] = Put(L, it[S \ {Max(S)}], cs[Max(S)])
    BY <1>7
<1>9. SortedBy(L, R, cs, it[DOMAIN cs])
    BY <1>6, <1>8, SortRuns
<1> QED BY <1>1, <1>9 DEF sort, L

\* the sort within a line,
LEMMA LineSort ==
    ASSUME NEW R, NEW cs \in Seq(R)
    PROVE  SortedBy(LineOrder(R), R, cs, Sort(cs, LeftOf))
<1> DEFINE L == LineOrder(R)
           sort == Sort(cs, LeftOf)
           Place1(s, c) == 1 + Max({0} \cup {i \in DOMAIN s : ~ LeftOf(c, s[i])})
           Steps(it) == it = [S \in SUBSET DOMAIN cs |->
                               IF S = {} THEN <<>>
                               ELSE InsertAt(it[S \ {Max(S)}],
                                             Place1(it[S \ {Max(S)}], cs[Max(S)]), cs[Max(S)])]
           it == CHOOSE i : Steps(i)
<1>1. sort = it[DOMAIN cs]
    BY DEF Sort, FoldLeft, MapThenFoldSet
<1>2. ASSUME NEW s \in Seq(R), NEW c \in R
      PROVE  InsertAt(s, Place1(s, c), c) = Put(L, s, c)
    <2>1. \A i \in DOMAIN s : s[i] \in R
        OBVIOUS
    <2>2. \A i \in DOMAIN s : <<c, s[i]>> \in L <=> LeftOf(c, s[i])
        BY <2>1 DEF LineOrder
    <2>3. {i \in DOMAIN s : ~ LeftOf(c, s[i])} = {i \in DOMAIN s : ~ (<<c, s[i]>> \in L)}
        BY <2>2
    <2> HIDE DEF L
    <2> QED BY <2>3 DEF Put, Slot
<1> HIDE DEF sort, L, Place1
<1>3. PICK i : Inserting(i, R, L, cs)
    BY SortExists
<1>4. Steps(i)
    <2>1. ASSUME NEW S \in SUBSET DOMAIN cs, S # {}
          PROVE  i[S] = InsertAt(i[S \ {Max(S)}], Place1(i[S \ {Max(S)}], cs[Max(S)]), cs[Max(S)])
        <3>1. cs[Max(S)] \in R
            BY <2>1, LastPlace
        <3> QED BY <1>2, <1>3, <2>1, <3>1 DEF Inserting
    <2>2. \A S \in SUBSET DOMAIN cs :
              i[S] = IF S = {} THEN <<>>
                     ELSE InsertAt(i[S \ {Max(S)}], Place1(i[S \ {Max(S)}], cs[Max(S)]), cs[Max(S)])
        BY <1>3, <2>1 DEF Inserting
    <2>3. i \in [SUBSET DOMAIN cs -> Seq(R)]
        BY <1>3 DEF Inserting
    <2> QED BY <2>2, <2>3
<1>5. Steps(it)
    <2> HIDE DEF Steps
    <2> QED BY <1>4
<1> HIDE DEF it
<1>6. it[{}] = <<>>
    <2>1. {} \in SUBSET DOMAIN cs
        OBVIOUS
    <2> QED BY <1>5, <2>1
<1>7. ASSUME NEW S \in SUBSET DOMAIN cs, S # {}, it[S \ {Max(S)}] \in Seq(R)
      PROVE  it[S] = Put(L, it[S \ {Max(S)}], cs[Max(S)])
    <2>1. cs[Max(S)] \in R
        BY <1>7, LastPlace
    <2>2. it[S] = InsertAt(it[S \ {Max(S)}], Place1(it[S \ {Max(S)}], cs[Max(S)]), cs[Max(S)])
        BY <1>5, <1>7
    <2> QED BY <1>2, <1>7, <2>1, <2>2
<1> HIDE DEF Steps
<1>8. \A S \in SUBSET DOMAIN cs :
          S # {} /\ it[S \ {Max(S)}] \in Seq(R) =>
              it[S] = Put(L, it[S \ {Max(S)}], cs[Max(S)])
    BY <1>7
<1>9. SortedBy(L, R, cs, it[DOMAIN cs])
    BY <1>6, <1>8, SortRuns
<1> QED BY <1>1, <1>9 DEF sort, L

\* and that of numbers.
LEMMA NumberSort ==
    ASSUME NEW R, NEW cs \in Seq(R)
    PROVE  SortedBy(NumberOrder(R), R, cs, Ascending(cs))
<1> DEFINE L == NumberOrder(R)
           sort == Ascending(cs)
           Place1(s, c) == 1 + Max({0} \cup {i \in DOMAIN s : ~ c < s[i]})
           Steps(it) == it = [S \in SUBSET DOMAIN cs |->
                               IF S = {} THEN <<>>
                               ELSE InsertAt(it[S \ {Max(S)}],
                                             Place1(it[S \ {Max(S)}], cs[Max(S)]), cs[Max(S)])]
           it == CHOOSE i : Steps(i)
<1>1. sort = it[DOMAIN cs]
    BY DEF Ascending, Sort, FoldLeft, MapThenFoldSet
<1>2. ASSUME NEW s \in Seq(R), NEW c \in R
      PROVE  InsertAt(s, Place1(s, c), c) = Put(L, s, c)
    <2>1. \A i \in DOMAIN s : s[i] \in R
        OBVIOUS
    <2>2. \A i \in DOMAIN s : <<c, s[i]>> \in L <=> c < s[i]
        BY <2>1 DEF NumberOrder
    <2>3. {i \in DOMAIN s : ~ c < s[i]} = {i \in DOMAIN s : ~ (<<c, s[i]>> \in L)}
        BY <2>2
    <2> HIDE DEF L
    <2> QED BY <2>3 DEF Put, Slot
<1> HIDE DEF sort, L, Place1
<1>3. PICK i : Inserting(i, R, L, cs)
    BY SortExists
<1>4. Steps(i)
    <2>1. ASSUME NEW S \in SUBSET DOMAIN cs, S # {}
          PROVE  i[S] = InsertAt(i[S \ {Max(S)}], Place1(i[S \ {Max(S)}], cs[Max(S)]), cs[Max(S)])
        <3>1. cs[Max(S)] \in R
            BY <2>1, LastPlace
        <3> QED BY <1>2, <1>3, <2>1, <3>1 DEF Inserting
    <2>2. \A S \in SUBSET DOMAIN cs :
              i[S] = IF S = {} THEN <<>>
                     ELSE InsertAt(i[S \ {Max(S)}], Place1(i[S \ {Max(S)}], cs[Max(S)]), cs[Max(S)])
        BY <1>3, <2>1 DEF Inserting
    <2>3. i \in [SUBSET DOMAIN cs -> Seq(R)]
        BY <1>3 DEF Inserting
    <2> QED BY <2>2, <2>3
<1>5. Steps(it)
    <2> HIDE DEF Steps
    <2> QED BY <1>4
<1> HIDE DEF it
<1>6. it[{}] = <<>>
    <2>1. {} \in SUBSET DOMAIN cs
        OBVIOUS
    <2> QED BY <1>5, <2>1
<1>7. ASSUME NEW S \in SUBSET DOMAIN cs, S # {}, it[S \ {Max(S)}] \in Seq(R)
      PROVE  it[S] = Put(L, it[S \ {Max(S)}], cs[Max(S)])
    <2>1. cs[Max(S)] \in R
        BY <1>7, LastPlace
    <2>2. it[S] = InsertAt(it[S \ {Max(S)}], Place1(it[S \ {Max(S)}], cs[Max(S)]), cs[Max(S)])
        BY <1>5, <1>7
    <2> QED BY <1>2, <1>7, <2>1, <2>2
<1> HIDE DEF Steps
<1>8. \A S \in SUBSET DOMAIN cs :
          S # {} /\ it[S \ {Max(S)}] \in Seq(R) =>
              it[S] = Put(L, it[S \ {Max(S)}], cs[Max(S)])
    BY <1>7
<1>9. SortedBy(L, R, cs, it[DOMAIN cs])
    BY <1>6, <1>8, SortRuns
<1> QED BY <1>1, <1>9 DEF sort, L

\* Neither sort of chunks tells those on one place apart.
LEMMA SortedBefore ==
    ASSUME NEW N, NEW cs \in Seq(Pieces(N)), NEW down \in Int
    PROVE  LET s == InRows(cs, down)
           IN  s \in Seq(Pieces(N)) /\ Sorted(cs, Len(cs), s)
<1> DEFINE R == Pieces(N)
           s == InRows(cs, down)
<1>1. Fair(RowOrder(R, down), R)
    <2>1. \A a, b \in R : SamePlace(a, b) => ~ Before(a, b, down)
        BY DEF Before, Far, SamePlace, Pieces
    <2> QED BY <2>1 DEF Fair, RowOrder
<1>2. SortedBy(RowOrder(R, down), R, cs, s)
    BY RowSort
<1> HIDE DEF s, R
<1>3. cs \in Seq(R)
    BY DEF R
<1> QED BY <1>1, <1>2, <1>3, SortIsStable DEF s, R

LEMMA SortedLeftOf ==
    ASSUME NEW N, NEW cs \in Seq(Pieces(N))
    PROVE  LET s == Sort(cs, LeftOf)
           IN  s \in Seq(Pieces(N)) /\ Sorted(cs, Len(cs), s)
<1> DEFINE R == Pieces(N)
           s == Sort(cs, LeftOf)
<1>1. Fair(LineOrder(R), R)
    <2>1. \A a, b \in R : SamePlace(a, b) => ~ LeftOf(a, b)
        BY DEF LeftOf, SamePlace, Pieces
    <2> QED BY <2>1 DEF Fair, LineOrder
<1>2. SortedBy(LineOrder(R), R, cs, s)
    BY LineSort
<1> HIDE DEF s, R
<1>3. cs \in Seq(R)
    BY DEF R
<1> QED BY <1>1, <1>2, <1>3, SortIsStable DEF s, R

-----------------------------------------------------------------------------
(* Cutting into lines.                                                      *)

\* One more chunk: a line of its own, or the end of the last line.
Grow(ls, c, threshold) ==
    IF ls = <<>> \/ 2 * Far(c, Head(Last(ls))) > threshold
    THEN Append(ls, <<c>>)
    ELSE [ls EXCEPT ![Len(ls)] = Append(@, c)]

LEMMA Grown ==
    ASSUME NEW R, NEW ls \in Seq(Seq(R)), NEW c \in R, NEW threshold
    PROVE  /\ Grow(ls, c, threshold) \in Seq(Seq(R))
           /\ FlattenSeq(Grow(ls, c, threshold)) = Append(FlattenSeq(ls), c)
<1>1. FlattenSeq(ls) \in Seq(R)
    BY FlattenType
<1>2. FlattenSeq(ls) \o <<c>> = Append(FlattenSeq(ls), c)
    BY <1>1
<1>3. CASE Grow(ls, c, threshold) = Append(ls, <<c>>)
    <2>1. <<c>> \in Seq(R)
        OBVIOUS
    <2>2. FlattenSeq(Append(ls, <<c>>)) = FlattenSeq(ls) \o <<c>>
        BY <2>1, FlattenAppend
    <2>3. Append(ls, <<c>>) \in Seq(Seq(R))
        BY <2>1
    <2> QED BY <1>2, <1>3, <2>2, <2>3
<1>4. CASE ls # <<>> /\ Grow(ls, c, threshold) = [ls EXCEPT ![Len(ls)] = Append(@, c)]
    <2> DEFINE n == Len(ls)
               front == SubSeq(ls, 1, n - 1)
               last == ls[n]
               more == Append(last, c)
               new == [ls EXCEPT ![n] = more]
    <2>1. n \in Nat /\ n \in 1 .. n /\ n - 1 \in Nat /\ (n - 1) + 1 = n
        BY <1>4
    <2>2. last \in Seq(R)
        BY <2>1, ElementOfSeq
    <2>3. more \in Seq(R)
        BY <2>2
    <2>4. front \in Seq(Seq(R)) /\ Len(front) = n - 1 /\ \A i \in 1 .. n - 1 : front[i] = ls[i]
        BY <2>1
    <2>5. Grow(ls, c, threshold) = new
        BY <1>4
    <2>9. DOMAIN ls = 1 .. n
        OBVIOUS
    <2>12. Len(ls) = n /\ \A i \in 1 .. n : ls[i] \in Seq(R)
        BY ElementOfSeq
    <2> HIDE DEF front, last, more, n
    <2>13. \A i \in 1 .. n : i = n \/ i \in 1 .. n - 1
        BY <2>1
    <2>14. \A i \in 1 .. n - 1 : i \in 1 .. n /\ i # n
        BY <2>1
    <2>6. new \in Seq(Seq(R)) /\ Len(new) = n /\ new[n] = more /\ \A i \in 1 .. n - 1 : new[i] = ls[i]
        <3>1. new = [i \in 1 .. n |-> IF i = n THEN more ELSE ls[i]]
            BY <2>9
        <3>2. \A i \in 1 .. n : (IF i = n THEN more ELSE ls[i]) \in Seq(R)
            BY <2>3, <2>12
        <3>3. new \in [1 .. n -> Seq(R)]
            BY <3>1, <3>2
        <3>4. new[n] = more /\ \A i \in 1 .. n - 1 : new[i] = ls[i]
            BY <2>1, <2>14, <3>1
        <3> HIDE DEF new
        <3>5. new \in Seq(Seq(R)) /\ Len(new) = n
            BY <2>1, <3>3
        <3> QED BY <3>4, <3>5
    <2> HIDE DEF new
    <2>15. ASSUME NEW x \in Seq(R), NEW l \in Seq(Seq(R)), Len(l) = n, l[n] = x,
                  \A i \in 1 .. n - 1 : l[i] = ls[i]
           PROVE  l = Append(front, x)
        <3> DEFINE t == Append(front, x)
        <3>1. t \in Seq(Seq(R)) /\ Len(t) = n /\ t[n] = x /\ \A i \in 1 .. n - 1 : t[i] = ls[i]
            BY <2>1, <2>4, AppendProperties
        <3> HIDE DEF t
        <3>2. \A i \in 1 .. n : t[i] = l[i]
            BY <2>13, <2>15, <3>1
        <3>3. t = l
            BY <2>15, <3>1, <3>2, SeqEqual
        <3> QED BY <3>3 DEF t
    <2>7. ls = Append(front, last)
        BY <2>2, <2>12, <2>15 DEF last
    <2>8. new = Append(front, more)
        BY <2>3, <2>6, <2>15
    <2> DEFINE flat == FlattenSeq(front)
    <2>10. FlattenSeq(ls) = flat \o last /\ flat \in Seq(R)
        BY <2>2, <2>4, <2>7, FlattenAppend
    <2>11. FlattenSeq(new) = flat \o more
        BY <2>3, <2>4, <2>8, FlattenAppend
    <2>16. flat \o more = Append(flat \o last, c)
        <3> HIDE DEF flat
        <3>1. more = Append(last, c)
            BY DEF more
        <3> QED BY <2>2, <2>10, <3>1
    <2> QED BY <2>5, <2>6, <2>10, <2>11, <2>16
<1>5. CASE ls = <<>>
    BY <1>3, <1>5 DEF Grow
<1> QED BY <1>3, <1>4, <1>5 DEF Grow

\* The lines after each chunk.
Grows(c, R, s, threshold) ==
    /\ c \in [0 .. Len(s) -> Seq(Seq(R))] /\ c[0] = <<>>
    /\ \A k \in 1 .. Len(s) : c[k] = Grow(c[k - 1], s[k], threshold)

LEMMA LinesRun ==
    ASSUME NEW R, NEW s \in Seq(R), NEW threshold
    PROVE  \E c : Grows(c, R, s, threshold) /\ Lines(s, threshold) = c[Len(s)]
<1> DEFINE X == Seq(Seq(R))
           step == [p \in X \X R |-> Grow(p[1], p[2], threshold)]
           lines == Lines(s, threshold)
           none == <<>>
           Steps(it) == it = [S \in SUBSET DOMAIN s |->
                               IF S = {} THEN <<>>
                               ELSE Grow(it[S \ {Max(S)}], s[Max(S)], threshold)]
           it == CHOOSE i : Steps(i)
<1>1. lines = it[DOMAIN s]
    BY DEF Lines, FoldLeft, MapThenFoldSet, Grow
<1>2. step \in [X \X R -> X] /\ \A ls \in X, c \in R : step[<<ls, c>>] = Grow(ls, c, threshold)
    BY Grown
<1>3. none \in X
    OBVIOUS
<1> HIDE DEF step, lines, none, X
<1>4. \E i \in [SUBSET DOMAIN s -> X] : IsIteration(i, step, none, s)
    BY <1>2, <1>3, IterationExists
<1>5. PICK i \in [SUBSET DOMAIN s -> X] : IsIteration(i, step, none, s)
    BY <1>4
<1>6. Steps(i)
    <2>1. ASSUME NEW S \in SUBSET DOMAIN s
          PROVE  i[S] = IF S = {} THEN <<>> ELSE Grow(i[S \ {Max(S)}], s[Max(S)], threshold)
        <3>1. i[S] = IF S = {} THEN none ELSE step[<<i[S \ {Max(S)}], s[Max(S)]>>]
            BY <1>5 DEF IsIteration
        <3>2. CASE S = {}
            BY <3>1, <3>2 DEF none
        <3>3. CASE S # {}
            <4>1. s[Max(S)] \in R /\ S \ {Max(S)} \in SUBSET DOMAIN s
                BY <3>3, LastPlace
            <4>2. i[S \ {Max(S)}] \in X
                BY <4>1
            <4> QED BY <1>2, <3>1, <3>3, <4>1, <4>2
        <3> QED BY <3>2, <3>3
    <2> QED BY <2>1
<1>7. Steps(it)
    <2> HIDE DEF Steps
    <2> QED BY <1>6
<1> HIDE DEF it
<1>8. Follows(it, X, step, none, s)
    <2>1. {} \in SUBSET DOMAIN s
        OBVIOUS
    <2>2. it[{}] = none
        BY <1>7, <2>1 DEF none
    <2>3. ASSUME NEW S \in SUBSET DOMAIN s, S # {}, it[S \ {Max(S)}] \in X
          PROVE  it[S] = step[<<it[S \ {Max(S)}], s[Max(S)]>>]
        <3>1. s[Max(S)] \in R
            BY <2>3, LastPlace
        <3>2. it[S] = Grow(it[S \ {Max(S)}], s[Max(S)], threshold)
            BY <1>7, <2>3
        <3> QED BY <1>2, <2>3, <3>1, <3>2
    <2> HIDE DEF Steps
    <2> QED BY <2>2, <2>3 DEF Follows
<1> HIDE DEF Steps
<1>9. \E c : IsRun(c, it, X, step, none, s)
    BY <1>2, <1>3, <1>8, IterationRuns
<1>10. PICK c : IsRun(c, it, X, step, none, s)
    BY <1>9
<1>11. /\ c \in [0 .. Len(s) -> X]
       /\ c[0] = none
       /\ \A k \in 1 .. Len(s) : c[k] = step[<<c[k - 1], s[k]>>]
       /\ it[DOMAIN s] = c[Len(s)]
    BY <1>10 DEF IsRun
<1>12. ASSUME NEW k \in 1 .. Len(s) PROVE c[k] = Grow(c[k - 1], s[k], threshold)
    <2>1. k - 1 \in 0 .. Len(s) /\ s[k] \in R
        BY ElementOfSeq
    <2>2. c[k - 1] \in X
        BY <1>11, <2>1
    <2> QED BY <1>2, <1>11, <2>1, <2>2
<1>13. Grows(c, R, s, threshold)
    BY <1>11, <1>12 DEF Grows, X, none
<1>14. lines = c[Len(s)]
    BY <1>1, <1>11
<1> QED BY <1>13, <1>14 DEF lines

\* The lines, one after the other, are the chunks as they were.
LEMMA LinesKeep ==
    ASSUME NEW R, NEW s \in Seq(R), NEW threshold
    PROVE  Lines(s, threshold) \in Seq(Seq(R)) /\ FlattenSeq(Lines(s, threshold)) = s
<1> DEFINE X == Seq(Seq(R))
<1>1. PICK c : Grows(c, R, s, threshold) /\ Lines(s, threshold) = c[Len(s)]
    BY LinesRun
<1>11. /\ c \in [0 .. Len(s) -> X] /\ c[0] = <<>>
       /\ \A k \in 1 .. Len(s) : c[k] = Grow(c[k - 1], s[k], threshold)
    BY <1>1 DEF Grows
<1> DEFINE P == {k \in 0 .. Len(s) : FlattenSeq(c[k]) = SubSeq(s, 1, k)}
<1>12. Len(s) \in Nat /\ 0 \in 0 .. Len(s) /\ Len(s) \in 0 .. Len(s)
    OBVIOUS
<1>13. 0 \in P
    <2>1. SubSeq(s, 1, 0) = <<>>
        OBVIOUS
    <2> QED BY <1>11, <1>12, <2>1, FlattenNone
<1>14. ASSUME NEW k \in 0 .. Len(s) - 1, k \in P PROVE k + 1 \in P
    <2>1. k + 1 \in 1 .. Len(s) /\ (k + 1) - 1 = k /\ k + 1 \in 0 .. Len(s) /\ k \in 0 .. Len(s)
        BY <1>12
    <2>2. c[k] \in X /\ s[k + 1] \in R
        BY <1>11, <2>1, ElementOfSeq
    <2>3. c[k + 1] = Grow(c[k], s[k + 1], threshold)
        BY <1>11, <2>1
    <2>4. FlattenSeq(c[k + 1]) = Append(FlattenSeq(c[k]), s[k + 1])
        BY <2>2, <2>3, Grown DEF X
    <2>5. SubSeq(s, 1, k + 1) = Append(SubSeq(s, 1, k), s[k + 1])
        BY <2>1
    <2> QED BY <1>14, <2>1, <2>4, <2>5
<1> HIDE DEF P
<1>15. Len(s) \in P
    <2>1. 0 .. Len(s) \subseteq P
        BY <1>12, <1>13, <1>14, IntervalInduct
    <2> QED BY <1>12, <2>1
<1>16. SubSeq(s, 1, Len(s)) = s
    OBVIOUS
<1>17. Lines(s, threshold) \in X /\ FlattenSeq(Lines(s, threshold)) = s
    BY <1>1, <1>11, <1>12, <1>15, <1>16 DEF P
<1> QED BY <1>17
-----------------------------------------------------------------------------
(* The text of chunks.                                                      *)

\* p leads to the names of cs in t, and but for them t has line breaks only.
Tells(p, cs, t) ==
    /\ Stable(p, cs, Len(cs), Len(t))
    /\ \A k \in 1 .. Len(cs) : t[p[k]] = cs[k].name
    /\ \A i \in 1 .. Len(t) : t[i] = Newline \/ \E k \in 1 .. Len(cs) : p[k] = i

Told(cs, t) == \E p : Tells(p, cs, t)

\* A line with its chunks in another order, if those on one place keep theirs.
LEMMA ToldNames ==
    ASSUME NEW R, NEW cs \in Seq(R), NEW s \in Seq(R), Sorted(cs, Len(cs), s)
    PROVE  Told(cs, Names(s))
<1>1. Len(Names(s)) = Len(s) /\ \A i \in 1 .. Len(s) : Names(s)[i] = s[i].name
    BY DEF Names
<1>2. PICK p : /\ Stable(p, cs, Len(cs), Len(s))
               /\ \A k \in 1 .. Len(cs) : s[p[k]] = cs[k]
               /\ \A i \in 1 .. Len(s) : \E k \in 1 .. Len(cs) : p[k] = i
    BY DEF Sorted
<1>3. \A k \in 1 .. Len(cs) : p[k] \in 1 .. Len(s)
    BY <1>2 DEF Stable
<1>4. \A k \in 1 .. Len(cs) : Names(s)[p[k]] = cs[k].name
    BY <1>1, <1>2, <1>3
<1>5. Stable(p, cs, Len(cs), Len(Names(s)))
    BY <1>1, <1>2
<1>6. \A i \in 1 .. Len(Names(s)) : \E k \in 1 .. Len(cs) : p[k] = i
    BY <1>1, <1>2
<1>7. Tells(p, cs, Names(s))
    BY <1>4, <1>5, <1>6 DEF Tells
<1> QED BY <1>7 DEF Told

\* Line breaks tell nothing.
LEMMA ToldBreaks ==
    ASSUME NEW b, \A i \in 1 .. Len(b) : b[i] = Newline
    PROVE  Told(<<>>, b)
<1> DEFINE p == [k \in {} |-> k]
<1>1. 1 .. Len(<<>>) = {} /\ Len(<<>>) = 0
    OBVIOUS
<1>2. p \in [1 .. Len(<<>>) -> 1 .. Len(b)]
    BY <1>1
<1> HIDE DEF p
<1>3. Stable(p, <<>>, Len(<<>>), Len(b))
    BY <1>1, <1>2 DEF Stable
<1>4. Tells(p, <<>>, b)
    BY <1>1, <1>3 DEF Tells
<1> QED BY <1>4 DEF Told

\* One text after another.
LEMMA ToldConcat ==
    ASSUME NEW R, NEW W, NEW a \in Seq(R), NEW b \in Seq(R), NEW s \in Seq(W), NEW t \in Seq(W),
           Told(a, s), Told(b, t)
    PROVE  Told(a \o b, s \o t)
<1> DEFINE m == Len(a)
           n == Len(b)
           x == Len(s)
           y == Len(t)
           ab == a \o b
           st == s \o t
<1>1. m \in Nat /\ n \in Nat /\ x \in Nat /\ y \in Nat
    OBVIOUS
<1>2. /\ ab \in Seq(R) /\ Len(ab) = m + n
      /\ \A k \in 1 .. m + n : ab[k] = IF k <= m THEN a[k] ELSE b[k - m]
    BY ConcatProperties
<1>3. /\ st \in Seq(W) /\ Len(st) = x + y
      /\ \A i \in 1 .. x + y : st[i] = IF i <= x THEN s[i] ELSE t[i - x]
    BY ConcatProperties
<1>4. PICK p : Tells(p, a, s)
    BY DEF Told
<1>5. PICK q : Tells(q, b, t)
    BY DEF Told
<1> HIDE DEF ab, st, m, n, x, y
<1>6. /\ p \in [1 .. m -> 1 .. x]
      /\ \A k, l \in 1 .. m : k < l => p[k] # p[l] /\ (SamePlace(a[k], a[l]) => p[k] < p[l])
      /\ \A k \in 1 .. m : s[p[k]] = a[k].name
      /\ \A i \in 1 .. x : s[i] = Newline \/ \E k \in 1 .. m : p[k] = i
    BY <1>4 DEF Tells, Stable, m, x
<1>7. /\ q \in [1 .. n -> 1 .. y]
      /\ \A k, l \in 1 .. n : k < l => q[k] # q[l] /\ (SamePlace(b[k], b[l]) => q[k] < q[l])
      /\ \A k \in 1 .. n : t[q[k]] = b[k].name
      /\ \A i \in 1 .. y : t[i] = Newline \/ \E k \in 1 .. n : q[k] = i
    BY <1>5 DEF Tells, Stable, n, y
<1> DEFINE r == [k \in 1 .. m + n |-> IF k <= m THEN p[k] ELSE x + q[k - m]]
<1>8. \A k \in 1 .. m + n : ~ (k <= m) => k - m \in 1 .. n
    BY <1>1
<1>9. \A k \in 1 .. m + n : k <= m => k \in 1 .. m
    BY <1>1
<1>10. ASSUME NEW k \in 1 .. m + n, k <= m
       PROVE  /\ k \in 1 .. m /\ r[k] = p[k] /\ ab[k] = a[k]
              /\ p[k] \in 1 .. x /\ r[k] \in 1 .. x + y /\ r[k] <= x /\ r[k] \in Nat
              /\ st[r[k]] = ab[k].name
    <2>1. k \in 1 .. m /\ r[k] = p[k] /\ ab[k] = a[k]
        BY <1>2, <1>9, <1>10
    <2>2. p[k] \in 1 .. x
        BY <1>6, <2>1
    <2>3. p[k] \in 1 .. x + y /\ p[k] <= x /\ p[k] \in Nat
        BY <1>1, <2>2
    <2>4. st[p[k]] = s[p[k]]
        BY <1>3, <2>3
    <2> HIDE DEF r
    <2> QED BY <1>6, <2>1, <2>2, <2>3, <2>4
<1>11. ASSUME NEW k \in 1 .. m + n, ~ (k <= m)
       PROVE  /\ k - m \in 1 .. n /\ r[k] = x + q[k - m] /\ ab[k] = b[k - m]
              /\ q[k - m] \in 1 .. y /\ r[k] \in 1 .. x + y /\ r[k] > x /\ r[k] \in Nat
              /\ st[r[k]] = ab[k].name
    <2>1. k - m \in 1 .. n /\ r[k] = x + q[k - m] /\ ab[k] = b[k - m]
        BY <1>2, <1>8, <1>11
    <2> DEFINE j == q[k - m]
    <2>2. j \in 1 .. y
        BY <1>7, <2>1
    <2>3. x + j \in 1 .. x + y /\ x + j > x /\ x + j \in Nat /\ ~ (x + j <= x) /\ (x + j) - x = j
        BY <1>1, <2>2
    <2>4. st[x + j] = t[j]
        BY <1>3, <2>3
    <2>5. t[j] = b[k - m].name
        BY <1>7, <2>1
    <2> HIDE DEF r
    <2> QED BY <2>1, <2>2, <2>3, <2>4, <2>5
<1>12. r \in [1 .. m + n -> 1 .. x + y]
    BY <1>10, <1>11
<1> HIDE DEF r
<1>13. ASSUME NEW k \in 1 .. m + n, NEW l \in 1 .. m + n, k < l
       PROVE  r[k] # r[l] /\ (SamePlace(ab[k], ab[l]) => r[k] < r[l])
    <2>1. CASE l <= m
        <3>1. k <= m
            BY <1>1, <1>13, <2>1
        <3> QED BY <1>6, <1>10, <1>13, <2>1, <3>1
    <2>2. CASE k <= m /\ ~ (l <= m)
        <3>1. r[k] <= x /\ r[k] \in Nat
            BY <1>10, <2>2
        <3>2. r[l] > x /\ r[l] \in Nat
            BY <1>11, <2>2
        <3> QED BY <1>1, <3>1, <3>2
    <2>3. CASE ~ (k <= m) /\ ~ (l <= m)
        <3> DEFINE i == k - m
                   j == l - m
        <3>1. i \in 1 .. n /\ r[k] = x + q[i] /\ ab[k] = b[i] /\ q[i] \in 1 .. y
            BY <1>11, <2>3
        <3>2. j \in 1 .. n /\ r[l] = x + q[j] /\ ab[l] = b[j] /\ q[j] \in 1 .. y
            BY <1>11, <2>3
        <3>3. i < j
            BY <1>1, <1>13
        <3> HIDE DEF i, j
        <3>4. q[i] # q[j] /\ (SamePlace(b[i], b[j]) => q[i] < q[j])
            BY <1>7, <3>1, <3>2, <3>3
        <3>5. x + q[i] # x + q[j] /\ (q[i] < q[j] => x + q[i] < x + q[j])
            BY <1>1, <3>1, <3>2, <3>4, SMTT(30)
        <3> QED BY <3>1, <3>2, <3>4, <3>5
    <2>4. CASE ~ (k <= m) /\ l <= m
        BY <1>1, <1>13, <2>4
    <2> QED BY <2>1, <2>2, <2>3, <2>4
<1>14. ASSUME NEW i \in 1 .. x + y PROVE st[i] = Newline \/ \E k \in 1 .. m + n : r[k] = i
    <2>1. CASE i <= x
        <3>1. i \in 1 .. x /\ st[i] = s[i]
            BY <1>1, <1>3, <2>1
        <3>2. ASSUME NEW k \in 1 .. m, p[k] = i PROVE k \in 1 .. m + n /\ r[k] = i
            <4>1. k \in 1 .. m + n /\ k <= m
                BY <1>1
            <4> QED BY <1>10, <3>2, <4>1
        <3> QED BY <1>6, <3>1, <3>2
    <2>2. CASE ~ (i <= x)
        <3>1. i - x \in 1 .. y /\ st[i] = t[i - x]
            BY <1>1, <1>3, <2>2
        <3>2. ASSUME NEW j \in 1 .. n, q[j] = i - x PROVE \E k \in 1 .. m + n : r[k] = i
            <4>1. m + j \in 1 .. m + n /\ ~ (m + j <= m) /\ (m + j) - m = j /\ x + (i - x) = i
                BY <1>1
            <4>2. r[m + j] = x + q[j]
                BY <1>11, <4>1
            <4> QED BY <3>2, <4>1, <4>2
        <3> QED BY <1>7, <3>1, <3>2
    <2> QED BY <2>1, <2>2
<1>15. Stable(r, ab, Len(ab), Len(st))
    BY <1>2, <1>3, <1>12, <1>13 DEF Stable
<1>16. Tells(r, ab, st)
    BY <1>2, <1>3, <1>10, <1>11, <1>14, <1>15 DEF Tells
<1>17. Told(ab, st)
    BY <1>16 DEF Told
<1> QED BY <1>17 DEF ab, st

\* What is told of the sorted chunks is told of the chunks.
LEMMA ToldSorted ==
    ASSUME NEW cs, NEW s, NEW t, Len(cs) \in Nat, Len(s) \in Nat, Len(t) \in Nat,
           Sorted(cs, Len(cs), s), Told(s, t)
    PROVE  Told(cs, t)
<1> DEFINE n == Len(cs)
           m == Len(s)
           y == Len(t)
<1>1. PICK p : /\ Stable(p, cs, n, m)
               /\ \A k \in 1 .. n : s[p[k]] = cs[k]
               /\ \A i \in 1 .. m : \E k \in 1 .. n : p[k] = i
    BY DEF Sorted
<1>2. PICK q : Tells(q, s, t)
    BY DEF Told
<1> HIDE DEF n, m, y
<1>3. /\ p \in [1 .. n -> 1 .. m]
      /\ \A k, l \in 1 .. n : k < l => p[k] # p[l] /\ (SamePlace(cs[k], cs[l]) => p[k] < p[l])
    BY <1>1 DEF Stable
<1>4. /\ q \in [1 .. m -> 1 .. y]
      /\ \A k, l \in 1 .. m : k < l => q[k] # q[l] /\ (SamePlace(s[k], s[l]) => q[k] < q[l])
      /\ \A k \in 1 .. m : t[q[k]] = s[k].name
      /\ \A i \in 1 .. y : t[i] = Newline \/ \E k \in 1 .. m : q[k] = i
    BY <1>2 DEF Tells, Stable, m, y
<1> DEFINE r == [k \in 1 .. n |-> q[p[k]]]
<1>5. \A k \in 1 .. n : p[k] \in 1 .. m /\ r[k] = q[p[k]] /\ r[k] \in 1 .. y
    BY <1>3, <1>4
<1>6. r \in [1 .. n -> 1 .. y]
    BY <1>5
<1> HIDE DEF r
<1>7. ASSUME NEW k \in 1 .. n, NEW l \in 1 .. n, k < l
      PROVE  r[k] # r[l] /\ (SamePlace(cs[k], cs[l]) => r[k] < r[l])
    <2>1. p[k] \in 1 .. m /\ p[l] \in 1 .. m /\ p[k] # p[l] /\ m \in Nat
        BY <1>3, <1>5, <1>7 DEF m
    <2>2. p[k] < p[l] \/ p[l] < p[k]
        BY <2>1
    <2>3. r[k] # r[l]
        BY <1>4, <1>5, <2>1, <2>2
    <2>4. ASSUME SamePlace(cs[k], cs[l]) PROVE r[k] < r[l]
        <3>1. p[k] < p[l] /\ s[p[k]] = cs[k] /\ s[p[l]] = cs[l]
            BY <1>1, <1>3, <1>7, <2>4
        <3> QED BY <1>4, <1>5, <2>1, <2>4, <3>1, SMTT(30)
    <2> QED BY <2>3, <2>4
<1>8. ASSUME NEW k \in 1 .. n PROVE t[r[k]] = cs[k].name
    BY <1>1, <1>4, <1>5
<1>9. ASSUME NEW i \in 1 .. y PROVE t[i] = Newline \/ \E k \in 1 .. n : r[k] = i
    BY <1>1, <1>4, <1>5
<1>10. Tells(r, cs, t)
    BY <1>6, <1>7, <1>8, <1>9 DEF Tells, Stable, n, y
<1> QED BY <1>10 DEF Told

\* Line by line.
LEMMA ToldLines ==
    ASSUME NEW R, NEW W, NEW ls \in Seq(Seq(R)), NEW ts \in Seq(Seq(W)), Len(ls) = Len(ts),
           \A i \in 1 .. Len(ls) : Told(ls[i], ts[i])
    PROVE  Told(FlattenSeq(ls), FlattenSeq(ts))
<1> DEFINE n == Len(ls)
           Up(s, k) == SubSeq(s, 1, k)
           P == {k \in 0 .. n : Told(FlattenSeq(Up(ls, k)), FlattenSeq(Up(ts, k)))}
<1>1. n \in Nat /\ 0 \in 0 .. n /\ n \in 0 .. n /\ Len(ts) = n
    OBVIOUS
<1>2. 0 \in P
    <2>1. Up(ls, 0) = <<>> /\ Up(ts, 0) = <<>> /\ \A i \in 1 .. Len(<<>>) : <<>>[i] = Newline
        OBVIOUS
    <2>2. Told(<<>>, <<>>)
        BY <2>1, ToldBreaks
    <2> QED BY <1>1, <2>1, <2>2, FlattenNone
<1>3. ASSUME NEW k \in 0 .. n - 1, k \in P PROVE k + 1 \in P
    <2>1. k + 1 \in 1 .. n /\ k + 1 \in 0 .. n /\ k \in 0 .. n
        BY <1>1
    <2>2. ls[k + 1] \in Seq(R) /\ ts[k + 1] \in Seq(W)
        BY <1>1, <2>1, ElementOfSeq
    <2>3. Up(ls, k) \in Seq(Seq(R)) /\ Up(ts, k) \in Seq(Seq(W))
        BY <1>1, <2>1
    <2>4. Up(ls, k + 1) = Append(Up(ls, k), ls[k + 1]) /\ Up(ts, k + 1) = Append(Up(ts, k), ts[k + 1])
        BY <1>1, <2>1
    <2> HIDE DEF Up
    <2>5. /\ FlattenSeq(Up(ls, k)) \in Seq(R)
          /\ FlattenSeq(Up(ls, k + 1)) = FlattenSeq(Up(ls, k)) \o ls[k + 1]
        BY <2>2, <2>3, <2>4, FlattenAppend
    <2>6. /\ FlattenSeq(Up(ts, k)) \in Seq(W)
          /\ FlattenSeq(Up(ts, k + 1)) = FlattenSeq(Up(ts, k)) \o ts[k + 1]
        BY <2>2, <2>3, <2>4, FlattenAppend
    <2>7. Told(FlattenSeq(Up(ls, k)), FlattenSeq(Up(ts, k))) /\ Told(ls[k + 1], ts[k + 1])
        BY <1>3, <2>1
    <2>8. Told(FlattenSeq(Up(ls, k + 1)), FlattenSeq(Up(ts, k + 1)))
        BY <2>2, <2>5, <2>6, <2>7, ToldConcat
    <2> QED BY <2>1, <2>8
<1>4. n \in P
    <2> HIDE DEF P, n
    <2>1. 0 .. n \subseteq P
        BY <1>1, <1>2, <1>3, IntervalInduct
    <2> QED BY <1>1, <2>1
<1>5. Up(ls, n) = ls /\ Up(ts, n) = ts
    BY <1>1
<1> QED BY <1>4, <1>5

LEMMA BreaksType ==
    ASSUME NEW lines, NEW i, NEW threshold
    PROVE  LET b == Breaks(lines, i, threshold)
           IN  /\ b \in Seq({Newline}) /\ \A j \in 1 .. Len(b) : b[j] = Newline
               /\ i # 1 => b # <<>> /\ b[1] = Newline
<1> DEFINE b == Breaks(lines, i, threshold)
           S == {Newline}
<1>1. b = <<>> \/ b = <<Newline>> \/ b = <<Newline, Newline>>
    BY DEF Breaks
<1>2. i # 1 => b # <<>> /\ b[1] = Newline
    <2>1. i # 1 => b = <<Newline>> \/ b = <<Newline, Newline>>
        BY DEF Breaks
    <2> HIDE DEF b
    <2> QED BY <2>1
<1>3. Newline \in S
    OBVIOUS
<1> HIDE DEF b, S
<1>4. <<>> \in Seq(S) /\ <<Newline>> \in Seq(S) /\ <<Newline, Newline>> \in Seq(S)
    BY <1>3
<1>5. b \in Seq(S)
    BY <1>1, <1>4
<1>6. \A j \in 1 .. Len(b) : b[j] \in S
    BY <1>5, ElementOfSeq
<1> QED BY <1>2, <1>5, <1>6 DEF b, S

LEMMA NamesType ==
    ASSUME NEW N, NEW s \in Seq(Pieces(N))
    PROVE  Names(s) \in Seq(N)
<1>1. Len(s) \in Nat /\ DOMAIN s = 1 .. Len(s)
    OBVIOUS
<1>2. \A j \in 1 .. Len(s) : s[j].name \in N
    <2> TAKE j \in 1 .. Len(s)
    <2>1. s[j] \in Pieces(N)
        BY ElementOfSeq
    <2> QED BY <2>1 DEF Pieces
<1> QED BY <1>1, <1>2 DEF Names

\* The text has every chunk's name once, those on one place in their order, and
\* line breaks.
LEMMA ChunksTold ==
    ASSUME NEW N, NEW cs \in Seq(Pieces(N))
    PROVE  chunksToText(cs) \in Seq(N \cup {Newline}) /\ Told(cs, chunksToText(cs))
<1>1. CASE cs = <<>>
    <2>1. \A i \in 1 .. Len(<<>>) : <<>>[i] = Newline
        OBVIOUS
    <2>2. Told(<<>>, <<>>)
        BY <2>1, ToldBreaks
    <2> QED BY <1>1, <2>2 DEF chunksToText
<1>2. CASE cs # <<>>
    <2> DEFINE R == Pieces(N)
               W == N \cup {Newline}
               down == yDirection(cs)
               threshold == TwiceThreshold(cs)
               sorted == InRows(cs, down)
               lines == Lines(sorted, threshold)
               line(i) == Sort(lines[i], LeftOf)
               ts == [i \in DOMAIN lines |-> Breaks(lines, i, threshold) \o Names(line(i))]
    <2>1. chunksToText(cs) = FlattenSeq(ts)
        BY <1>2 DEF chunksToText, InRows
    <2>2. down \in Int
        BY DEF yDirection
    <2>3. sorted \in Seq(R) /\ Sorted(cs, Len(cs), sorted)
        <3> HIDE DEF down
        <3> QED BY <2>2, SortedBefore
    <2> HIDE DEF sorted, threshold, R
    <2>4. lines \in Seq(Seq(R)) /\ FlattenSeq(lines) = sorted
        BY <2>3, LinesKeep
    <2> HIDE DEF lines
    <2>5. ASSUME NEW i \in 1 .. Len(lines)
          PROVE  ts[i] \in Seq(W) /\ Told(lines[i], ts[i])
        <3> DEFINE b == Breaks(lines, i, threshold)
                   l == lines[i]
        <3>1. l \in Seq(R) /\ DOMAIN lines = 1 .. Len(lines)
            BY <2>4, ElementOfSeq
        <3>2. line(i) \in Seq(R) /\ Sorted(l, Len(l), line(i))
            BY <3>1, SortedLeftOf DEF R
        <3>3. b \in Seq({Newline}) /\ \A j \in 1 .. Len(b) : b[j] = Newline
            BY BreaksType
        <3>4. ts[i] = b \o Names(line(i))
            BY <3>1
        <3> HIDE DEF b, line
        <3>5. Names(line(i)) \in Seq(W)
            <4>1. Names(line(i)) \in Seq(N)
                BY <3>2, NamesType DEF R
            <4> QED BY <4>1
        <3>6. Told(l, Names(line(i)))
            BY <3>1, <3>2, ToldNames
        <3>7. Told(<<>>, b)
            BY <3>3, ToldBreaks
        <3>8. b \in Seq(W)
            BY <3>3
        <3>9. <<>> \in Seq(R) /\ <<>> \o l = l
            BY <3>1
        <3> HIDE DEF l, W
        <3>10. Told(<<>> \o l, b \o Names(line(i)))
            BY <3>1, <3>5, <3>6, <3>7, <3>8, <3>9, ToldConcat DEF l
        <3>11. b \o Names(line(i)) \in Seq(W)
            BY <3>5, <3>8, ConcatProperties
        <3> QED BY <3>4, <3>9, <3>10, <3>11 DEF l
    <2>6. DOMAIN ts = 1 .. Len(lines) /\ Len(lines) \in Nat
        BY <2>4
    <2> HIDE DEF ts, W
    <2>7. ts \in Seq(Seq(W)) /\ Len(ts) = Len(lines)
        <3>1. ts = [i \in 1 .. Len(lines) |-> ts[i]]
            BY <2>6 DEF ts
        <3>2. ts \in [1 .. Len(lines) -> Seq(W)]
            BY <2>5, <3>1
        <3> QED BY <2>6, <3>2
    <2>8. \A i \in 1 .. Len(lines) : Told(lines[i], ts[i])
        BY <2>5
    <2>9. Told(sorted, FlattenSeq(ts))
        <3>1. Told(FlattenSeq(lines), FlattenSeq(ts))
            BY <2>4, <2>7, <2>8, ToldLines
        <3> QED BY <2>4, <3>1
    <2>10. FlattenSeq(ts) \in Seq(W)
        BY <2>7, FlattenType
    <2>11. Len(cs) \in Nat /\ Len(sorted) \in Nat /\ Len(FlattenSeq(ts)) \in Nat
        <3> HIDE DEF down
        <3> QED BY <2>3, <2>10
    <2>12. Told(cs, FlattenSeq(ts))
        BY <2>3, <2>9, <2>11, ToldSorted
    <2> QED BY <2>1, <2>10, <2>12 DEF W
<1> QED BY <1>1, <1>2

-----------------------------------------------------------------------------
(* Which forms were read. D: the forms read so far, with the one being read. *)

Listed(vs) == {vs[k][2] : k \in DOMAIN vs}
ToRead(vs) == {vs[k][2] : k \in {l \in DOMAIN vs : vs[l][1] = "read"}}

Once(vs) == \A k, l \in DOMAIN vs : vs[k][2] = vs[l][2] => k = l

\* Every form is to visit or was read at most once; those that are nested in
\* what was read, or entered, are known, and no others.
Visited(p, D, vs) ==
    /\ D \subseteq DOMAIN p.forms
    /\ Once(vs)
    /\ D \cap Listed(vs) = {}
    /\ D \cup Listed(vs) = ToSet(p.root) \cup Within(p, D \cup ToRead(vs))

\* Visits one after another.
LEMMA VisitsConcat ==
    ASSUME NEW V, NEW a \in Seq(V), NEW b \in Seq(V)
    PROVE  /\ Listed(a \o b) = Listed(a) \cup Listed(b)
           /\ ToRead(a \o b) = ToRead(a) \cup ToRead(b)
           /\ Once(a) /\ Once(b) /\ Listed(a) \cap Listed(b) = {} => Once(a \o b)
<1> DEFINE m == Len(a)
           n == Len(b)
           ab == a \o b
<1>1. m \in Nat /\ n \in Nat /\ DOMAIN a = 1 .. m /\ DOMAIN b = 1 .. n
    OBVIOUS
<1>2. /\ ab \in Seq(V) /\ Len(ab) = m + n
      /\ \A k \in 1 .. m + n : ab[k] = IF k <= m THEN a[k] ELSE b[k - m]
    BY ConcatProperties
<1>3. DOMAIN ab = 1 .. m + n
    BY <1>2
<1> HIDE DEF ab, m, n
<1>4. \A k \in DOMAIN ab : \/ k \in DOMAIN a /\ ab[k] = a[k]
                           \/ k - m \in DOMAIN b /\ ab[k] = b[k - m] /\ ~ (k <= m)
    BY <1>1, <1>2, <1>3
<1>5. \A k \in DOMAIN a : k \in DOMAIN ab /\ ab[k] = a[k]
    BY <1>1, <1>2, <1>3
<1>6. \A k \in DOMAIN b : m + k \in DOMAIN ab /\ ab[m + k] = b[k]
    <2> TAKE k \in DOMAIN b
    <2>1. m + k \in 1 .. m + n /\ ~ (m + k <= m) /\ (m + k) - m = k
        BY <1>1
    <2> QED BY <1>2, <1>3, <2>1
<1>7. Listed(ab) = Listed(a) \cup Listed(b)
    BY <1>4, <1>5, <1>6 DEF Listed
<1>8. ToRead(ab) = ToRead(a) \cup ToRead(b)
    BY <1>4, <1>5, <1>6 DEF ToRead
<1>9. ASSUME Once(a), Once(b), Listed(a) \cap Listed(b) = {} PROVE Once(ab)
    <2> SUFFICES ASSUME NEW k \in DOMAIN ab, NEW l \in DOMAIN ab, ab[k][2] = ab[l][2] PROVE k = l
        BY DEF Once
    <2>1. CASE k \in DOMAIN a /\ ab[k] = a[k] /\ l \in DOMAIN a /\ ab[l] = a[l]
        BY <1>9, <2>1 DEF Once
    <2>2. CASE k - m \in DOMAIN b /\ ab[k] = b[k - m] /\ l - m \in DOMAIN b /\ ab[l] = b[l - m]
        <3>1. k - m = l - m
            BY <1>9, <2>2 DEF Once
        <3> QED BY <1>1, <1>3, <3>1
    <2>3. CASE k \in DOMAIN a /\ ab[k] = a[k] /\ l - m \in DOMAIN b /\ ab[l] = b[l - m]
        <3>1. ab[k][2] \in Listed(a) /\ ab[l][2] \in Listed(b)
            BY <2>3 DEF Listed
        <3> QED BY <1>9, <3>1
    <2>4. CASE k - m \in DOMAIN b /\ ab[k] = b[k - m] /\ l \in DOMAIN a /\ ab[l] = a[l]
        <3>1. ab[k][2] \in Listed(b) /\ ab[l][2] \in Listed(a)
            BY <2>4 DEF Listed
        <3> QED BY <1>9, <3>1
    <2> QED BY <1>4, <2>1, <2>2, <2>3, <2>4
<1> QED BY <1>7, <1>8, <1>9 DEF ab

\* The first visit and the others.
LEMMA VisitsHead ==
    ASSUME NEW V, NEW vs \in Seq(V), vs # <<>>
    PROVE  /\ Listed(vs) = {Head(vs)[2]} \cup Listed(Tail(vs))
           /\ ToRead(vs) = {g \in {Head(vs)[2]} : Head(vs)[1] = "read"} \cup ToRead(Tail(vs))
           /\ Once(vs) => Once(Tail(vs)) /\ Head(vs)[2] \notin Listed(Tail(vs))
<1> DEFINE n == Len(vs)
           t == Tail(vs)
           h == Head(vs)
<1>1. n \in Nat \ {0} /\ DOMAIN vs = 1 .. n /\ h = vs[1] /\ 1 \in 1 .. n
    OBVIOUS
<1>2. DOMAIN t = 1 .. n - 1 /\ \A k \in 1 .. n - 1 : t[k] = vs[k + 1]
    <2>1. /\ t \in Seq(V) /\ Len(t) = n - 1
          /\ \A k \in 1 .. Len(t) : t[k] = vs[k + 1]
        BY HeadTailProperties
    <2> QED BY <2>1
<1> HIDE DEF n, t, h
<1>3. \A k \in DOMAIN vs : k = 1 \/ (k - 1 \in DOMAIN t /\ t[k - 1] = vs[k])
    <2> TAKE k \in DOMAIN vs
    <2>1. k = 1 \/ (k - 1 \in 1 .. n - 1 /\ (k - 1) + 1 = k)
        BY <1>1
    <2> QED BY <1>2, <2>1
<1>4. \A k \in DOMAIN t : k + 1 \in DOMAIN vs /\ t[k] = vs[k + 1] /\ k + 1 # 1
    BY <1>1, <1>2
<1>5. Listed(vs) = {h[2]} \cup Listed(t)
    BY <1>1, <1>3, <1>4 DEF Listed
<1>6. ToRead(vs) = {g \in {h[2]} : h[1] = "read"} \cup ToRead(t)
    BY <1>1, <1>3, <1>4 DEF ToRead
<1>7. ASSUME Once(vs) PROVE Once(t) /\ h[2] \notin Listed(t)
    <2>1. ASSUME NEW k \in DOMAIN t, NEW l \in DOMAIN t, t[k][2] = t[l][2] PROVE k = l
        <3>1. k + 1 = l + 1
            BY <1>4, <1>7, <2>1 DEF Once
        <3> QED BY <1>1, <1>2, <3>1
    <2>2. ASSUME NEW k \in DOMAIN t, t[k][2] = h[2] PROVE FALSE
        <3>1. k + 1 = 1
            BY <1>1, <1>4, <1>7, <2>2 DEF Once
        <3> QED BY <1>4, <3>1
    <2> QED BY <2>1, <2>2 DEF Once, Listed
<1> QED BY <1>5, <1>6, <1>7 DEF t, h

\* Each form of a sequence, to visit.
LEMMA VisitsEach ==
    ASSUME NEW D, NEW forms \in Seq(D)
    PROVE  /\ Each("enter", forms) \in Seq({"enter", "read"} \X D)
           /\ Listed(Each("enter", forms)) = ToSet(forms) /\ ToRead(Each("enter", forms)) = {}
           /\ IsInjective(forms) => Once(Each("enter", forms))
<1> DEFINE e == Each("enter", forms)
<1>1. DOMAIN e = DOMAIN forms /\ \A k \in DOMAIN forms : e[k][1] = "enter" /\ e[k][2] = forms[k]
    BY DEF Each
<1>2. e \in Seq({"enter", "read"} \X D)
    BY EachType
<1> HIDE DEF e
<1>3. Listed(e) = ToSet(forms)
    BY <1>1 DEF Listed, ToSet
<1>4. ToRead(e) = {}
    BY <1>1 DEF ToRead
<1>5. IsInjective(forms) => Once(e)
    BY <1>1 DEF IsInjective, Once
<1> QED BY <1>2, <1>3, <1>4, <1>5 DEF e

\* At first the forms of the page's resources are to visit.
LEMMA VisitedFirst ==
    ASSUME NEW p, \E kind \in Pages : p \in kind, EachInOnePlace(p)
    PROVE  Visited(p, {}, Each("enter", p.root))
<1>1. p.root \in Seq(DOMAIN p.forms) /\ IsInjective(p.root)
    BY PageType DEF EachInOnePlace
<1>2. /\ Listed(Each("enter", p.root)) = ToSet(p.root) /\ ToRead(Each("enter", p.root)) = {}
      /\ Once(Each("enter", p.root))
    BY <1>1, VisitsEach
<1>3. Within(p, {}) = {}
    BY DEF Within
<1> QED BY <1>2, <1>3 DEF Visited

\* A form that is entered brings those nested in it, none of which was known.
LEMMA VisitedEnter ==
    ASSUME NEW p, \E kind \in Pages : p \in kind, EachInOnePlace(p), NEW D,
           NEW vs \in Seq({"enter", "read"} \X (DOMAIN p.forms)), vs # <<>>,
           Visited(p, D, vs), NEW f, Head(vs) = <<"enter", f>>, f \in DOMAIN p.forms
    PROVE  Visited(p, D, Each("enter", p.forms[f].nested) \o <<<<"read", f>>>> \o Tail(vs))
<1> DEFINE V == {"enter", "read"} \X (DOMAIN p.forms)
           nested == p.forms[f].nested
           e == Each("enter", nested)
           r == <<<<"read", f>>>>
           t == Tail(vs)
           new == e \o r \o t
<1>1. Head(vs)[1] = "enter" /\ Head(vs)[2] = f /\ "enter" # "read"
    OBVIOUS
<1>2. /\ Listed(vs) = {f} \cup Listed(t) /\ ToRead(vs) = ToRead(t)
      /\ Once(t) /\ f \notin Listed(t)
    <2>1. /\ Listed(vs) = {Head(vs)[2]} \cup Listed(t)
          /\ ToRead(vs) = {g \in {Head(vs)[2]} : Head(vs)[1] = "read"} \cup ToRead(t)
          /\ Once(vs) => Once(t) /\ Head(vs)[2] \notin Listed(t)
        BY VisitsHead
    <2>2. {g \in {Head(vs)[2]} : Head(vs)[1] = "read"} = {}
        BY <1>1
    <2> HIDE DEF t
    <2> QED BY <1>1, <2>1, <2>2 DEF Visited
<1>3. nested \in Seq(DOMAIN p.forms) /\ IsInjective(nested) /\ ToSet(nested) = Nested(p, f)
    BY PageType DEF EachInOnePlace, Nested
<1>4. e \in Seq(V) /\ Listed(e) = Nested(p, f) /\ ToRead(e) = {} /\ Once(e)
    <2> HIDE DEF nested
    <2> QED BY <1>3, VisitsEach
<1>5. r \in Seq(V) /\ Listed(r) = {f} /\ ToRead(r) = {f} /\ Once(r)
    <2>1. DOMAIN r = {1} /\ r[1][1] = "read" /\ r[1][2] = f
        OBVIOUS
    <2>2. r \in Seq(V)
        OBVIOUS
    <2> HIDE DEF r
    <2> QED BY <2>1, <2>2 DEF Listed, ToRead, Once
<1>6. t \in Seq(V)
    BY HeadTailProperties
<1>7. D \cup Listed(vs) = ToSet(p.root) \cup Within(p, D \cup ToRead(vs)) /\ D \cap Listed(vs) = {}
      /\ D \subseteq DOMAIN p.forms
    BY DEF Visited
\* None of those nested in f was known: f was not entered.
<1>8. Nested(p, f) \cap (D \cup Listed(vs)) = {}
    <2>1. f \notin D \cup ToRead(vs)
        <3>1. ToRead(t) \subseteq Listed(t)
            BY DEF ToRead, Listed
        <3> QED BY <1>2, <1>7, <3>1
    <2>2. D \cup ToRead(vs) \subseteq DOMAIN p.forms
        <3>1. ASSUME NEW k \in DOMAIN vs PROVE vs[k][2] \in DOMAIN p.forms
            <4>1. vs[k] \in V
                BY ElementOfSeq
            <4> QED BY <4>1
        <3> QED BY <1>7, <3>1 DEF ToRead
    <2>3. \A g \in DOMAIN p.forms : g # f => Nested(p, f) \cap Nested(p, g) = {}
        BY DEF EachInOnePlace
    <2>4. Nested(p, f) \cap ToSet(p.root) = {}
        BY DEF EachInOnePlace
    <2>5. Nested(p, f) \cap Within(p, D \cup ToRead(vs)) = {}
        BY <2>1, <2>2, <2>3 DEF Within
    <2> QED BY <1>7, <2>4, <2>5
<1> HIDE DEF V, e, r, t, nested
<1> DEFINE er == e \o r
<1>9. er \in Seq(V)
    BY <1>4, <1>5, ConcatProperties
<1>10. Listed(er) = Nested(p, f) \cup {f} /\ ToRead(er) = {f} /\ Once(er)
    <2>1. Listed(e) \cap Listed(r) = {}
        BY <1>2, <1>4, <1>5, <1>8
    <2>2. e \in Seq(V) /\ r \in Seq(V)
        BY <1>4, <1>5
    <2>3. /\ Listed(er) = Listed(e) \cup Listed(r)
          /\ ToRead(er) = ToRead(e) \cup ToRead(r)
          /\ Once(e) /\ Once(r) /\ Listed(e) \cap Listed(r) = {} => Once(er)
        BY <2>2, VisitsConcat
    <2> QED BY <1>4, <1>5, <2>1, <2>3
<1> HIDE DEF er
<1>11. /\ Listed(er \o t) = Nested(p, f) \cup Listed(vs) /\ ToRead(er \o t) = {f} \cup ToRead(vs)
       /\ Once(er \o t)
    <2>1. Listed(er) \cap Listed(t) = {}
        BY <1>2, <1>8, <1>10
    <2>2. /\ Listed(er \o t) = Listed(er) \cup Listed(t) /\ ToRead(er \o t) = ToRead(er) \cup ToRead(t)
          /\ Once(er \o t)
        BY <1>2, <1>6, <1>9, <1>10, <2>1, VisitsConcat
    <2> QED BY <1>2, <1>10, <2>2
<1>12. Within(p, D \cup ToRead(er \o t)) = Within(p, D \cup ToRead(vs)) \cup Nested(p, f)
    BY <1>11 DEF Within
<1>13. Visited(p, D, er \o t)
    BY <1>7, <1>8, <1>11, <1>12 DEF Visited
<1> QED BY <1>13 DEF er, e, r, t, nested

\* The form at the head is read next.
LEMMA VisitedRead ==
    ASSUME NEW p, NEW D, NEW vs \in Seq({"enter", "read"} \X (DOMAIN p.forms)), vs # <<>>,
           Visited(p, D, vs), NEW f, Head(vs) = <<"read", f>>, f \in DOMAIN p.forms
    PROVE  f \notin D /\ Visited(p, D \cup {f}, Tail(vs))
<1>1. Head(vs)[1] = "read" /\ Head(vs)[2] = f
    OBVIOUS
<1>2. /\ Listed(vs) = {f} \cup Listed(Tail(vs)) /\ ToRead(vs) = {f} \cup ToRead(Tail(vs))
      /\ Once(Tail(vs)) /\ f \notin Listed(Tail(vs))
    BY <1>1, VisitsHead DEF Visited
<1>3. D \cup ToRead(vs) = D \cup {f} \cup ToRead(Tail(vs))
    BY <1>2
<1> QED BY <1>2, <1>3 DEF Visited

\* In the end all forms are read.
LEMMA VisitedAll ==
    ASSUME NEW p, EachInOnePlace(p), NEW D, Visited(p, D, <<>>)
    PROVE  D = DOMAIN p.forms
<1>1. Listed(<<>>) = {} /\ ToRead(<<>>) = {}
    BY DEF Listed, ToRead
<1>2. D \in SUBSET DOMAIN p.forms /\ ToSet(p.root) \cup Within(p, D) \subseteq D
    BY <1>1 DEF Visited
<1> QED BY <1>2 DEF EachInOnePlace

-----------------------------------------------------------------------------
(* What was drawn. The names of all that the forms D draw, and of what they  *)
(* drew up to operator i of form f.                                         *)

AllNames(p, D) == UNION {Drawn(g, p.forms[g].ops) : g \in D}
NamesUpTo(p, D, f, i) == {n \in AllNames(p, D) : n[1] = f => n[2] < i}

\* The chunks bear those names, each once.
Drew(p, D, f, i, cs) ==
    /\ f # None => f \in D
    /\ {cs[k].name : k \in DOMAIN cs} = NamesUpTo(p, D, f, i)
    /\ \A k, l \in DOMAIN cs : cs[k].name = cs[l].name => k = l

\* The parts of a name.
LEMMA NameParts ==
    ASSUME NEW p, NEW D, \A g \in D : p.forms[g].ops \in Streams, NEW n
    PROVE  n \in AllNames(p, D) <=>
               \E g \in D : \E j \in 1 .. Len(p.forms[g].ops) :
                   \E k \in 1 .. Shown(Strings(p.forms[g].ops, j)) : n = <<g, j, k>>
<1>1. \A g \in D : DOMAIN p.forms[g].ops = 1 .. Len(p.forms[g].ops)
    BY DEF Streams
<1>2. ASSUME NEW g \in D
      PROVE  n \in Drawn(g, p.forms[g].ops) <=>
                 \E j \in 1 .. Len(p.forms[g].ops) :
                     \E k \in 1 .. Shown(Strings(p.forms[g].ops, j)) : n = <<g, j, k>>
    <2> DEFINE s == p.forms[g].ops
    <2>1. DOMAIN s = 1 .. Len(s)
        BY <1>1
    <2> HIDE DEF s
    <2>2. n \in Drawn(g, s) <=>
              \E j \in DOMAIN s : n \in {<<g, j, k>> : k \in 1 .. Shown(Strings(s, j))}
        BY DEF Drawn
    <2>3. \A j \in DOMAIN s : n \in {<<g, j, k>> : k \in 1 .. Shown(Strings(s, j))} <=>
              \E k \in 1 .. Shown(Strings(s, j)) : n = <<g, j, k>>
        OBVIOUS
    <2> QED BY <2>1, <2>2, <2>3 DEF s
<1>3. n \in AllNames(p, D) <=> \E g \in D : n \in Drawn(g, p.forms[g].ops)
    BY DEF AllNames
<1> QED BY <1>2, <1>3

LEMMA DrewNothing ==
    ASSUME NEW p
    PROVE  Drew(p, {}, None, 1, <<>>)
<1>1. AllNames(p, {}) = {} /\ DOMAIN <<>> = {}
    BY DEF AllNames
<1> QED BY <1>1 DEF Drew, NamesUpTo

\* A form that is about to be read has drawn nothing,
LEMMA DrewFirst ==
    ASSUME NEW p, \E kind \in Pages : p \in kind, NEW D \in SUBSET DOMAIN p.forms, NEW i, NEW cs,
           Drew(p, D, None, i, cs), NEW f \in DOMAIN p.forms, f \notin D
    PROVE  Drew(p, D \cup {f}, f, 1, cs)
<1>1. None \notin DOMAIN p.forms /\ \A g \in D \cup {f} : p.forms[g].ops \in Streams
    BY PageType
<1>2. \A g \in D : p.forms[g].ops \in Streams
    BY <1>1
<1>3. ASSUME NEW n \in AllNames(p, D) PROVE n[1] \in D
    BY <1>2, <1>3, NameParts
<1>4. AllNames(p, D \cup {f}) = AllNames(p, D) \cup Drawn(f, p.forms[f].ops)
    BY DEF AllNames
<1>5. ASSUME NEW n \in Drawn(f, p.forms[f].ops) PROVE n[1] = f /\ ~ (n[2] < 1)
    <2>1. DOMAIN p.forms[f].ops = 1 .. Len(p.forms[f].ops) /\ Len(p.forms[f].ops) \in Nat
        BY <1>1 DEF Streams
    <2>2. PICK j \in 1 .. Len(p.forms[f].ops) :
              \E k \in 1 .. Shown(Strings(p.forms[f].ops, j)) : n = <<f, j, k>>
        BY <2>1 DEF Drawn
    <2>3. n[1] = f /\ n[2] = j
        BY <2>2
    <2> QED BY <2>1, <2>2, <2>3
<1>6. NamesUpTo(p, D \cup {f}, f, 1) = NamesUpTo(p, D, None, i)
    <2>1. NamesUpTo(p, D, None, i) = AllNames(p, D)
        BY <1>1, <1>3 DEF NamesUpTo
    <2>2. NamesUpTo(p, D \cup {f}, f, 1) = AllNames(p, D)
        BY <1>3, <1>4, <1>5 DEF NamesUpTo
    <2> QED BY <2>1, <2>2
<1> QED BY <1>6 DEF Drew

\* at the end of its stream it has drawn all,
LEMMA DrewLast ==
    ASSUME NEW p, \E kind \in Pages : p \in kind, NEW D \in SUBSET DOMAIN p.forms,
           NEW i \in Nat, NEW cs, NEW f \in D, Drew(p, D, f, i, cs), i > Len(p.forms[f].ops)
    PROVE  Drew(p, D, None, i, cs)
<1>1. None \notin DOMAIN p.forms /\ \A g \in D : p.forms[g].ops \in Streams
    BY PageType
<1>2. Len(p.forms[f].ops) \in Nat
    BY <1>1 DEF Streams
<1>3. ASSUME NEW n \in AllNames(p, D) PROVE n[1] # None /\ (n[1] = f => n[2] < i)
    <2>1. PICK g \in D : \E j \in 1 .. Len(p.forms[g].ops) :
              \E k \in 1 .. Shown(Strings(p.forms[g].ops, j)) : n = <<g, j, k>>
        BY <1>1, <1>3, NameParts
    <2>2. PICK j \in 1 .. Len(p.forms[g].ops) : n[1] = g /\ n[2] = j
        BY <2>1
    <2>3. g # None
        BY <1>1
    <2> QED BY <1>2, <2>2, <2>3
<1>4. NamesUpTo(p, D, None, i) = NamesUpTo(p, D, f, i)
    BY <1>3 DEF NamesUpTo
<1> QED BY <1>4 DEF Drew

\* and between, an operator adds what it shows.
LEMMA DrewMore ==
    ASSUME NEW p, \E kind \in Pages : p \in kind, NEW D \in SUBSET DOMAIN p.forms,
           NEW f \in D, NEW i \in 1 .. Len(p.forms[f].ops), NEW R, NEW cs \in Seq(R),
           Drew(p, D, f, i, cs), NEW m,
           NEW shown \in Nat, shown = Shown(Strings(p.forms[f].ops, i)),
           NEW new \in Seq(R), Len(new) = shown,
           \A k \in 1 .. shown : new[k] = Chunk(<<f, i, k>>, m)
    PROVE  Drew(p, D, f, i + 1, cs \o new)
<1> DEFINE s == p.forms[f].ops
           a == Len(cs)
           all == cs \o new
           Names1 == {<<f, i, k>> : k \in 1 .. shown}
<1>1. (\A g \in D : p.forms[g].ops \in Streams) /\ f # None
    BY PageType
<1>2. a \in Nat /\ DOMAIN cs = 1 .. a /\ i \in Nat
    <2>1. Len(s) \in Nat
        BY <1>1 DEF Streams
    <2> QED BY <2>1
<1>3. /\ all \in Seq(R) /\ Len(all) = a + shown
      /\ \A k \in 1 .. a + shown : all[k] = IF k <= a THEN cs[k] ELSE new[k - a]
    <2>1. /\ cs \o new \in Seq(R) /\ Len(cs \o new) = Len(cs) + Len(new)
          /\ \A k \in 1 .. Len(cs) + Len(new) :
                (cs \o new)[k] = IF k <= Len(cs) THEN cs[k] ELSE new[k - Len(cs)]
        BY ConcatProperties, ZenonT(30)
    <2> QED BY <2>1
<1>4. DOMAIN all = 1 .. a + shown
    BY <1>3
<1>5. \A k \in 1 .. shown : new[k].name = <<f, i, k>>
    BY DEF Chunk
<1> HIDE DEF all, a
<1>6. ASSUME NEW k \in DOMAIN all
      PROVE  \/ k \in 1 .. a /\ all[k].name = cs[k].name
             \/ k - a \in 1 .. shown /\ all[k].name = <<f, i, k - a>>
    <2>1. CASE k <= a
        <3>1. k \in 1 .. a /\ all[k] = cs[k]
            BY <1>2, <1>3, <1>4, <2>1
        <3> QED BY <3>1
    <2>2. CASE ~ (k <= a)
        <3>1. k - a \in 1 .. shown /\ all[k] = new[k - a]
            BY <1>2, <1>3, <1>4, <2>2
        <3> QED BY <1>5, <3>1
    <2> QED BY <2>1, <2>2
<1>7. ASSUME NEW k \in 1 .. a PROVE k \in DOMAIN all /\ all[k].name = cs[k].name
    <2>1. k \in 1 .. a + shown /\ k <= a
        BY <1>2
    <2> QED BY <1>3, <1>4, <2>1
<1>8. ASSUME NEW k \in 1 .. shown PROVE a + k \in DOMAIN all /\ all[a + k].name = <<f, i, k>>
    <2>1. a + k \in 1 .. a + shown /\ ~ (a + k <= a) /\ (a + k) - a = k
        BY <1>2
    <2> QED BY <1>3, <1>4, <1>5, <2>1
<1>9. {all[k].name : k \in DOMAIN all} = {cs[k].name : k \in DOMAIN cs} \cup Names1
    <2> DEFINE Old == {cs[k].name : k \in 1 .. a}
    <2>1. ASSUME NEW k \in DOMAIN all PROVE all[k].name \in Old \cup Names1
        <3>1. CASE k \in 1 .. a /\ all[k].name = cs[k].name
            BY <3>1
        <3>2. CASE k - a \in 1 .. shown /\ all[k].name = <<f, i, k - a>>
            BY <3>2
        <3> QED BY <1>6, <3>1, <3>2
    <2>2. ASSUME NEW n \in Old \cup Names1 PROVE \E k \in DOMAIN all : n = all[k].name
        <3>1. CASE n \in Old
            BY <1>7, <3>1
        <3>2. CASE n \in Names1
            BY <1>8, <3>2
        <3> QED BY <3>1, <3>2
    <2> HIDE DEF Names1
    <2> QED BY <1>2, <2>1, <2>2
<1>10. NamesUpTo(p, D, f, i + 1) = NamesUpTo(p, D, f, i) \cup Names1
    <2>1. ASSUME NEW n \in AllNames(p, D), n[1] = f => n[2] < i + 1
          PROVE  (n[1] = f => n[2] < i) \/ n \in Names1
        <3>1. PICK g \in D : \E j \in 1 .. Len(p.forms[g].ops) :
                  \E k \in 1 .. Shown(Strings(p.forms[g].ops, j)) : n = <<g, j, k>>
            <4>1. \A g \in D : p.forms[g].ops \in Streams
                BY <1>1
            <4>2. n \in AllNames(p, D)
                OBVIOUS
            <4> QED BY <4>1, <4>2, NameParts
        <3>2. PICK j \in 1 .. Len(p.forms[g].ops) :
                  \E k \in 1 .. Shown(Strings(p.forms[g].ops, j)) : n = <<g, j, k>>
            BY <3>1
        <3>3. n[1] = g /\ n[2] = j
            BY <3>2
        <3>4. CASE g = f /\ j = i
            BY <3>2, <3>4
        <3>5. CASE g = f /\ j # i
            <4>1. j < i + 1
                BY <2>1, <3>3, <3>5
            <4>2. Len(p.forms[g].ops) \in Nat
                BY <1>1 DEF Streams
            <4>3. j < i
                BY <1>2, <3>5, <4>1, <4>2
            <4> QED BY <3>3, <4>3
        <3>6. CASE g # f
            BY <3>3, <3>6
        <3> QED BY <3>4, <3>5, <3>6
    <2>2. ASSUME NEW k \in 1 .. shown
          PROVE  <<f, i, k>> \in AllNames(p, D) /\ <<f, i, k>>[1] = f /\ <<f, i, k>>[2] = i
        BY <1>1, NameParts
    <2>3. \A n \in AllNames(p, D) : (n[1] = f => n[2] < i) => (n[1] = f => n[2] < i + 1)
        <3> TAKE n \in AllNames(p, D)
        <3>1. PICK g \in D : \E j \in 1 .. Len(p.forms[g].ops) :
                  \E k \in 1 .. Shown(Strings(p.forms[g].ops, j)) : n = <<g, j, k>>
            BY <1>1, NameParts
        <3>2. PICK j \in 1 .. Len(p.forms[g].ops) : n[1] = g /\ n[2] = j
            BY <3>1
        <3>3. n[2] \in Int
            BY <3>2
        <3> QED BY <1>2, <3>3
    <2>4. i < i + 1
        BY <1>2
    <2> QED BY <2>1, <2>2, <2>3, <2>4 DEF NamesUpTo
<1>11. /\ {cs[k].name : k \in DOMAIN cs} = NamesUpTo(p, D, f, i)
       /\ \A k, l \in DOMAIN cs : cs[k].name = cs[l].name => k = l
    BY DEF Drew
\* None of the new names was there.
<1>12. ASSUME NEW k \in 1 .. a, NEW l \in 1 .. shown PROVE cs[k].name # <<f, i, l>>
    <2>1. cs[k].name \in NamesUpTo(p, D, f, i)
        BY <1>2, <1>11
    <2>2. <<f, i, l>>[1] = f /\ ~ (<<f, i, l>>[2] < i)
        BY <1>2
    <2> QED BY <2>1, <2>2 DEF NamesUpTo
<1>13. ASSUME NEW k \in DOMAIN all, NEW l \in DOMAIN all, all[k].name = all[l].name PROVE k = l
    <2>1. CASE k \in 1 .. a /\ all[k].name = cs[k].name
        <3>1. l \in 1 .. a /\ all[l].name = cs[l].name
            BY <1>6, <1>12, <1>13, <2>1
        <3> QED BY <1>2, <1>11, <1>13, <2>1, <3>1
    <2>2. CASE k - a \in 1 .. shown /\ all[k].name = <<f, i, k - a>>
        <3>1. l - a \in 1 .. shown /\ all[l].name = <<f, i, l - a>>
            BY <1>6, <1>12, <1>13, <2>2
        <3>2. <<f, i, k - a>> = <<f, i, l - a>>
            BY <1>13, <2>2, <3>1
        <3>3. \A u, v : <<f, i, u>> = <<f, i, v>> => u = v
            OBVIOUS
        <3>4. k - a = l - a
            BY <3>2, <3>3
        <3> QED BY <1>2, <1>4, <3>4
    <2> QED BY <1>6, <2>1, <2>2
<1>14. Drew(p, D, f, i + 1, all)
    BY <1>1, <1>9, <1>10, <1>11, <1>13 DEF Drew
<1> QED BY <1>14 DEF all

LEMMA StringsOf ==
    ASSUME NEW s, NEW i
    PROVE  /\ (\E op \in {"Tj", "TJ", "'", "\""} : Good(s, i, op)) => Strings(s, i) = s[i].strs
           /\ ~ (\E op \in {"Tj", "TJ", "'", "\""} : Good(s, i, op)) => Strings(s, i) = <<>>
BY Zenon DEF Strings

\* An operator shows some number of strings.
LEMMA ShownType ==
    ASSUME NEW s \in Streams, NEW i \in 1 .. Len(s)
    PROVE  Shown(Strings(s, i)) \in Nat
<1> DEFINE strs == Strings(s, i)
<1>1. strs \in Seq(STRING)
    <2>1. s[i].strs \in Seq(STRING)
        BY NumbersOf
    <2>2. strs = s[i].strs \/ strs = <<>>
        BY StringsOf
    <2>3. <<>> \in Seq(STRING)
        OBVIOUS
    <2> HIDE DEF strs
    <2> QED BY <2>1, <2>2, <2>3, Zenon
<1> HIDE DEF strs
<1>2. Len(strs) \in Nat /\ DOMAIN strs = 1 .. Len(strs)
    BY <1>1
<1>3. IsFiniteSet(1 .. Len(strs))
    BY <1>2, FS_Interval
<1>4. {j \in DOMAIN strs : IsText(strs[j])} \subseteq 1 .. Len(strs)
    BY <1>2
<1>5. IsFiniteSet({j \in DOMAIN strs : IsText(strs[j])})
    BY <1>3, <1>4, FS_Subset
<1> QED BY <1>5, FS_CardinalityType DEF strs, Shown

-----------------------------------------------------------------------------
(* The invariant: the chunks are what was drawn so far, and the text is made *)
(* of them.                                                                 *)

TreeAt(p, vs, f, i, cs) ==
    EachInOnePlace(p) => \E D : Visited(p, D, vs) /\ Drew(p, D, f, i, cs)

TreeInv ==
    \A p, vs, f, i, cs :
        p = page /\ vs = visits /\ f = form /\ i = next /\ cs = chunks => TreeAt(p, vs, f, i, cs)

\* Nothing changes once there is a text.
TextInv ==
    text # None /\ page.plain = <<>> =>
        form = None /\ visits = <<>> /\ \A cs : cs = chunks => text = chunksToText(cs)

DrawnInv == TreeInv /\ TextInv

LEMMA InitDrawn == Init => DrawnInv
<1> SUFFICES ASSUME Init PROVE DrawnInv
    OBVIOUS
<1>1. \E kind \in Pages : page \in kind
    BY DEF Init
<1>2. ASSUME NEW p, p = page, EachInOnePlace(p)
      PROVE  Visited(p, {}, Each("enter", p.root)) /\ Drew(p, {}, None, 1, <<>>)
    BY <1>1, <1>2, VisitedFirst, DrewNothing
<1>3. TreeInv
    <2> SUFFICES ASSUME NEW p, p = page, EachInOnePlace(p)
                 PROVE  \E D : Visited(p, D, Each("enter", p.root)) /\ Drew(p, D, None, 1, <<>>)
        BY DEF TreeInv, TreeAt, Init
    <2> QED BY <1>2
<1>4. TextInv
    BY DEF TextInv, Init
<1> QED BY <1>3, <1>4 DEF DrawnInv

\* What an operator adds to the chunks: one for each string it shows.
Added(cs, f, i, n, m) == cs \o [k \in 1 .. n |-> Chunk(<<f, i, k>>, m)]

LEMMA OperatorAdds ==
    ASSUME InterpInv,
           \/ Save \/ Restore \/ Concat \/ BeginText \/ SetMatrix
           \/ Move \/ NextLine \/ Show \/ ShowOnNextLine \/ Skip
    PROVE  \E m : chunks' = Added(chunks, form, next, Shown(Strings(Stream, next)), m)
<1> DEFINE strs == Strings(Stream, next)
           Shows == \E op \in {"Tj", "TJ", "'", "\""} : Good(Stream, next, op)
<1>1. chunks \in Seq(Records)
    BY DEF InterpInv, TypeOK
<1>2. \A op : Good(Stream, next, op) <=> Now.op = op /\ Now.n = Arity[op]
    BY DEF Good, Is, Now
<1>3. ASSUME ~ Shows, chunks' = chunks PROVE \E m : chunks' = Added(chunks, form, next, Shown(strs), m)
    <2>1. strs = <<>> /\ DOMAIN <<>> = {}
        <3>1. strs = <<>>
            BY <1>3, StringsOf
        <3> QED BY <3>1
    <2>2. {j \in DOMAIN strs : IsText(strs[j])} = {}
        BY <2>1
    <2>3. Shown(strs) = 0
        BY <2>2, FS_EmptySet DEF Shown
    <2>4. [k \in 1 .. 0 |-> Chunk(<<form, next, k>>, identMat)] = <<>>
        OBVIOUS
    <2>5. chunks \o <<>> = chunks
        BY <1>1
    <2>6. chunks' = Added(chunks, form, next, 0, identMat)
        BY <1>3, <2>4, <2>5 DEF Added
    <2> QED BY <2>3, <2>6
<1>4. ASSUME Shows, NEW m, Add(Now.strs, tm) \/ Add(Now.strs, tm')
      PROVE  \E x : chunks' = Added(chunks, form, next, Shown(strs), x)
    <2>1. strs = Now.strs
        BY <1>4, StringsOf DEF Now
    <2>2. CASE Add(Now.strs, tm)
        <3>1. chunks' = Added(chunks, form, next, Shown(strs), Mul(tm, ctm))
            BY <2>1, <2>2 DEF Add, Added
        <3> QED BY <3>1
    <2>3. CASE Add(Now.strs, tm')
        <3>1. chunks' = Added(chunks, form, next, Shown(strs), Mul(tm', ctm))
            BY <2>1, <2>3 DEF Add, Added
        <3> QED BY <3>1
    <2> QED BY <1>4, <2>2, <2>3
<1>5. ASSUME Now.op \notin {"Tj", "TJ", "'", "\""} PROVE ~ Shows
    BY <1>2, <1>5
<1> HIDE DEF strs, Shows
<1>6. CASE Save \/ Restore
    BY <1>3, <1>5, <1>6 DEF Save, Restore, Reads, strs
<1>7. CASE Concat \/ SetMatrix
    BY <1>3, <1>5, <1>7 DEF Concat, SetMatrix, ReadsWith, Reads, strs
<1>8. CASE BeginText
    BY <1>3, <1>5, <1>8 DEF BeginText, Reads, strs
<1>9. CASE Move
    BY <1>3, <1>5, <1>9 DEF Move, ReadsWith, Reads, strs
<1>10. CASE NextLine
    BY <1>3, <1>5, <1>10 DEF NextLine, Reads, strs
<1>11. CASE Show
    <2>1. Now.op \in {"Tj", "TJ"} /\ Now.n = 1 /\ Add(Now.strs, tm)
        BY <1>11 DEF Show, ReadsWith, Reads
    <2>2. Shows
        BY <1>2, <2>1, Arities DEF Shows
    <2> QED BY <1>4, <2>1, <2>2 DEF strs
<1>12. CASE ShowOnNextLine
    <2>1. /\ \/ Now.op = "'" /\ Now.n = 1
             \/ Now.op = "\"" /\ Now.n = 3
          /\ Add(Now.strs, tm')
        BY <1>12 DEF ShowOnNextLine, ReadsWith, Reads
    <2>2. Shows
        BY <1>2, <2>1, Arities DEF Shows
    <2> QED BY <1>4, <2>1, <2>2 DEF strs
<1>13. CASE Skip
    <2>1. /\ \/ Now.op \notin Known
             \/ Now.op \in DOMAIN Arity /\ Now.n # Arity[Now.op]
             \/ Now.op = "Q"
          /\ chunks' = chunks
        BY <1>13 DEF Skip
    <2>2. /\ DOMAIN Arity = {"cm", "Tm", "Td", "TD", "Tj", "TJ", "'", "\""}
          /\ Known = DOMAIN Arity \cup {"q", "Q", "BT", "T*"}
        BY DEF Arity, Known, Numeric
    <2>3. ~ Shows
        BY <1>2, <2>1, <2>2 DEF Shows
    <2> QED BY <1>3, <2>1, <2>3 DEF strs
<1> QED BY <1>6, <1>7, <1>8, <1>9, <1>10, <1>11, <1>12, <1>13 DEF strs

\* An operator adds what its form draws at its place in the stream.
LEMMA TreeOperator ==
    ASSUME InterpInv, TreeInv, form # None, next =< Len(Stream),
           next' = next + 1, UNCHANGED <<page, visits, form, text>>,
           NEW m, chunks' = Added(chunks, form, next, Shown(Strings(Stream, next)), m)
    PROVE  TreeInv'
<1> SUFFICES ASSUME NEW p, p = page, EachInOnePlace(p)
             PROVE  \E D : Visited(p, D, visits') /\ Drew(p, D, form', next', chunks')
    BY DEF TreeInv, TreeAt
<1> DEFINE vs == visits
           f == form
           i == next
           cs == chunks
           s == p.forms[f].ops
           n == Shown(Strings(s, i))
           new == [k \in 1 .. n |-> Chunk(<<f, i, k>>, m)]
           R == Records \cup {new[k] : k \in 1 .. n}
<1>1. PICK D : Visited(p, D, vs) /\ Drew(p, D, f, i, cs)
    BY DEF TreeInv, TreeAt
<1>2. /\ (\E kind \in Pages : p \in kind) /\ D \in SUBSET DOMAIN p.forms /\ f \in D
      /\ s \in Streams /\ i \in 1 .. Len(s) /\ Stream = s
    <2>1. \E kind \in Pages : p \in kind
        BY DEF InterpInv
    <2>2. D \in SUBSET DOMAIN p.forms /\ f \in D
        BY <1>1 DEF Visited, Drew
    <2>3. Stream = s
        BY DEF Stream
    <2>4. s \in Streams /\ i \in 1 .. Len(s)
        BY <2>3, Reading
    <2> QED BY <2>1, <2>2, <2>3, <2>4
<1>3. chunks \in Seq(Records)
    BY DEF InterpInv, TypeOK
<1>4. n \in Nat
    BY <1>2, ShownType
<1>5. chunks' = cs \o new
    BY <1>2 DEF Added
<1> HIDE DEF n
<1>6. new \in Seq(R) /\ Len(new) = n /\ \A k \in 1 .. n : new[k] = Chunk(<<f, i, k>>, m)
    <2>1. \A k \in 1 .. n : new[k] = Chunk(<<f, i, k>>, m)
        OBVIOUS
    <2>2. new \in [1 .. n -> R]
        <3>1. DOMAIN new = 1 .. n
            OBVIOUS
        <3> HIDE DEF new
        <3>2. \A k \in 1 .. n : new[k] \in R
            OBVIOUS
        <3>3. new = [k \in 1 .. n |-> new[k]]
            BY <3>1 DEF new
        <3> QED BY <3>2, <3>3
    <2> HIDE DEF new, R
    <2> QED BY <1>4, <2>1, <2>2
<1>7. cs \in Seq(R)
    BY <1>3
<1> HIDE DEF new, R, cs
<1>8. Drew(p, D, f, i + 1, cs \o new)
    BY <1>1, <1>2, <1>4, <1>6, <1>7, DrewMore DEF n
<1>9. Drew(p, D, form', next', chunks')
    BY <1>5, <1>8
<1> QED BY <1>1, <1>9

\* Going from form to form reads each once.
LEMMA TreeVisit ==
    ASSUME InterpInv, TreeInv, EnterForm \/ ReadForm \/ EndForm
    PROVE  TreeInv'
<1> SUFFICES ASSUME NEW p, p = page, EachInOnePlace(p)
             PROVE  \E D : Visited(p, D, visits') /\ Drew(p, D, form', next', chunks')
    <2>1. page' = page
        BY DEF EnterForm, ReadForm, EndForm
    <2> QED BY <2>1 DEF TreeInv, TreeAt
<1>1. PICK D : Visited(p, D, visits) /\ Drew(p, D, form, next, chunks)
    BY DEF TreeInv, TreeAt
<1>2. (\E kind \in Pages : p \in kind) /\ D \in SUBSET DOMAIN p.forms
    BY <1>1 DEF InterpInv, Visited
<1> DEFINE V == {"enter", "read"} \X (DOMAIN p.forms)
<1>3. visits \in Seq(V) /\ next \in Nat /\ form \in DOMAIN p.forms \cup {None}
    BY DEF InterpInv, TypeOK
<1>4. ASSUME NEW what, Visiting(what)
      PROVE  /\ visits # <<>> /\ form = None
             /\ Head(visits) = <<what, Head(visits)[2]>> /\ Head(visits)[2] \in DOMAIN p.forms
    <2>1. visits # <<>> /\ form = None /\ Head(visits)[1] = what
        BY <1>4 DEF Visiting, Between
    <2>2. Head(visits) \in V
        BY <1>3, <2>1, HeadTailProperties
    <2>3. Head(visits) = <<Head(visits)[1], Head(visits)[2]>> /\ Head(visits)[2] \in DOMAIN p.forms
        BY <2>2
    <2> QED BY <2>1, <2>3
<1> DEFINE f == Head(visits)[2]
<1>5. CASE EnterForm
    <2>1. /\ visits' = Each("enter", p.forms[f].nested) \o <<<<"read", f>>>> \o Tail(visits)
          /\ form' = form /\ next' = next /\ chunks' = chunks
        BY <1>5 DEF EnterForm
    <2>2. visits # <<>> /\ Head(visits) = <<"enter", f>> /\ f \in DOMAIN p.forms
        BY <1>4, <1>5 DEF EnterForm
    <2> DEFINE vs == visits
    <2>3. vs \in Seq(V) /\ vs # <<>> /\ Visited(p, D, vs) /\ Head(vs) = <<"enter", f>>
        BY <1>1, <1>3, <2>2
    <2>4. Visited(p, D, Each("enter", p.forms[f].nested) \o <<<<"read", f>>>> \o Tail(vs))
        <3> HIDE DEF vs, f
        <3> QED BY <1>2, <2>2, <2>3, VisitedEnter
    <2> QED BY <1>1, <2>1, <2>4
<1>6. CASE ReadForm
    <2>1. visits' = Tail(visits) /\ form' = f /\ next' = 1 /\ chunks' = chunks
        BY <1>6 DEF ReadForm
    <2>2. visits # <<>> /\ Head(visits) = <<"read", f>> /\ f \in DOMAIN p.forms /\ form = None
        BY <1>4, <1>6 DEF ReadForm
    <2>3. f \notin D /\ Visited(p, D \cup {f}, Tail(visits))
        <3> HIDE DEF f
        <3> QED BY <1>1, <1>3, <2>2, VisitedRead
    <2>4. Drew(p, D, None, next, chunks)
        BY <1>1, <2>2
    <2>5. Drew(p, D \cup {f}, f, 1, chunks)
        <3> HIDE DEF f
        <3> QED BY <1>2, <2>2, <2>3, <2>4, DrewFirst
    <2> QED BY <2>1, <2>3, <2>5
<1>7. CASE EndForm
    <2>1. /\ form # None /\ next > Len(p.forms[form].ops)
          /\ form' = None /\ visits' = visits /\ next' = next /\ chunks' = chunks
        BY <1>7 DEF EndForm, Stream
    <2>2. form \in D
        BY <1>1, <2>1 DEF Drew
    <2>3. Drew(p, D, None, next, chunks)
        BY <1>1, <1>2, <1>3, <2>1, <2>2, DrewLast
    <2> QED BY <1>1, <2>1, <2>3
<1> QED BY <1>5, <1>6, <1>7

LEMMA NextDrawn == InterpInv /\ DrawnInv /\ [Next]_vars => DrawnInv'
<1> SUFFICES ASSUME InterpInv, DrawnInv, [Next]_vars PROVE DrawnInv'
    OBVIOUS
<1>1. TreeInv /\ TextInv
    BY DEF DrawnInv
\* Before there is a text there is none to speak of.
<1>2. ASSUME text = None, text' = text PROVE TextInv'
    BY <1>2 DEF TextInv
\* A text that was read ends everything.
<1>3. ASSUME text # None, page.plain = <<>> PROVE form = None /\ text # None
    BY <1>1, <1>3 DEF TextInv
<1>4. ASSUME UNCHANGED <<page, visits, form, next, chunks>> PROVE TreeInv'
    BY <1>1, <1>4 DEF TreeInv
<1>5. CASE TakePlainText
    <2>1. page' = page /\ page.plain # <<>> /\ UNCHANGED <<page, visits, form, next, chunks>>
        BY <1>5, <1>1 DEF TakePlainText, Between
    <2> QED BY <1>4, <2>1 DEF TextInv, DrawnInv
<1>6. CASE Finish
    <2>1. /\ form = None /\ visits = <<>> /\ text' = chunksToText(chunks)
          /\ UNCHANGED <<page, visits, form, next, chunks>>
        BY <1>6 DEF Finish, Between
    <2>2. TextInv'
        BY <2>1 DEF TextInv
    <2> QED BY <1>4, <2>1, <2>2 DEF DrawnInv
<1>7. CASE EnterForm \/ ReadForm \/ EndForm
    <2>1. TreeInv'
        BY <1>1, <1>7, TreeVisit
    <2>2. text' = text /\ page' = page
        BY <1>7 DEF EnterForm, ReadForm, EndForm
    <2>3. text # None => page.plain # <<>>
        BY <1>3, <1>7 DEF EnterForm, ReadForm, EndForm, Visiting, Between
    <2> QED BY <2>1, <2>2, <2>3 DEF TextInv, DrawnInv
<1>8. CASE \/ Save \/ Restore \/ Concat \/ BeginText \/ SetMatrix
           \/ Move \/ NextLine \/ Show \/ ShowOnNextLine \/ Skip
    <2>1. /\ form # None /\ next =< Len(Stream)
          /\ next' = next + 1 /\ UNCHANGED <<page, visits, form, text>>
        BY <1>8 DEF Save, Restore, Concat, BeginText, SetMatrix, Move, NextLine, Show,
                    ShowOnNextLine, Skip, Reads, ReadsWith
    <2>2. \E m : chunks' = Added(chunks, form, next, Shown(Strings(Stream, next)), m)
        BY <1>8, OperatorAdds
    <2>3. TreeInv'
        BY <1>1, <2>1, <2>2, TreeOperator
    <2>4. text # None => page.plain # <<>>
        BY <1>3, <2>1
    <2> QED BY <2>1, <2>3, <2>4 DEF TextInv, DrawnInv
<1>9. CASE UNCHANGED vars
    <2>1. UNCHANGED <<page, visits, form, next, chunks, text>>
        BY <1>9 DEF vars
    <2>2. TextInv'
        BY <1>1, <2>1 DEF TextInv
    <2> QED BY <1>4, <2>1, <2>2 DEF DrawnInv
<1> QED BY <1>5, <1>6, <1>7, <1>8, <1>9 DEF Next

PlaceIn(t, name) == SelectInSeq(t, LAMBDA w : w = name)

\* What is told of chunks with different names.
LEMMA ToldOnce ==
    ASSUME NEW N, Newline \notin N, NEW cs \in Seq(Pieces(N)), NEW t \in Seq(N \cup {Newline}),
           Told(cs, t), \A k, l \in DOMAIN cs : cs[k].name = cs[l].name => k = l
    PROVE  /\ ToSet(t) \ {Newline} = {cs[k].name : k \in DOMAIN cs}
           /\ \A i, j \in DOMAIN t : t[i] = t[j] /\ t[i] # Newline => i = j
           /\ \A k, l \in DOMAIN cs :
                 k < l /\ SamePlace(cs[k], cs[l]) =>
                     PlaceIn(t, cs[k].name) < PlaceIn(t, cs[l].name)
<1>1. PICK p : Tells(p, cs, t)
    BY DEF Told
<1> DEFINE n == Len(cs)
           m == Len(t)
<1>2. n \in Nat /\ m \in Nat /\ DOMAIN cs = 1 .. n /\ DOMAIN t = 1 .. m
    OBVIOUS
<1>3. /\ p \in [1 .. n -> 1 .. m]
      /\ \A k, l \in 1 .. n : k < l => p[k] # p[l] /\ (SamePlace(cs[k], cs[l]) => p[k] < p[l])
      /\ \A k \in 1 .. n : t[p[k]] = cs[k].name
      /\ \A i \in 1 .. m : t[i] = Newline \/ \E k \in 1 .. n : p[k] = i
    BY <1>1 DEF Tells, Stable
<1>4. \A k \in 1 .. n : cs[k].name \in N /\ cs[k].name # Newline
    <2> TAKE k \in 1 .. n
    <2>1. cs[k] \in Pieces(N)
        BY <1>2
    <2> QED BY <2>1 DEF Pieces
<1>5. \A k \in 1 .. n : p[k] \in 1 .. m /\ t[p[k]] = cs[k].name
    BY <1>3
<1>6. \A k, l \in 1 .. n : cs[k].name = cs[l].name => k = l
    BY <1>2
<1>7. ASSUME NEW i \in 1 .. m, t[i] # Newline PROVE \E k \in 1 .. n : p[k] = i /\ t[i] = cs[k].name
    BY <1>3, <1>7
<1> HIDE DEF n, m
<1>8. ToSet(t) \ {Newline} = {cs[k].name : k \in DOMAIN cs}
    <2>1. ASSUME NEW w \in ToSet(t), w # Newline PROVE \E k \in DOMAIN cs : w = cs[k].name
        <3>1. PICK i \in 1 .. m : w = t[i]
            BY <1>2 DEF ToSet
        <3> QED BY <1>2, <1>7, <2>1, <3>1
    <2>2. ASSUME NEW k \in DOMAIN cs PROVE cs[k].name \in ToSet(t) /\ cs[k].name # Newline
        BY <1>2, <1>4, <1>5 DEF ToSet
    <2> QED BY <2>1, <2>2
<1>9. ASSUME NEW i \in 1 .. m, NEW j \in 1 .. m, t[i] = t[j], t[i] # Newline PROVE i = j
    <2>1. PICK k \in 1 .. n : p[k] = i /\ t[i] = cs[k].name
        BY <1>7, <1>9
    <2>2. PICK l \in 1 .. n : p[l] = j /\ t[j] = cs[l].name
        BY <1>7, <1>9
    <2> QED BY <1>6, <1>9, <2>1, <2>2
<1>10. ASSUME NEW k \in 1 .. n PROVE PlaceIn(t, cs[k].name) = p[k]
    <2> DEFINE I == {i \in 1 .. m : t[i] = cs[k].name}
    <2>1. I = {p[k]}
        BY <1>4, <1>5, <1>9
    <2>2. PlaceIn(t, cs[k].name) = IF I # {} THEN Min(I) ELSE 0
        BY DEF PlaceIn, SelectInSeq, m
    <2>3. p[k] \in Nat
        BY <1>5
    <2> HIDE DEF I
    <2>4. Min(I) = p[k]
        <3>1. I \subseteq Nat /\ I # {}
            BY <2>1, <2>3
        <3>2. Min(I) \in I
            BY <3>1, MinIsSmallest
        <3> QED BY <2>1, <3>2
    <2> QED BY <2>1, <2>2, <2>4
<1>11. ASSUME NEW k \in 1 .. n, NEW l \in 1 .. n, k < l, SamePlace(cs[k], cs[l]) PROVE p[k] < p[l]
    BY <1>3, <1>11
<1> QED BY <1>2, <1>8, <1>9, <1>10, <1>11

LEMMA DrawnShows == InterpInv /\ DrawnInv => DrawnOnceInOrder
<1> SUFFICES ASSUME InterpInv, DrawnInv, text # None, page.plain = <<>>, EachInOnePlace(page)
             PROVE  /\ ToSet(text) \ {Newline} = AllDrawn
                    /\ \A i, j \in DOMAIN text : text[i] = text[j] /\ text[i] # Newline => i = j
                    /\ \A k, l \in DOMAIN chunks :
                          k < l /\ chunks[k].x = chunks[l].x /\ chunks[k].y = chunks[l].y =>
                              Position(chunks[k]) < Position(chunks[l])
    BY DEF DrawnOnceInOrder, Extracted
<1> DEFINE N == (DOMAIN page.forms) \X Nat \X Nat
           cs == chunks
<1>1. form = None /\ visits = <<>> /\ text = chunksToText(cs)
    BY DEF DrawnInv, TextInv
<1>2. cs \in Seq(Pieces(N))
    BY DEF InterpInv, TypeOK, Records, Pieces
<1>3. Newline \notin N
    BY DEF Newline
<1>4. text \in Seq(N \cup {Newline}) /\ Told(cs, text)
    <2>1. chunksToText(cs) \in Seq(N \cup {Newline}) /\ Told(cs, chunksToText(cs))
        <3> HIDE DEF N, cs
        <3> QED BY <1>2, ChunksTold
    <2> QED BY <1>1, <2>1
<1>5. PICK D : Visited(page, D, <<>>) /\ Drew(page, D, None, next, cs)
    BY <1>1 DEF DrawnInv, TreeInv, TreeAt
<1>6. D = DOMAIN page.forms
    BY <1>5, VisitedAll
<1>7. /\ {cs[k].name : k \in DOMAIN cs} = NamesUpTo(page, D, None, next)
      /\ \A k, l \in DOMAIN cs : cs[k].name = cs[l].name => k = l
    BY <1>5 DEF Drew
<1>8. NamesUpTo(page, D, None, next) = AllDrawn
    <2>1. None \notin D /\ \A g \in D : page.forms[g].ops \in Streams
        BY <1>6, PageType DEF InterpInv
    <2>2. ASSUME NEW n \in AllNames(page, D) PROVE n[1] # None
        <3>1. PICK g \in D : \E j \in 1 .. Len(page.forms[g].ops) :
                  \E k \in 1 .. Shown(Strings(page.forms[g].ops, j)) : n = <<g, j, k>>
            BY <2>1, NameParts
        <3> QED BY <2>1, <3>1
    <2> QED BY <1>6, <2>2 DEF NamesUpTo, AllNames, AllDrawn
<1> DEFINE t == text
<1>9. /\ ToSet(t) \ {Newline} = {cs[k].name : k \in DOMAIN cs}
      /\ \A i, j \in DOMAIN t : t[i] = t[j] /\ t[i] # Newline => i = j
      /\ \A k, l \in DOMAIN cs :
            k < l /\ SamePlace(cs[k], cs[l]) =>
                PlaceIn(t, cs[k].name) < PlaceIn(t, cs[l].name)
    <2>1. t \in Seq(N \cup {Newline}) /\ Told(cs, t)
        BY <1>4
    <2> HIDE DEF N, cs, t
    <2> QED BY <1>2, <1>3, <1>7, <2>1, ToldOnce
<1> QED BY <1>7, <1>8, <1>9, ZenonT(30) DEF Position, PlaceIn, SamePlace

\* For every set of pages, forms nested to any depth and any number of chunks: a
\* page that has no form twice loses no string and shows none twice, and strings
\* on one spot come in the order they were drawn in, though the order of the first
\* sort is not transitive. Both sorts go by insertion here: sort.Slice does up to
\* 12 chunks, and keeps no order on one spot beyond (pdf.go:125-150, 272-334).
THEOREM DrawnTextIsShown == Spec => []DrawnOnceInOrder
<1>1. Init => InterpInv /\ DrawnInv
    BY InitInterp, InitDrawn
<1>2. (InterpInv /\ DrawnInv) /\ [Next]_vars => (InterpInv /\ DrawnInv)'
    BY NextInterp, NextDrawn
<1>3. InterpInv /\ DrawnInv => DrawnOnceInOrder
    BY DrawnShows
<1> QED BY <1>1, <1>2, <1>3, PTL DEF Spec

-----------------------------------------------------------------------------
(* How far apart lines are.                                                 *)

LEMMA NumbersSorted ==
    ASSUME NEW X, X \subseteq Int, NEW s \in Seq(X)
    PROVE  /\ Ascending(s) \in Seq(X) /\ ToSet(Ascending(s)) = ToSet(s)
           /\ \A i, j \in 1 .. Len(Ascending(s)) : i < j => Ascending(s)[i] =< Ascending(s)[j]
<1> DEFINE L == NumberOrder(X)
           t == Ascending(s)
<1>1. SortedBy(L, X, s, t)
    BY NumberSort
<1>2. \A a, b \in X : <<a, b>> \in L <=> a < b
    BY DEF NumberOrder
<1>3. \A a \in X : a \in Int
    OBVIOUS
<1> HIDE DEF L, t
<1>4. WeakOrder(L, X)
    BY <1>2, <1>3 DEF WeakOrder
<1>5. t \in Seq(X) /\ ToSet(t) = ToSet(s)
    BY <1>1, SortKeeps
<1>6. InOrder(L, t)
    BY <1>1, <1>4, SortOrders
<1>7. \A i \in 1 .. Len(t) : t[i] \in X
    BY <1>5, ElementOfSeq
<1>8. ASSUME NEW i \in 1 .. Len(t), NEW j \in 1 .. Len(t), i < j PROVE t[i] =< t[j]
    <2>1. ~ (<<t[j], t[i]>> \in L)
        BY <1>6, <1>8 DEF InOrder
    <2>2. t[i] \in X /\ t[j] \in X
        BY <1>7
    <2>3. ~ (t[j] < t[i])
        BY <1>2, <2>1, <2>2
    <2>4. t[i] \in Int /\ t[j] \in Int
        BY <1>3, <2>2
    <2> QED BY <2>3, <2>4
<1> QED BY <1>5, <1>8 DEF t

LEMMA SetAsSeq ==
    ASSUME NEW S, IsFiniteSet(S)
    PROVE  SetToSeq(S) \in Seq(S) /\ ToSet(SetToSeq(S)) = S
<1> DEFINE n == Cardinality(S)
           f == SetToSeq(S)
<1>1. n \in Nat /\ ExistsBijection(1 .. n, S)
    BY FS_CardinalityType
<1>2. \E g \in [1 .. n -> S] : IsInjective(g)
    BY <1>1 DEF ExistsBijection, Bijection, Injection, IsInjective
<1>3. f \in [1 .. n -> S] /\ IsInjective(f)
    BY <1>2 DEF SetToSeq
<1> HIDE DEF f
<1>4. f \in Injection(1 .. n, S)
    BY <1>3 DEF Injection, IsInjective
<1>5. IsFiniteSet(1 .. n) /\ Cardinality(1 .. n) = n
    <2>1. Cardinality(1 .. n) = IF 1 > n THEN 0 ELSE n - 1 + 1
        BY <1>1, FS_Interval
    <2> HIDE DEF n
    <2> QED BY <1>1, <2>1, FS_Interval
<1>6. f \in Surjection(1 .. n, S)
    BY <1>4, <1>5, FS_Injection
<1>7. DOMAIN f = 1 .. n /\ \A x \in S : \E i \in 1 .. n : f[i] = x
    BY <1>3, <1>6 DEF Surjection
<1>8. f \in Seq(S)
    BY <1>1, <1>3
<1>9. ToSet(f) = S
    BY <1>3, <1>7 DEF ToSet
<1> QED BY <1>8, <1>9 DEF f

\* The rows of chunks, from the least y on.
RowsUp(cs) == Ascending(SetToSeq(Ys(cs)))

LEMMA RowsSorted ==
    ASSUME NEW N, NEW cs \in Seq(Pieces(N))
    PROVE  /\ Ys(cs) \subseteq Int
           /\ RowsUp(cs) \in Seq(Ys(cs)) /\ ToSet(RowsUp(cs)) = Ys(cs)
           /\ \A i, j \in 1 .. Len(RowsUp(cs)) : i < j => RowsUp(cs)[i] =< RowsUp(cs)[j]
<1> DEFINE n == Len(cs)
           S == Ys(cs)
<1>1. n \in Nat /\ DOMAIN cs = 1 .. n /\ \A i \in 1 .. n : cs[i].y \in Int
    <2>1. \A i \in 1 .. n : cs[i] \in Pieces(N)
        BY ElementOfSeq
    <2> QED BY <2>1 DEF Pieces
<1> DEFINE f == [i \in 1 .. n |-> cs[i].y]
<1>2. f \in Surjection(1 .. n, S)
    BY <1>1 DEF Ys, Surjection
<1>3. S \subseteq Int
    BY <1>1 DEF Ys
<1> HIDE DEF S, f, n
<1>4. IsFiniteSet(S)
    BY <1>1, <1>2, FS_NatSurjection DEF ExistsSurjection
<1>5. SetToSeq(S) \in Seq(S) /\ ToSet(SetToSeq(S)) = S
    BY <1>4, SetAsSeq
<1> DEFINE s == SetToSeq(S)
           t == Ascending(s)
<1>6. s \in Seq(S) /\ ToSet(s) = S
    BY <1>5
<1> HIDE DEF s
<1>7. /\ t \in Seq(S) /\ ToSet(t) = ToSet(s)
      /\ \A i, j \in 1 .. Len(t) : i < j => t[i] =< t[j]
    BY <1>3, <1>6, NumbersSorted
<1>8. RowsUp(cs) = t
    BY DEF RowsUp, s, S
<1> HIDE DEF t
<1> QED BY <1>3, <1>6, <1>7, <1>8 DEF S

Widest(ys) == Max({0} \cup {p[2] - p[1] : p \in Neighbours(ys)})

\* No two neighbouring rows are further apart than that,
LEMMA WidestIsWide ==
    ASSUME NEW N, NEW cs \in Seq(Pieces(N))
    PROVE  /\ Widest(Ys(cs)) \in Nat
           /\ \A p \in Neighbours(Ys(cs)) : p[2] - p[1] =< Widest(Ys(cs))
<1> DEFINE ys == Ys(cs)
           t == RowsUp(cs)
           n == Len(t)
           D == {p[2] - p[1] : p \in Neighbours(ys)}
<1>1. /\ ys \subseteq Int /\ t \in Seq(ys) /\ ToSet(t) = ys
      /\ \A i, j \in 1 .. n : i < j => t[i] =< t[j]
    BY RowsSorted
<1> HIDE DEF t, ys
<1>2. n \in Nat /\ DOMAIN t = 1 .. n /\ \A i \in 1 .. n : t[i] \in ys /\ t[i] \in Int
    <2>1. n \in Nat /\ DOMAIN t = 1 .. n
        BY <1>1
    <2>2. \A i \in 1 .. n : t[i] \in ys
        BY <1>1, ElementOfSeq
    <2> QED BY <1>1, <2>1, <2>2
<1> HIDE DEF n
<1>3. ASSUME NEW p \in Neighbours(ys)
      PROVE  /\ p[1] \in ys /\ p[2] \in ys /\ p[1] \in Int /\ p[2] \in Int /\ p[1] < p[2]
             /\ \A y \in ys : y =< p[1] \/ y >= p[2]
    BY <1>1 DEF Neighbours
<1>4. \E k \in Nat : D \subseteq 1 .. k
    <2>1. CASE n = 0
        <3>1. ys = {}
            BY <1>1, <1>2, <2>1 DEF ToSet
        <3>2. D \subseteq 1 .. 0
            BY <1>3, <3>1
        <3> QED BY <3>2
    <2>2. CASE n # 0
        <3> DEFINE k == t[n] - t[1]
        <3>1. 1 \in 1 .. n /\ n \in 1 .. n
            BY <1>2, <2>2
        <3>2. \A i \in 1 .. n : t[1] =< t[i] /\ t[i] =< t[n]
            <4> TAKE i \in 1 .. n
            <4>0. t[i] \in Int
                BY <1>2
            <4>1. i = 1 \/ 1 < i
                BY <1>2
            <4>2. i = n \/ i < n
                BY <1>2
            <4>3. t[1] =< t[i]
                BY <1>1, <1>2, <3>1, <4>1, <4>0
            <4>4. t[i] =< t[n]
                BY <1>1, <1>2, <3>1, <4>2, <4>0
            <4> QED BY <4>3, <4>4
        <3>3. \A y \in ys : t[1] =< y /\ y =< t[n]
            BY <1>1, <1>2, <3>2 DEF ToSet
        <3>4. t[1] \in Int /\ t[n] \in Int /\ t[1] =< t[n]
            BY <1>2, <3>1, <3>2
        <3>5. ASSUME NEW p \in Neighbours(ys) PROVE p[2] - p[1] \in 1 .. k
            BY <1>3, <3>3, <3>4
        <3>6. k \in Nat /\ D \subseteq 1 .. k
            BY <3>4, <3>5
        <3> QED BY <3>6
    <2> QED BY <2>1, <2>2
<1>5. PICK k \in Nat : D \subseteq 1 .. k
    BY <1>4
<1>6. \A p \in Neighbours(ys) : p[2] - p[1] \in D
    OBVIOUS
<1> HIDE DEF D
<1>7. Max({0} \cup D) \in {0} \cup D /\ \A i \in D : i < 1 + Max({0} \cup D)
    BY <1>5, AfterLast
<1>8. \A i \in {0} \cup D : i \in Nat
    BY <1>5
<1> DEFINE w == Max({0} \cup D)
<1>9. w \in Nat /\ \A i \in D : i < 1 + w
    BY <1>7, <1>8
<1> HIDE DEF w
<1>10. \A i \in D : i =< w
    <2> TAKE i \in D
    <2>1. i \in Nat /\ i < 1 + w
        BY <1>8, <1>9
    <2> QED BY <1>9, <2>1
<1>11. Widest(ys) = w
    BY DEF Widest, w, D
<1> QED BY <1>6, <1>9, <1>10, <1>11 DEF ys

\* so neither is any gap the code finds; and it finds one if there are two rows.
LEMMA GapsFound ==
    ASSUME NEW N, NEW cs \in Seq(Pieces(N))
    PROVE  /\ Gaps(cs) \in Seq(Int)
           /\ \A g \in ToSet(Gaps(cs)) : g =< Widest(Ys(cs))
           /\ Gaps(cs) = <<>> => \A y, z \in Ys(cs) : y = z
<1> DEFINE ys == Ys(cs)
           t == RowsUp(cs)
           n == Len(t)
           g == Gaps(cs)
<1>1. /\ ys \subseteq Int /\ t \in Seq(ys) /\ ToSet(t) = ys
      /\ \A i, j \in 1 .. n : i < j => t[i] =< t[j]
    BY RowsSorted
<1>2. g = [i \in 1 .. n - 1 |-> t[i + 1] - t[i]]
    BY DEF Gaps, RowsUp
<1>3. Widest(ys) \in Nat /\ \A p \in Neighbours(ys) : p[2] - p[1] =< Widest(ys)
    BY WidestIsWide
<1> HIDE DEF t, ys, g
<1>4. n \in Nat /\ DOMAIN t = 1 .. n /\ \A i \in 1 .. n : t[i] \in ys /\ t[i] \in Int
    <2>1. n \in Nat /\ DOMAIN t = 1 .. n
        BY <1>1
    <2>2. \A i \in 1 .. n : t[i] \in ys
        BY <1>1, ElementOfSeq
    <2> QED BY <1>1, <2>1, <2>2
<1> HIDE DEF n
<1>5. ASSUME NEW i \in 1 .. n - 1
      PROVE  i \in 1 .. n /\ i + 1 \in 1 .. n /\ g[i] = t[i + 1] - t[i] /\ g[i] \in Int
    <2>1. i \in 1 .. n /\ i + 1 \in 1 .. n
        BY <1>4
    <2> QED BY <1>2, <1>4, <2>1
<1>6. g \in Seq(Int) /\ DOMAIN g = 1 .. n - 1
    <2>1. CASE n = 0
        BY <1>2, <2>1
    <2>2. CASE n # 0
        <3>1. n - 1 \in Nat
            BY <1>4, <2>2
        <3>2. g \in [1 .. n - 1 -> Int]
            BY <1>2, <1>5
        <3> QED BY <3>1, <3>2
    <2> QED BY <2>1, <2>2
<1>7. ASSUME NEW i \in 1 .. n - 1 PROVE g[i] =< Widest(ys)
    <2>1. t[i] =< t[i + 1] /\ t[i] \in Int /\ t[i + 1] \in Int /\ t[i] \in ys /\ t[i + 1] \in ys
        BY <1>1, <1>4, <1>5
    <2>2. CASE t[i] = t[i + 1]
        BY <1>3, <1>5, <2>1, <2>2
    <2>3. CASE t[i] < t[i + 1]
        <3>1. ASSUME NEW y \in ys PROVE y =< t[i] \/ y >= t[i + 1]
            <4>1. PICK k \in 1 .. n : t[k] = y
                BY <1>1, <1>4 DEF ToSet
            <4>2. k = i \/ k = i + 1 \/ k < i \/ i + 1 < k
                BY <1>4, <1>5
            <4> QED BY <1>1, <1>4, <1>5, <2>1, <4>1, <4>2
        <3>2. <<t[i], t[i + 1]>> \in Neighbours(ys)
            BY <2>1, <2>3, <3>1 DEF Neighbours
        <3>3. <<t[i], t[i + 1]>>[2] - <<t[i], t[i + 1]>>[1] =< Widest(ys)
            BY <1>3, <3>2
        <3> QED BY <1>5, <3>3
    <2> QED BY <2>1, <2>2, <2>3
<1>8. \A d \in ToSet(g) : d =< Widest(ys)
    BY <1>6, <1>7 DEF ToSet
<1>9. ASSUME g = <<>>, NEW y \in ys, NEW z \in ys PROVE y = z
    <2>1. 1 .. n - 1 = {}
        BY <1>6, <1>9
    <2>2. n - 1 < 1
        BY <1>4, <2>1
    <2>3. PICK i \in 1 .. n : t[i] = y
        BY <1>1, <1>4 DEF ToSet
    <2>4. PICK j \in 1 .. n : t[j] = z
        BY <1>1, <1>4 DEF ToSet
    <2>5. i = j
        BY <1>4, <2>2
    <2> QED BY <2>3, <2>4, <2>5
<1> QED BY <1>6, <1>8, <1>9 DEF g, ys

LEMMA LevelTypes ==
    ASSUME NEW N, NEW a \in Pieces(N), NEW b \in Pieces(N)
    PROVE  /\ a.name \in N /\ a.x \in Int /\ a.y \in Int
           /\ Far(a, b) \in Nat /\ Far(a, b) = Far(b, a)
           /\ Level(a, b) <=> Far(a, b) =< 4
           /\ Far(a, b) = 0 <=> a.y = b.y
<1>1. a.name \in N /\ a.x \in Int /\ a.y \in Int /\ b.y \in Int
    BY DEF Pieces
<1>2. /\ Far(a, b) \in Nat /\ Far(a, b) = Far(b, a)
      /\ Far(a, b) = 0 <=> a.y = b.y
    BY <1>1, SMTT(30) DEF Far
<1> QED BY <1>1, <1>2 DEF Level

LEMMA PiecesOf ==
    ASSUME NEW N, NEW cs \in Seq(Pieces(N)), NEW a \in ToSet(cs)
    PROVE  a \in Pieces(N) /\ a.y \in Ys(cs)
<1>1. PICK i \in DOMAIN cs : cs[i] = a
    BY DEF ToSet
<1>2. \A j \in 1 .. Len(cs) : cs[j] \in Pieces(N)
    BY ElementOfSeq
<1>3. DOMAIN cs = 1 .. Len(cs)
    OBVIOUS
<1> QED BY <1>1, <1>2, <1>3 DEF Ys

\* Where rows are further apart than half of the widest gap, the threshold tells
\* exactly whether two chunks are level.
LEMMA ThresholdTells ==
    ASSUME NEW N, NEW cs \in Seq(Pieces(N)), NEW a \in ToSet(cs), NEW b \in ToSet(cs),
           ~ Level(a, b) => 2 * Far(a, b) > Widest(Ys(cs))
    PROVE  2 * Far(a, b) > TwiceThreshold(cs) <=> ~ Level(a, b)
<1> DEFINE g == Gaps(cs)
           gaps == Ascending(g)
           m == Len(gaps) \div 2 + 1
           w == Widest(Ys(cs))
           far == Far(a, b)
           T == TwiceThreshold(cs)
<1>1. a \in Pieces(N) /\ b \in Pieces(N) /\ a.y \in Ys(cs) /\ b.y \in Ys(cs)
    BY PiecesOf
<1>2. far \in Nat /\ (Level(a, b) <=> far =< 4) /\ (far = 0 <=> a.y = b.y)
    BY <1>1, LevelTypes
<1>3. /\ g \in Seq(Int) /\ \A d \in ToSet(g) : d =< w
      /\ g = <<>> => \A y, z \in Ys(cs) : y = z
    BY GapsFound
<1>4. w \in Nat
    BY WidestIsWide
<1>5. T = IF gaps = <<>> THEN 20 ELSE Max({8, gaps[m]})
    BY DEF TwiceThreshold
<1>0. Int \subseteq Int
    OBVIOUS
<1>6. ~ Level(a, b) => 2 * far > w
    OBVIOUS
<1> HIDE DEF g, w, far, T
<1>7. gaps \in Seq(Int) /\ ToSet(gaps) = ToSet(g)
    BY <1>0, <1>3, NumbersSorted
<1> HIDE DEF gaps
<1>8. CASE gaps = <<>>
    <2>1. \A i \in DOMAIN g : g[i] \in ToSet(gaps)
        BY <1>7 DEF ToSet
    <2>2. ToSet(gaps) = {}
        BY <1>8 DEF ToSet
    <2>3. DOMAIN g = {}
        BY <2>1, <2>2
    <2>4. g = <<>>
        BY <1>3, <2>3
    <2>5. a.y = b.y
        BY <1>1, <1>3, <2>4
    <2>6. far = 0
        BY <1>2, <2>5
    <2> QED BY <1>2, <1>5, <1>8, <2>6 DEF far, T
<1>9. CASE gaps # <<>>
    <2> DEFINE n == Len(gaps)
               x == gaps[m]
    <2>1. n \in Nat /\ n # 0 /\ DOMAIN gaps = 1 .. n
        BY <1>7, <1>9
    <2>2. m \in 1 .. n
        BY <2>1
    <2>3. x \in Int /\ x \in ToSet(gaps)
        <3>1. \A i \in 1 .. n : gaps[i] \in Int
            BY <1>7, ElementOfSeq
        <3> QED BY <2>1, <2>2, <3>1 DEF ToSet
    <2>4. x =< w
        BY <1>3, <1>7, <2>3
    <2> HIDE DEF x, m, n
    <2>5. Max({8, x}) = IF x =< 8 THEN 8 ELSE x
        BY <2>3 DEF Max
    <2>6. T = IF x =< 8 THEN 8 ELSE x
        BY <1>5, <1>9, <2>5 DEF x
    <2>7. 2 * far > T <=> ~ (far =< 4)
        BY <1>2, <1>4, <1>6, <2>3, <2>4, <2>6
    <2> QED BY <1>2, <2>7 DEF far, T
<1> QED BY <1>8, <1>9

-----------------------------------------------------------------------------
(* Rows.                                                                    *)

\* The row of a is read before that of b.
Ahead(a, b, down) == ~ Level(a, b) /\ (a.y - b.y) * down < 0

\* Chunks are level or rows apart, and nothing is in between.
InRanks(R, down) ==
    /\ \A a \in R : Level(a, a)
    /\ \A a, b \in R : Level(a, b) => Level(b, a)
    /\ \A a, b, c \in R : Level(a, b) /\ Level(b, c) => Level(a, c)
    /\ \A a, b \in R : ~ Level(a, b) => Ahead(a, b, down) \/ Ahead(b, a, down)
    /\ \A a, b \in R : Ahead(a, b, down) => ~ Level(a, b) /\ ~ Ahead(b, a, down)
    /\ \A a, b, c \in R : Ahead(a, b, down) /\ Ahead(b, c, down) => Ahead(a, c, down)
    /\ \A a, b, c \in R : Ahead(a, b, down) /\ Level(b, c) => Ahead(a, c, down)
    /\ \A a, b, c \in R : Level(a, b) /\ Ahead(b, c, down) => Ahead(a, c, down)

\* The first sort asks for nothing else.
LEMMA BeforeIs ==
    ASSUME NEW N, NEW a \in Pieces(N), NEW b \in Pieces(N), NEW down
    PROVE  Before(a, b, down) <=> Ahead(a, b, down) \/ (Level(a, b) /\ a.x < b.x)
<1>1. Far(a, b) \in Nat
    BY LevelTypes
<1>2. Far(a, b) > 4 <=> ~ Level(a, b)
    BY <1>1 DEF Level
<1> QED BY <1>2 DEF Before, Ahead

\* It is enough that what is level with the same chunk is level.
LEMMA LevelsRank ==
    ASSUME NEW N, NEW R \in SUBSET Pieces(N), NEW down \in {1, -1},
           \A a, b, c \in R : Level(a, b) /\ Level(b, c) => Level(a, c)
    PROVE  InRanks(R, down)
<1> DEFINE T(a, b) == Ahead(a, b, down)
<1>1. \A a \in R : a.y \in Int
    BY DEF Pieces
<1>2. ASSUME NEW a \in R, NEW b \in R
      PROVE  /\ Level(a, b) <=> a.y - b.y =< 4 /\ b.y - a.y =< 4
             /\ T(a, b) <=> IF down = 1 THEN a.y - b.y < -4 ELSE a.y - b.y > 4
    <2>1. a.y \in Int /\ b.y \in Int
        BY <1>1
    <2>2. Level(a, b) <=> a.y - b.y =< 4 /\ b.y - a.y =< 4
        BY <2>1 DEF Level, Far
    <2>3. CASE down = 1
        BY <2>1, <2>2, <2>3 DEF Ahead
    <2>4. CASE down = -1
        BY <2>1, <2>2, <2>4 DEF Ahead
    <2> QED BY <2>2, <2>3, <2>4
<1> HIDE DEF T
<1>3. ASSUME NEW a \in R, NEW b \in R
      PROVE  /\ Level(a, a)
             /\ Level(a, b) => Level(b, a)
             /\ ~ Level(a, b) => T(a, b) \/ T(b, a)
             /\ T(a, b) => ~ Level(a, b) /\ ~ T(b, a)
    <2>1. a.y \in Int /\ b.y \in Int
        BY <1>1
    <2>2. /\ Level(a, a) <=> a.y - a.y =< 4 /\ a.y - a.y =< 4
          /\ Level(a, b) <=> a.y - b.y =< 4 /\ b.y - a.y =< 4
          /\ Level(b, a) <=> b.y - a.y =< 4 /\ a.y - b.y =< 4
        BY <1>2
    <2>3. /\ T(a, b) <=> IF down = 1 THEN a.y - b.y < -4 ELSE a.y - b.y > 4
          /\ T(b, a) <=> IF down = 1 THEN b.y - a.y < -4 ELSE b.y - a.y > 4
        BY <1>2
    <2> QED BY <2>1, <2>2, <2>3
<1>4. ASSUME NEW a \in R, NEW b \in R, NEW c \in R
      PROVE  /\ T(a, b) /\ T(b, c) => T(a, c)
             /\ T(a, b) /\ Level(b, c) => T(a, c)
             /\ Level(a, b) /\ T(b, c) => T(a, c)
    <2>1. a.y \in Int /\ b.y \in Int /\ c.y \in Int
        BY <1>1
    <2>2. /\ Level(a, b) <=> a.y - b.y =< 4 /\ b.y - a.y =< 4
          /\ Level(b, c) <=> b.y - c.y =< 4 /\ c.y - b.y =< 4
          /\ Level(a, c) <=> a.y - c.y =< 4 /\ c.y - a.y =< 4
        BY <1>2
    <2>3. /\ T(a, b) <=> IF down = 1 THEN a.y - b.y < -4 ELSE a.y - b.y > 4
          /\ T(b, c) <=> IF down = 1 THEN b.y - c.y < -4 ELSE b.y - c.y > 4
          /\ T(a, c) <=> IF down = 1 THEN a.y - c.y < -4 ELSE a.y - c.y > 4
        BY <1>2
    <2>4. T(a, b) /\ T(b, c) => T(a, c)
        BY <2>1, <2>3
    <2>5. T(a, b) /\ Level(b, c) => T(a, c)
        <3>1. T(a, b) /\ Level(b, c) => ~ Level(a, c)
            BY <1>3
        <3> QED BY <2>1, <2>2, <2>3, <3>1
    <2>6. Level(a, b) /\ T(b, c) => T(a, c)
        <3>1. Level(a, b) /\ T(b, c) => ~ Level(a, c)
            BY <1>3
        <3> QED BY <2>1, <2>2, <2>3, <3>1
    <2> QED BY <2>4, <2>5, <2>6
<1> QED BY <1>3, <1>4 DEF InRanks, T

\* On such a page the first sort is by a true order.
LEMMA RanksOrder ==
    ASSUME NEW N, NEW R \in SUBSET Pieces(N), NEW down, InRanks(R, down)
    PROVE  WeakOrder(RowOrder(R, down), R)
<1> DEFINE B(a, b) == Ahead(a, b, down) \/ (Level(a, b) /\ a.x < b.x)
           L == RowOrder(R, down)
<1>1. ASSUME NEW a \in R, NEW b \in R PROVE <<a, b>> \in L <=> B(a, b)
    <2>1. Before(a, b, down) <=> B(a, b)
        BY BeforeIs
    <2> QED BY <2>1 DEF RowOrder
<1>2. \A a \in R : a.x \in Int
    BY DEF Pieces
<1> HIDE DEF L
<1>3. ASSUME NEW a \in R, NEW b \in R, B(a, b) PROVE ~ B(b, a)
    <2>1. CASE Ahead(a, b, down)
        BY <2>1 DEF InRanks
    <2>2. CASE Level(a, b) /\ a.x < b.x
        <3>1. ~ Ahead(b, a, down)
            BY <2>2 DEF InRanks
        <3> QED BY <1>2, <2>2, <3>1
    <2> QED BY <1>3, <2>1, <2>2
<1>4. ASSUME NEW a \in R, NEW b \in R, NEW c \in R, ~ B(a, b), ~ B(b, c) PROVE ~ B(a, c)
    <2>1. ASSUME Ahead(a, c, down) PROVE FALSE
        <3>1. CASE Level(a, b)
            BY <1>4, <2>1, <3>1 DEF InRanks
        <3>2. CASE ~ Level(a, b)
            BY <1>4, <2>1, <3>2 DEF InRanks
        <3> QED BY <3>1, <3>2
    <2>2. ASSUME Level(a, c), a.x < c.x PROVE FALSE
        <3>1. CASE Level(a, b)
            <4>1. Level(b, c)
                BY <2>2, <3>1 DEF InRanks
            <4>2. ~ (a.x < b.x) /\ ~ (b.x < c.x)
                BY <1>4, <3>1, <4>1
            <4> QED BY <1>2, <2>2, <4>2
        <3>2. CASE ~ Level(a, b)
            BY <1>4, <2>2, <3>2 DEF InRanks
        <3> QED BY <3>1, <3>2
    <2> QED BY <2>1, <2>2
<1> HIDE DEF B
<1> QED BY <1>1, <1>3, <1>4 DEF WeakOrder, L

LEMMA XsOrder ==
    ASSUME NEW N, NEW R \in SUBSET Pieces(N)
    PROVE  WeakOrder(LineOrder(R), R)
<1>1. \A a \in R : a.x \in Int
    BY DEF Pieces
<1>2. \A a, b \in R : <<a, b>> \in LineOrder(R) <=> a.x < b.x
    BY DEF LineOrder, LeftOf
<1> QED BY <1>1, <1>2 DEF WeakOrder

\* Lines of the first k chunks of s: every line is a row, and they are in order.
Ranked(ls, s, k, down) ==
    /\ \A i \in 1 .. Len(ls) : ls[i] # <<>> /\ \A a, b \in ToSet(ls[i]) : Level(a, b)
    /\ \A i, j \in 1 .. Len(ls) : i < j =>
          \A a \in ToSet(ls[i]), b \in ToSet(ls[j]) : Ahead(a, b, down)
    /\ \A i \in 1 .. Len(ls) : \A a \in ToSet(ls[i]) : \E m \in 1 .. k : a = s[m]
    /\ \A m \in 1 .. k : \E i \in 1 .. Len(ls) : s[m] \in ToSet(ls[i])

LEMMA AppendSet ==
    ASSUME NEW R, NEW s \in Seq(R), NEW d \in R
    PROVE  /\ Append(s, d) \in Seq(R) /\ Append(s, d) # <<>>
           /\ ToSet(Append(s, d)) = ToSet(s) \cup {d}
<1> DEFINE t == Append(s, d)
           n == Len(s)
<1>1. /\ t \in Seq(R) /\ Len(t) = n + 1 /\ t[n + 1] = d
      /\ \A i \in 1 .. n : t[i] = s[i]
    BY AppendProperties
<1>2. n \in Nat /\ DOMAIN s = 1 .. n /\ DOMAIN t = 1 .. n + 1
    BY <1>1
<1> HIDE DEF t, n
<1>3. \A i \in 1 .. n + 1 : i = n + 1 \/ i \in 1 .. n
    BY <1>2
<1>4. n + 1 \in 1 .. n + 1 /\ \A i \in 1 .. n : i \in 1 .. n + 1
    BY <1>2
<1>5. ToSet(t) = ToSet(s) \cup {d}
    BY <1>1, <1>2, <1>3, <1>4 DEF ToSet
<1>6. t # <<>>
    BY <1>2, <1>4
<1> QED BY <1>1, <1>5, <1>6 DEF t

LEMMA HeadIn ==
    ASSUME NEW R, NEW s \in Seq(R), s # <<>>
    PROVE  Head(s) \in ToSet(s) /\ Last(s) = s[Len(s)] /\ Len(s) \in 1 .. Len(s)
<1>1. Head(s) = s[1] /\ 1 \in DOMAIN s /\ Len(s) \in 1 .. Len(s)
    OBVIOUS
<1> QED BY <1>1 DEF ToSet, Last

\* The next chunk of rows in order joins the row it is in or starts the next one.
LEMMA RankedGrows ==
    ASSUME NEW R, NEW down, InRanks(R, down), NEW s \in Seq(R), NEW threshold,
           \A a, b \in R : 2 * Far(a, b) > threshold <=> ~ Level(a, b),
           \A i, j \in 1 .. Len(s) : i < j => ~ Ahead(s[j], s[i], down),
           NEW k \in 0 .. Len(s) - 1, NEW ls \in Seq(Seq(R)), Ranked(ls, s, k, down)
    PROVE  Ranked(Grow(ls, s[k + 1], threshold), s, k + 1, down)
<1> DEFINE d == s[k + 1]
           n == Len(ls)
           new == Grow(ls, d, threshold)
           Named(S, m) == \A a \in S : \E j \in 1 .. m : a = s[j]
<1>1. k \in Nat /\ k + 1 \in 1 .. Len(s) /\ n \in Nat
    OBVIOUS
<1>2. d \in R
    BY <1>1, ElementOfSeq
<1>3. /\ \A i \in 1 .. k : i \in 1 .. k + 1 /\ i \in 1 .. Len(s) /\ i < k + 1
      /\ \A i \in 1 .. k + 1 : i = k + 1 \/ i \in 1 .. k
      /\ k + 1 \in 1 .. k + 1
    BY <1>1
<1>4. ASSUME NEW i \in 1 .. n
      PROVE  /\ ls[i] \in Seq(R) /\ ls[i] # <<>>
             /\ \A a \in ToSet(ls[i]) : a \in R /\ ~ Ahead(d, a, down)
    <2>1. ls[i] \in Seq(R) /\ ls[i] # <<>>
        BY ElementOfSeq DEF Ranked
    <2>2. ASSUME NEW a \in ToSet(ls[i]) PROVE a \in R /\ ~ Ahead(d, a, down)
        <3>1. PICK m \in 1 .. k : a = s[m]
            BY DEF Ranked
        <3>2. m \in 1 .. Len(s) /\ m < k + 1
            BY <1>3
        <3>3. a \in R
            BY <3>1, <3>2, ElementOfSeq
        <3> QED BY <1>1, <3>1, <3>2, <3>3
    <2> QED BY <2>1, <2>2
<1>5. /\ \A i \in 1 .. n : \A a, b \in ToSet(ls[i]) : Level(a, b)
      /\ \A i, j \in 1 .. n : i < j => \A a \in ToSet(ls[i]), b \in ToSet(ls[j]) : Ahead(a, b, down)
      /\ \A i \in 1 .. n : Named(ToSet(ls[i]), k)
      /\ \A m \in 1 .. k : \E i \in 1 .. n : s[m] \in ToSet(ls[i])
    BY DEF Ranked
<1>6. \A i \in 1 .. n : Named(ToSet(ls[i]), k + 1)
    <2>1. \A S : Named(S, k) => Named(S, k + 1)
        BY <1>3
    <2> HIDE DEF Named
    <2> QED BY <1>5, <2>1
<1>7. Named({d}, k + 1)
    BY <1>3
<1>8. CASE new = Append(ls, <<d>>) /\ \A i \in 1 .. n : \A a \in ToSet(ls[i]) : Ahead(a, d, down)
    <2> DEFINE more == Append(ls, <<d>>)
    <2>1. <<d>> \in Seq(R) /\ <<d>> # <<>> /\ ToSet(<<d>>) = {d}
        BY <1>2 DEF ToSet
    <2>2. /\ Len(more) = n + 1 /\ more[n + 1] = <<d>>
          /\ \A i \in 1 .. n : more[i] = ls[i]
        BY <2>1, AppendProperties
    <2> HIDE DEF more, n, d
    <2>3. /\ \A i \in 1 .. n + 1 : i = n + 1 \/ i \in 1 .. n
          /\ n + 1 \in 1 .. n + 1 /\ \A i \in 1 .. n : i \in 1 .. n + 1
          /\ \A i \in 1 .. n + 1 : ~ (n + 1 < i)
          /\ ~ (n + 1 < n + 1)
        BY <1>1
    <2>4. \A i \in 1 .. n + 1 : more[i] # <<>> /\ \A a, b \in ToSet(more[i]) : Level(a, b)
        <3> TAKE i \in 1 .. n + 1
        <3>1. CASE i = n + 1
            <4>1. more[i] # <<>> /\ ToSet(more[i]) = {d}
                BY <2>1, <2>2, <3>1
            <4>2. Level(d, d)
                BY <1>2 DEF InRanks
            <4> QED BY <4>1, <4>2
        <3>2. CASE i \in 1 .. n
            BY <1>4, <1>5, <2>2, <3>2
        <3> QED BY <2>3, <3>1, <3>2
    <2>5. \A i, j \in 1 .. n + 1 : i < j =>
              \A a \in ToSet(more[i]), b \in ToSet(more[j]) : Ahead(a, b, down)
        <3> TAKE i \in 1 .. n + 1, j \in 1 .. n + 1
        <3>1. CASE i = n + 1
            BY <2>3, <3>1
        <3>2. CASE i \in 1 .. n /\ j = n + 1
            <4>1. more[i] = ls[i] /\ ToSet(more[j]) = {d}
                BY <2>1, <2>2, <3>2
            <4> QED BY <1>8, <3>2, <4>1
        <3>3. CASE i \in 1 .. n /\ j \in 1 .. n
            <4>1. more[i] = ls[i] /\ more[j] = ls[j]
                BY <2>2, <3>3
            <4> QED BY <1>5, <3>3, <4>1
        <3> QED BY <2>3, <3>1, <3>2, <3>3
    <2>6. \A i \in 1 .. n + 1 : Named(ToSet(more[i]), k + 1)
        <3> TAKE i \in 1 .. n + 1
        <3>1. CASE i = n + 1
            BY <1>7, <2>1, <2>2, <3>1
        <3>2. CASE i \in 1 .. n
            BY <1>6, <2>2, <3>2
        <3> QED BY <2>3, <3>1, <3>2
    <2>7. \A m \in 1 .. k + 1 : \E i \in 1 .. n + 1 : s[m] \in ToSet(more[i])
        <3> TAKE m \in 1 .. k + 1
        <3>1. CASE m = k + 1
            BY <2>1, <2>2, <2>3, <3>1 DEF d
        <3>2. CASE m \in 1 .. k
            BY <1>5, <2>2, <2>3, <3>2
        <3> QED BY <1>3, <3>1, <3>2
    <2>8. Ranked(more, s, k + 1, down)
        BY <2>2, <2>4, <2>5, <2>6, <2>7 DEF Ranked
    <2> QED BY <1>8, <2>8 DEF more, d
<1>9. CASE n # 0 /\ new = [ls EXCEPT ![n] = Append(@, d)] /\ \A a \in ToSet(ls[n]) : Level(a, d)
    <2> DEFINE more == [ls EXCEPT ![n] = Append(@, d)]
               row == ToSet(ls[n])
    <2>1. n \in 1 .. n /\ DOMAIN ls = 1 .. n
        BY <1>1, <1>9
    <2>11. ls[n] \in Seq(R)
        BY <1>4, <2>1
    <2>2. /\ Append(ls[n], d) \in Seq(R) /\ Append(ls[n], d) # <<>>
          /\ ToSet(Append(ls[n], d)) = row \cup {d}
        <3>1. \A q \in Seq(R), e \in R :
                  /\ Append(q, e) \in Seq(R) /\ Append(q, e) # <<>>
                  /\ ToSet(Append(q, e)) = ToSet(q) \cup {e}
            BY AppendSet
        <3> HIDE DEF d, n
        <3> QED BY <1>2, <2>11, <3>1
    <2>3. Len(more) = n /\ more[n] = Append(ls[n], d) /\ \A i \in 1 .. n : i # n => more[i] = ls[i]
        <3> DEFINE x == Append(ls[n], d)
        <3>1. /\ more = [i \in 1 .. n |-> IF i = n THEN x ELSE ls[i]]
              /\ \A i \in 1 .. n : ls[i] \in Seq(R)
            BY <1>4, <2>1
        <3> HIDE DEF more, n, x
        <3>2. \A i \in 1 .. n : (IF i = n THEN x ELSE ls[i]) \in Seq(R)
            BY <2>2, <3>1 DEF x
        <3>3. more \in [1 .. n -> Seq(R)]
            BY <3>1, <3>2
        <3>4. Len(more) = n
            BY <1>1, <3>3
        <3> QED BY <2>1, <3>1, <3>4 DEF x
    <2> HIDE DEF more, n, d
    <2>4. /\ more[n] # <<>> /\ ToSet(more[n]) = row \cup {d}
          /\ \A i \in 1 .. n : i # n => ToSet(more[i]) = ToSet(ls[i]) /\ more[i] # <<>>
        BY <1>4, <2>2, <2>3
    <2>5. \A a \in row : a \in R /\ Level(a, d) /\ Level(d, a)
        BY <1>2, <1>4, <1>9, <2>1 DEF InRanks
    <2>6. \A i \in 1 .. n : more[i] # <<>> /\ \A a, b \in ToSet(more[i]) : Level(a, b)
        <3> TAKE i \in 1 .. n
        <3>1. CASE i = n
            <4>1. Level(d, d)
                BY <1>2 DEF InRanks
            <4>3. \A a, b \in row : Level(a, b)
                BY <1>5, <2>1
            <4>4. \A a, b \in row \cup {d} : Level(a, b)
                BY <2>5, <4>1, <4>3
            <4> HIDE DEF row
            <4> QED BY <2>4, <3>1, <4>4
        <3>2. CASE i # n
            BY <1>5, <2>4, <3>2
        <3> QED BY <3>1, <3>2
    <2>7. \A i, j \in 1 .. n : i < j =>
              \A a \in ToSet(more[i]), b \in ToSet(more[j]) : Ahead(a, b, down)
        <3> TAKE i \in 1 .. n, j \in 1 .. n
        <3>1. CASE i = n
            BY <1>1, <3>1
        <3>2. CASE i # n /\ j # n
            BY <1>5, <2>4, <3>2
        <3>3. CASE i # n /\ j = n
            <4>1. SUFFICES ASSUME i < j, NEW a \in ToSet(ls[i]), NEW b \in row \cup {d}
                           PROVE  Ahead(a, b, down)
                BY <2>4, <3>3
            <4>2. a \in R
                BY <1>4
            <4>3. \A c \in row : Ahead(a, c, down)
                BY <1>5, <2>1, <3>3, <4>1
            <4>4. \E h : h \in row
                <5>1. ls[n] \in Seq(R) /\ ls[n] # <<>>
                    BY <1>4, <2>1
                <5> QED BY <5>1, HeadIn
            <4>5. PICK h : h \in row
                BY <4>4
            <4>6. Ahead(a, d, down)
                BY <1>2, <2>5, <4>2, <4>3, <4>5 DEF InRanks
            <4> QED BY <4>3, <4>6
        <3> QED BY <3>1, <3>2, <3>3
    <2>8. \A i \in 1 .. n : Named(ToSet(more[i]), k + 1)
        BY <1>6, <1>7, <2>1, <2>4
    <2>9. \A m \in 1 .. k + 1 : \E i \in 1 .. n : s[m] \in ToSet(more[i])
        <3> TAKE m \in 1 .. k + 1
        <3>1. CASE m = k + 1
            BY <2>1, <2>4, <3>1 DEF d
        <3>2. CASE m \in 1 .. k
            BY <1>5, <2>4, <3>2
        <3> QED BY <1>3, <3>1, <3>2
    <2>10. Ranked(more, s, k + 1, down)
        BY <2>3, <2>6, <2>7, <2>8, <2>9 DEF Ranked
    <2> QED BY <1>9, <2>10 DEF more, d
<1>10. CASE n = 0
    <2>1. ls = <<>> /\ \A i \in 1 .. n : \A a \in ToSet(ls[i]) : Ahead(a, d, down)
        BY <1>10
    <2>2. new = Append(ls, <<d>>)
        BY <2>1 DEF Grow
    <2> QED BY <1>8, <2>1, <2>2
<1>11. CASE n # 0
    <2> DEFINE h == Head(Last(ls))
               row == ToSet(ls[n])
    <2>1. ls # <<>> /\ n \in 1 .. n /\ Last(ls) = ls[n]
        BY <1>1, <1>11 DEF Last
    <2>2. ls[n] \in Seq(R) /\ ls[n] # <<>>
        BY <1>4, <2>1
    <2>3. h \in row
        BY <2>1, <2>2, HeadIn
    <2> HIDE DEF n, d, h
    <2>4. h \in R /\ \A a \in row : a \in R /\ Level(a, h) /\ Level(h, a)
        BY <1>4, <1>5, <2>1, <2>3
    <2>5. 2 * Far(d, h) > threshold <=> ~ Level(d, h)
        BY <1>2, <2>4
    <2>6. CASE Level(d, h)
        <3>1. \A a \in row : Level(a, d)
            BY <1>2, <2>4, <2>6 DEF InRanks
        <3>2. new = [ls EXCEPT ![n] = Append(@, d)]
            BY <2>1, <2>5, <2>6 DEF Grow, h, n
        <3> QED BY <1>9, <1>11, <3>1, <3>2 DEF n, d, new
    <2>7. CASE ~ Level(d, h)
        <3>1. ~ Ahead(d, h, down)
            BY <1>4, <2>1, <2>3
        <3>2. Ahead(h, d, down)
            BY <1>2, <2>4, <2>7, <3>1 DEF InRanks
        <3>3. ASSUME NEW i \in 1 .. n, NEW a \in ToSet(ls[i]) PROVE Ahead(a, d, down)
            <4>1. a \in R
                BY <1>4
            <4>2. CASE i = n
                BY <1>2, <2>4, <3>2, <4>1, <4>2 DEF InRanks
            <4>3. CASE i # n
                <5>1. i < n
                    BY <1>1, <4>3
                <5>2. Ahead(a, h, down)
                    BY <1>5, <2>1, <2>3, <5>1
                <5> QED BY <1>2, <2>4, <3>2, <4>1, <5>2 DEF InRanks
            <4> QED BY <4>2, <4>3
        <3>4. new = Append(ls, <<d>>)
            BY <2>1, <2>5, <2>7 DEF Grow, h
        <3> QED BY <1>8, <3>3, <3>4 DEF n, d, new
    <2> QED BY <2>6, <2>7 DEF new, d
<1> QED BY <1>10, <1>11

LEMMA LinesRanked ==
    ASSUME NEW R, NEW down, InRanks(R, down), NEW s \in Seq(R), NEW threshold,
           \A a, b \in R : 2 * Far(a, b) > threshold <=> ~ Level(a, b),
           \A i, j \in 1 .. Len(s) : i < j => ~ Ahead(s[j], s[i], down)
    PROVE  Ranked(Lines(s, threshold), s, Len(s), down)
<1>1. PICK c : Grows(c, R, s, threshold) /\ Lines(s, threshold) = c[Len(s)]
    BY LinesRun
<1>2. /\ c \in [0 .. Len(s) -> Seq(Seq(R))] /\ c[0] = <<>>
      /\ \A k \in 1 .. Len(s) : c[k] = Grow(c[k - 1], s[k], threshold)
    BY <1>1 DEF Grows
<1> DEFINE P == {k \in 0 .. Len(s) : Ranked(c[k], s, k, down)}
<1>3. Len(s) \in Nat /\ 0 \in 0 .. Len(s) /\ Len(s) \in 0 .. Len(s)
    OBVIOUS
<1>4. 0 \in P
    <2>1. 1 .. 0 = {} /\ Len(<<>>) = 0
        OBVIOUS
    <2>2. Ranked(<<>>, s, 0, down)
        BY <2>1 DEF Ranked
    <2> QED BY <1>2, <1>3, <2>2
<1>5. ASSUME NEW k \in 0 .. Len(s) - 1, k \in P PROVE k + 1 \in P
    <2>1. k + 1 \in 1 .. Len(s) /\ (k + 1) - 1 = k /\ k + 1 \in 0 .. Len(s) /\ k \in 0 .. Len(s)
        BY <1>3
    <2>2. c[k] \in Seq(Seq(R)) /\ c[k + 1] = Grow(c[k], s[k + 1], threshold)
        BY <1>2, <2>1
    <2>3. Ranked(c[k], s, k, down)
        BY <1>5
    <2>4. Ranked(Grow(c[k], s[k + 1], threshold), s, k + 1, down)
        BY <2>2, <2>3, RankedGrows
    <2> QED BY <2>1, <2>2, <2>4
<1> HIDE DEF P
<1>6. 0 .. Len(s) \subseteq P
    BY <1>3, <1>4, <1>5, IntervalInduct
<1>7. Len(s) \in P
    BY <1>3, <1>6
<1> QED BY <1>1, <1>7 DEF P

-----------------------------------------------------------------------------
(* Reading a text.                                                          *)

\* Of the chunks A, whose names t has: a row goes from left to right without a
\* line break, and breaks stand between rows.
ReadAs(t, A, down) ==
    /\ \A i \in 1 .. Len(t) : t[i] = Newline \/ \E a \in A : t[i] = a.name
    /\ \A p, q \in 1 .. Len(t) : \A a, b \in A : t[p] = a.name /\ t[q] = b.name =>
          /\ Level(a, b) /\ a.x < b.x => p < q /\ \A i \in p .. q : t[i] # Newline
          /\ Ahead(a, b, down) => p < q /\ \E i \in p .. q : t[i] = Newline

\* Each name stands for one chunk.
OneEach(R) ==
    /\ \A a \in R : a.name # Newline
    /\ \A a, b \in R : a.name = b.name => a = b

LEMMA ReadNothing ==
    ASSUME NEW t, \A i \in 1 .. Len(t) : t[i] = Newline, NEW down
    PROVE  ReadAs(t, {}, down)
BY DEF ReadAs

\* A row.
LEMMA ReadRow ==
    ASSUME NEW R, NEW down, InRanks(R, down), OneEach(R), \A a \in R : a.x \in Int,
           NEW s \in Seq(R), \A a, b \in ToSet(s) : Level(a, b),
           \A i, j \in 1 .. Len(s) : i < j => ~ (s[j].x < s[i].x)
    PROVE  ReadAs(Names(s), ToSet(s), down)
<1> DEFINE n == Len(s)
           A == ToSet(s)
           t == Names(s)
<1>1. n \in Nat /\ DOMAIN s = 1 .. n
    OBVIOUS
<1>2. \A i \in 1 .. n : s[i] \in R /\ s[i] \in A
    <2>1. \A i \in 1 .. n : s[i] \in R
        BY ElementOfSeq
    <2> QED BY <1>1, <2>1 DEF ToSet
<1>3. \A a \in A : a \in R
    BY <1>1, <1>2 DEF ToSet
<1>4. Len(t) = n /\ \A i \in 1 .. n : t[i] = s[i].name
    BY <1>1 DEF Names
<1> HIDE DEF n, A, t
<1>5. \A i \in 1 .. n : t[i] # Newline /\ \E a \in A : t[i] = a.name
    BY <1>2, <1>4 DEF OneEach
<1>6. ASSUME NEW p \in 1 .. n, NEW q \in 1 .. n, NEW a \in A, NEW b \in A,
             t[p] = a.name, t[q] = b.name
      PROVE  /\ Level(a, b) /\ a.x < b.x => p < q /\ \A i \in p .. q : t[i] # Newline
             /\ ~ Ahead(a, b, down)
    <2>1. s[p] = a /\ s[q] = b
        BY <1>2, <1>3, <1>4, <1>6 DEF OneEach
    <2>2. ~ Ahead(a, b, down)
        <3>1. Level(a, b)
            BY DEF A
        <3> QED BY <3>1 DEF Ahead
    <2>3. ASSUME a.x < b.x PROVE p < q
        <3>1. a.x \in Int /\ b.x \in Int
            BY <1>3
        <3>2. q < p => ~ (a.x < b.x)
            BY <2>1 DEF n
        <3>3. p # q
            BY <2>1, <2>3, <3>1
        <3> QED BY <1>1, <2>3, <3>2, <3>3
    <2>4. \A i \in p .. q : t[i] # Newline
        <3>1. \A i \in p .. q : i \in 1 .. n
            BY <1>1
        <3> QED BY <1>5, <3>1
    <2> QED BY <2>2, <2>3, <2>4
<1>7. ReadAs(t, A, down)
    BY <1>4, <1>5, <1>6 DEF ReadAs
<1> QED BY <1>7 DEF t, A

\* A text, a line break and what is to be read after it.
LEMMA ReadOn ==
    ASSUME NEW R, NEW down, InRanks(R, down), OneEach(R), NEW W,
           NEW A \in SUBSET R, NEW B \in SUBSET R, NEW s \in Seq(W), NEW t \in Seq(W),
           ReadAs(s, A, down), ReadAs(t, B, down),
           \A a \in A, b \in B : Ahead(a, b, down),
           A = {} \/ (t # <<>> /\ t[1] = Newline)
    PROVE  ReadAs(s \o t, A \cup B, down)
<1> DEFINE x == Len(s)
           y == Len(t)
           st == s \o t
<1>1. x \in Nat /\ y \in Nat
    OBVIOUS
<1>2. /\ Len(st) = x + y
      /\ \A i \in 1 .. x + y : st[i] = IF i <= x THEN s[i] ELSE t[i - x]
    BY ConcatProperties
<1>3. t # <<>> => y # 0
    OBVIOUS
<1>4. /\ \A i \in 1 .. x : s[i] = Newline \/ \E a \in A : s[i] = a.name
      /\ \A i \in 1 .. y : t[i] = Newline \/ \E b \in B : t[i] = b.name
    BY DEF ReadAs
<1> HIDE DEF x, y, st
<1>5. ASSUME NEW i \in 1 .. x + y
      PROVE  \/ i \in 1 .. x /\ i <= x /\ st[i] = s[i]
             \/ i - x \in 1 .. y /\ ~ (i <= x) /\ st[i] = t[i - x]
    BY <1>1, <1>2
<1>6. ASSUME NEW i \in 1 .. x + y
      PROVE  st[i] = Newline \/ \E a \in A \cup B : st[i] = a.name
    BY <1>4, <1>5
<1>7. ASSUME NEW i \in 1 .. x + y, NEW a \in A \cup B, st[i] = a.name
      PROVE  IF i <= x THEN i \in 1 .. x /\ s[i] = a.name /\ a \in A
             ELSE i - x \in 1 .. y /\ t[i - x] = a.name /\ a \in B
    <2>1. a \in R /\ a.name # Newline
        BY DEF OneEach
    <2>2. CASE i <= x
        <3>1. i \in 1 .. x /\ s[i] = a.name
            BY <1>5, <1>7, <2>2
        <3>2. PICK c \in A : s[i] = c.name
            BY <1>4, <2>1, <3>1
        <3>3. c = a
            BY <2>1, <3>1, <3>2 DEF OneEach
        <3> QED BY <2>2, <3>1, <3>2, <3>3
    <2>3. CASE ~ (i <= x)
        <3>1. i - x \in 1 .. y /\ t[i - x] = a.name
            BY <1>5, <1>7, <2>3
        <3>2. PICK c \in B : t[i - x] = c.name
            BY <1>4, <2>1, <3>1
        <3>3. c = a
            BY <2>1, <3>1, <3>2 DEF OneEach
        <3> QED BY <2>3, <3>1, <3>2, <3>3
    <2> QED BY <2>2, <2>3
<1>8. ASSUME NEW p \in 1 .. x + y, NEW q \in 1 .. x + y, NEW a \in A \cup B, NEW b \in A \cup B,
             st[p] = a.name, st[q] = b.name
      PROVE  /\ Level(a, b) /\ a.x < b.x => p < q /\ \A i \in p .. q : st[i] # Newline
             /\ Ahead(a, b, down) => p < q /\ \E i \in p .. q : st[i] = Newline
    <2>0. p \in Int /\ q \in Int
        BY <1>1
    <2>1. CASE p <= x /\ q <= x
        <3>1. p \in 1 .. x /\ q \in 1 .. x /\ a \in A /\ b \in A /\ s[p] = a.name /\ s[q] = b.name
            BY <1>7, <1>8, <2>1
        <3>2. \A i \in p .. q : i \in 1 .. x /\ st[i] = s[i]
            BY <1>1, <1>2, <3>1
        <3>3. /\ Level(a, b) /\ a.x < b.x => p < q /\ \A i \in p .. q : s[i] # Newline
              /\ Ahead(a, b, down) => p < q /\ \E i \in p .. q : s[i] = Newline
            BY <3>1 DEF ReadAs, x
        <3> QED BY <3>2, <3>3
    <2>2. CASE ~ (p <= x) /\ ~ (q <= x)
        <3> DEFINE v == p - x
                   w == q - x
        <3>1. v \in 1 .. y /\ w \in 1 .. y /\ a \in B /\ b \in B /\ t[v] = a.name /\ t[w] = b.name
            BY <1>7, <1>8, <2>2
        <3>2. /\ \A i \in p .. q : i - x \in v .. w /\ st[i] = t[i - x]
              /\ \A i \in v .. w : x + i \in p .. q /\ st[x + i] = t[i]
              /\ v < w <=> p < q
            <4>1. ASSUME NEW i \in p .. q PROVE i - x \in v .. w /\ i \in 1 .. x + y /\ ~ (i <= x)
                BY <1>1, <2>0, <2>2
            <4>2. ASSUME NEW i \in v .. w
                  PROVE  x + i \in p .. q /\ x + i \in 1 .. x + y /\ ~ (x + i <= x) /\ (x + i) - x = i
                BY <1>1, <2>0, <2>2
            <4>3. v < w <=> p < q
                BY <1>1, <2>0
            <4> QED BY <1>2, <4>1, <4>2, <4>3
        <3> HIDE DEF v, w
        <3>3. /\ Level(a, b) /\ a.x < b.x => v < w /\ \A i \in v .. w : t[i] # Newline
              /\ Ahead(a, b, down) => v < w /\ \E i \in v .. w : t[i] = Newline
            BY <3>1 DEF ReadAs, y
        <3>4. ASSUME Level(a, b), a.x < b.x PROVE p < q /\ \A i \in p .. q : st[i] # Newline
            BY <3>2, <3>3, <3>4
        <3>5. ASSUME Ahead(a, b, down) PROVE p < q /\ \E i \in p .. q : st[i] = Newline
            BY <3>2, <3>3, <3>5
        <3> QED BY <3>4, <3>5
    <2>3. CASE p <= x /\ ~ (q <= x)
        <3>1. a \in A /\ b \in B
            BY <1>7, <1>8, <2>3
        <3>2. Ahead(a, b, down) /\ ~ Level(a, b)
            BY <3>1 DEF Ahead
        <3>3. t[1] = Newline /\ y # 0
            BY <1>3, <3>1
        <3>4. x + 1 \in p .. q /\ x + 1 \in 1 .. x + y /\ ~ (x + 1 <= x) /\ (x + 1) - x = 1 /\ p < q
            BY <1>1, <2>0, <2>3, <3>3
        <3>5. st[x + 1] = Newline
            BY <1>2, <3>3, <3>4
        <3> QED BY <3>2, <3>4, <3>5
    <2>4. CASE ~ (p <= x) /\ q <= x
        <3>1. a \in B /\ b \in A
            BY <1>7, <1>8, <2>4
        <3>2. ~ Ahead(a, b, down) /\ ~ Level(a, b)
            <4>1. Ahead(b, a, down) /\ a \in R /\ b \in R
                BY <3>1
            <4> QED BY <4>1 DEF InRanks
        <3> QED BY <3>2
    <2> QED BY <2>1, <2>2, <2>3, <2>4
<1>9. ReadAs(st, A \cup B, down)
    BY <1>2, <1>6, <1>8 DEF ReadAs
<1> QED BY <1>9 DEF st

\* Rows one below the other.
LEMMA LinesRead ==
    ASSUME NEW R, NEW down, InRanks(R, down), OneEach(R), NEW W,
           NEW ls \in Seq(Seq(R)), NEW ts \in Seq(Seq(W)), Len(ls) = Len(ts),
           \A i, j \in 1 .. Len(ls) : i < j =>
               \A a \in ToSet(ls[i]), b \in ToSet(ls[j]) : Ahead(a, b, down),
           \A i \in 1 .. Len(ls) : ReadAs(ts[i], ToSet(ls[i]), down),
           \A i \in 1 .. Len(ls) : i # 1 => ts[i] # <<>> /\ ts[i][1] = Newline,
           NEW All, \A a : a \in All <=> \E i \in 1 .. Len(ls) : a \in ToSet(ls[i])
    PROVE  ReadAs(FlattenSeq(ts), All, down)
<1> DEFINE n == Len(ls)
           Up(k) == SubSeq(ts, 1, k)
           A(k) == UNION {ToSet(ls[i]) : i \in 1 .. k}
           P == {k \in 0 .. n : ReadAs(FlattenSeq(Up(k)), A(k), down)}
<1>1. n \in Nat /\ 0 \in 0 .. n /\ n \in 0 .. n /\ Len(ts) = n
    OBVIOUS
<1>2. 0 \in P
    <2>1. Up(0) = <<>> /\ A(0) = {} /\ \A i \in 1 .. Len(<<>>) : <<>>[i] = Newline
        OBVIOUS
    <2>2. ReadAs(<<>>, {}, down)
        BY <2>1, ReadNothing
    <2> QED BY <1>1, <2>1, <2>2, FlattenNone
<1>3. ASSUME NEW k \in 0 .. n - 1, k \in P PROVE k + 1 \in P
    <2> DEFINE B == ToSet(ls[k + 1])
               u == ts[k + 1]
               f == FlattenSeq(Up(k))
    <2>1. k + 1 \in 1 .. n /\ k + 1 \in 0 .. n /\ k \in 0 .. n
        BY <1>1
    <2>2. u \in Seq(W)
        BY <1>1, <2>1, ElementOfSeq
    <2>3. Up(k) \in Seq(Seq(W))
        BY <1>1, <2>1
    <2>4. Up(k + 1) = Append(Up(k), u)
        BY <1>1, <2>1
    <2> HIDE DEF Up
    <2>5. f \in Seq(W) /\ FlattenSeq(Up(k + 1)) = f \o u
        BY <2>2, <2>3, <2>4, FlattenAppend
    <2>6. A(k + 1) = A(k) \cup B
        <3>1. \A i : i \in 1 .. k + 1 <=> i \in 1 .. k \/ i = k + 1
            BY <1>1, <2>1
        <3> QED BY <3>1
    <2>7. \A i \in 1 .. n : \A a \in ToSet(ls[i]) : a \in R
        <3> TAKE i \in 1 .. n
        <3>1. ls[i] \in Seq(R)
            BY ElementOfSeq
        <3>2. \A j \in 1 .. Len(ls[i]) : ls[i][j] \in R
            BY <3>1, ElementOfSeq
        <3> QED BY <3>1, <3>2 DEF ToSet
    <2>8. \A i \in 1 .. k : i \in 1 .. n /\ i < k + 1
        BY <1>1, <2>1
    <2>9. A(k) \in SUBSET R /\ B \in SUBSET R
        BY <2>1, <2>7, <2>8
    <2>10. \A a \in A(k), b \in B : Ahead(a, b, down)
        BY <2>1, <2>8
    <2>11. A(k) = {} \/ (u # <<>> /\ u[1] = Newline)
        <3>1. CASE k = 0
            BY <3>1
        <3>2. CASE k # 0
            <4>1. k + 1 # 1
                BY <1>1, <2>1, <3>2
            <4> QED BY <2>1, <4>1
        <3> QED BY <3>1, <3>2
    <2>12. ReadAs(f, A(k), down) /\ ReadAs(u, B, down)
        BY <1>3, <2>1
    <2> DEFINE Ak == A(k)
    <2>13. ReadAs(f \o u, Ak \cup B, down)
        <3>1. /\ Ak \in SUBSET R /\ \A a \in Ak, b \in B : Ahead(a, b, down)
              /\ Ak = {} \/ (u # <<>> /\ u[1] = Newline)
              /\ ReadAs(f, Ak, down)
            BY <2>9, <2>10, <2>11, <2>12
        <3> HIDE DEF f, u, Ak, B, A
        <3> QED BY <2>2, <2>5, <2>9, <2>12, <3>1, ReadOn
    <2> HIDE DEF f, u, B, A
    <2>14. ReadAs(FlattenSeq(Up(k + 1)), A(k + 1), down)
        BY <2>5, <2>6, <2>13 DEF Ak
    <2> QED BY <2>1, <2>14
<1>4. n \in P
    <2> HIDE DEF P, n
    <2>1. 0 .. n \subseteq P
        BY <1>1, <1>2, <1>3, IntervalInduct
    <2> QED BY <1>1, <2>1
<1>5. Up(n) = ts
    BY <1>1
<1>6. A(n) = All
    OBVIOUS
<1> HIDE DEF Up, A
<1> QED BY <1>4, <1>5, <1>6

\* Chunks on a page with clear rows.
LEMMA ChunksRead ==
    ASSUME NEW N, Newline \notin N, NEW cs \in Seq(Pieces(N)), cs # <<>>,
           NEW down \in {1, -1}, down = yDirection(cs), OneEach(ToSet(cs)),
           \A a, b, c \in ToSet(cs) : Level(a, b) /\ Level(b, c) => Level(a, c),
           \A a, b \in ToSet(cs) : ~ Level(a, b) => 2 * Far(a, b) > Widest(Ys(cs))
    PROVE  ReadAs(chunksToText(cs), ToSet(cs), down)
<1> DEFINE R == ToSet(cs)
           W == N \cup {Newline}
           threshold == TwiceThreshold(cs)
           sorted == InRows(cs, down)
           lines == Lines(sorted, threshold)
           line(i) == Sort(lines[i], LeftOf)
           ts == [i \in DOMAIN lines |-> Breaks(lines, i, threshold) \o Names(line(i))]
<1>1. chunksToText(cs) = FlattenSeq(ts)
    BY DEF chunksToText, InRows
<1>2. \A a \in R : a \in Pieces(N)
    BY PiecesOf
<1>3. \A a \in R : a.x \in Int
    BY <1>2 DEF Pieces
<1>4. \A a, b \in R : 2 * Far(a, b) > threshold <=> ~ Level(a, b)
    <2> TAKE a \in R, b \in R
    <2>1. ~ Level(a, b) => 2 * Far(a, b) > Widest(Ys(cs))
        OBVIOUS
    <2> QED BY <2>1, ThresholdTells
<1>5. cs \in Seq(R)
    <2>1. \A i \in 1 .. Len(cs) : cs[i] \in R
        BY DEF ToSet
    <2>2. cs = [i \in 1 .. Len(cs) |-> cs[i]] /\ Len(cs) \in Nat
        OBVIOUS
    <2> HIDE DEF R
    <2>3. cs \in [1 .. Len(cs) -> R]
        BY <2>1, <2>2
    <2> QED BY <2>2, <2>3
<1>6. R \in SUBSET Pieces(N) /\ OneEach(R)
    BY <1>2
<1>7. InRanks(R, down)
    <2>1. \A a, b, c \in R : Level(a, b) /\ Level(b, c) => Level(a, c)
        OBVIOUS
    <2> HIDE DEF R
    <2> QED BY <1>6, <2>1, LevelsRank
<1>8. SortedBy(RowOrder(R, down), R, cs, sorted)
    <2> HIDE DEF R
    <2> QED BY <1>5, RowSort
<1>9. sorted \in Seq(R) /\ ToSet(sorted) = R
    <2> HIDE DEF sorted
    <2> QED BY <1>5, <1>8, SortKeeps
<1> HIDE DEF threshold, sorted, R
<1>10. \A i, j \in 1 .. Len(sorted) : i < j => ~ Ahead(sorted[j], sorted[i], down)
    <2>1. InOrder(RowOrder(R, down), sorted)
        BY <1>5, <1>6, <1>7, <1>8, RanksOrder, SortOrders
    <2>2. \A i \in 1 .. Len(sorted) : sorted[i] \in R
        BY <1>9, ElementOfSeq
    <2>3. ASSUME NEW a \in R, NEW b \in R, Ahead(a, b, down) PROVE <<a, b>> \in RowOrder(R, down)
        <3>1. a \in Pieces(N) /\ b \in Pieces(N)
            BY <1>2
        <3>2. Before(a, b, down)
            BY <2>3, <3>1, BeforeIs
        <3> QED BY <3>2 DEF RowOrder
    <2> QED BY <2>1, <2>2, <2>3 DEF InOrder
<1>11. lines \in Seq(Seq(R))
    BY <1>9, LinesKeep
<1>12. Ranked(lines, sorted, Len(sorted), down)
    BY <1>4, <1>7, <1>9, <1>10, LinesRanked
<1> HIDE DEF lines
<1>13. ASSUME NEW i \in 1 .. Len(lines)
       PROVE  /\ ts[i] \in Seq(W) /\ ReadAs(ts[i], ToSet(lines[i]), down)
              /\ i # 1 => ts[i] # <<>> /\ ts[i][1] = Newline
    <2> DEFINE b == Breaks(lines, i, threshold)
               l == lines[i]
               s == line(i)
               L == LineOrder(R)
    <2>1. l \in Seq(R) /\ DOMAIN lines = 1 .. Len(lines)
        BY <1>11, ElementOfSeq
    <2>2. /\ b \in Seq({Newline}) /\ \A j \in 1 .. Len(b) : b[j] = Newline
          /\ i # 1 => b # <<>> /\ b[1] = Newline
        BY BreaksType
    <2>3. ts[i] = b \o Names(s)
        BY <2>1
    <2>4. SortedBy(L, R, l, s)
        BY <2>1, LineSort
    <2>5. \A c, d \in ToSet(l) : Level(c, d)
        BY <1>12 DEF Ranked
    <2> HIDE DEF b, l, s, L, W
    <2>6. s \in Seq(R) /\ ToSet(s) = ToSet(l)
        BY <2>1, <2>4, SortKeeps
    <2>7. \A j, k \in 1 .. Len(s) : j < k => ~ (s[k].x < s[j].x)
        <3>1. WeakOrder(L, R)
            BY <1>6, XsOrder DEF L
        <3>2. InOrder(L, s)
            BY <2>1, <2>4, <3>1, SortOrders
        <3>3. \A j \in 1 .. Len(s) : s[j] \in R
            BY <2>6, ElementOfSeq
        <3> QED BY <3>2, <3>3 DEF InOrder, L, LineOrder, LeftOf
    <2>8. ReadAs(Names(s), ToSet(l), down)
        <3>1. \A c, d \in ToSet(s) : Level(c, d)
            BY <2>5, <2>6
        <3>2. ReadAs(Names(s), ToSet(s), down)
            BY <1>3, <1>6, <1>7, <2>6, <2>7, <3>1, ReadRow
        <3> QED BY <2>6, <3>2
    <2>9. Names(s) \in Seq(W) /\ b \in Seq(W)
        <3>1. s \in Seq(Pieces(N))
            BY <1>6, <2>6
        <3>2. Names(s) \in Seq(N)
            BY <3>1, NamesType
        <3> QED BY <2>2, <3>2 DEF W
    <2>10. b \o Names(s) \in Seq(W)
        BY <2>9, ConcatProperties
    <2>11. ReadAs(b \o Names(s), ToSet(l), down)
        <3> DEFINE none == {}
                   row == ToSet(l)
        <3>1. ReadAs(b, none, down)
            BY <2>2, ReadNothing
        <3>2. none \in SUBSET R /\ \A c \in none, d \in row : Ahead(c, d, down)
            OBVIOUS
        <3>3. row \in SUBSET R
            <4>1. \A j \in 1 .. Len(l) : l[j] \in R
                BY <2>1, ElementOfSeq
            <4> QED BY <2>1, <4>1 DEF ToSet
        <3>4. none \cup row = row /\ none = {}
            OBVIOUS
        <3> HIDE DEF none, row
        <3>5. ReadAs(Names(s), row, down)
            BY <2>8 DEF row
        <3>6. ReadAs(b \o Names(s), none \cup row, down)
            BY <1>6, <1>7, <2>9, <3>1, <3>2, <3>3, <3>4, <3>5, ReadOn
        <3> QED BY <3>4, <3>6 DEF row
    <2>12. ASSUME i # 1 PROVE b \o Names(s) # <<>> /\ (b \o Names(s))[1] = Newline
        <3> DEFINE t == b \o Names(s)
        <3>1. Len(b) \in Nat /\ Len(Names(s)) \in Nat /\ Len(b) # 0 /\ b[1] = Newline
            BY <2>2, <2>9, <2>12
        <3>2. /\ Len(t) = Len(b) + Len(Names(s))
              /\ \A j \in 1 .. Len(b) + Len(Names(s)) :
                    t[j] = IF j <= Len(b) THEN b[j] ELSE Names(s)[j - Len(b)]
            BY <2>9, ConcatProperties
        <3>3. 1 \in 1 .. Len(b) + Len(Names(s)) /\ 1 <= Len(b)
            BY <3>1
        <3>4. t[1] = Newline /\ Len(t) # 0
            BY <3>1, <3>2, <3>3
        <3> HIDE DEF t
        <3>5. t # <<>>
            BY <3>4
        <3> QED BY <3>4, <3>5 DEF t
    <2> QED BY <2>3, <2>10, <2>11, <2>12 DEF l, s
<1>14. DOMAIN ts = 1 .. Len(lines) /\ Len(lines) \in Nat
    BY <1>11
<1> HIDE DEF ts, W
<1>15. ts \in Seq(Seq(W)) /\ Len(ts) = Len(lines)
    <2>1. ts = [i \in 1 .. Len(lines) |-> ts[i]]
        BY <1>14 DEF ts
    <2>2. ts \in [1 .. Len(lines) -> Seq(W)]
        BY <1>13, <2>1
    <2> QED BY <1>14, <2>2
<1>16. \A a : a \in R <=> \E i \in 1 .. Len(lines) : a \in ToSet(lines[i])
    <2>1. ASSUME NEW a \in R PROVE \E i \in 1 .. Len(lines) : a \in ToSet(lines[i])
        <3>1. PICK m \in 1 .. Len(sorted) : sorted[m] = a
            BY <1>9 DEF ToSet
        <3> QED BY <1>12, <3>1 DEF Ranked
    <2>2. ASSUME NEW i \in 1 .. Len(lines), NEW a \in ToSet(lines[i]) PROVE a \in R
        <3>1. PICK m \in 1 .. Len(sorted) : a = sorted[m]
            BY <1>12 DEF Ranked
        <3> QED BY <1>9, <3>1, ElementOfSeq
    <2> QED BY <2>1, <2>2
<1>17. ReadAs(FlattenSeq(ts), R, down)
    <2>1. \A i, j \in 1 .. Len(lines) : i < j =>
              \A a \in ToSet(lines[i]), b \in ToSet(lines[j]) : Ahead(a, b, down)
        BY <1>12 DEF Ranked
    <2>2. \A i \in 1 .. Len(lines) : ReadAs(ts[i], ToSet(lines[i]), down)
        BY <1>13
    <2>3. \A i \in 1 .. Len(lines) : i # 1 => ts[i] # <<>> /\ ts[i][1] = Newline
        BY <1>13
    <2>4. OneEach(R) /\ Len(lines) = Len(ts)
        BY <1>6, <1>15
    <2> QED BY <1>7, <1>11, <1>15, <1>16, <2>1, <2>2, <2>3, <2>4, LinesRead
<1> QED BY <1>1, <1>17 DEF R

-----------------------------------------------------------------------------
(* A legible page.                                                          *)

LEMMA YsEnds ==
    ASSUME NEW N, NEW cs \in Seq(Pieces(N)), cs # <<>>
    PROVE  Min(Ys(cs)) \in Int /\ Max(Ys(cs)) \in Int
<1> DEFINE ys == Ys(cs)
           t == RowsUp(cs)
           n == Len(t)
<1>1. /\ ys \subseteq Int /\ t \in Seq(ys) /\ ToSet(t) = ys
      /\ \A i, j \in 1 .. n : i < j => t[i] =< t[j]
    BY RowsSorted
<1>2. \E y : y \in ys
    <2>1. cs[1].y \in ys
        BY DEF Ys
    <2> QED BY <2>1
<1> HIDE DEF t, ys
<1>3. n \in Nat /\ DOMAIN t = 1 .. n
    BY <1>1
<1>4. \A i \in 1 .. n : t[i] \in ys
    BY <1>1, ElementOfSeq
<1> HIDE DEF n
<1>5. n # 0
    <2>1. n = 0 => DOMAIN t = {}
        BY <1>3
    <2> QED BY <1>1, <1>2, <2>1 DEF ToSet
<1>6. 1 \in 1 .. n /\ n \in 1 .. n
    BY <1>3, <1>5
<1>7. ASSUME NEW y \in ys PROVE t[1] =< y /\ y =< t[n]
    <2>1. PICK i \in 1 .. n : t[i] = y
        BY <1>1, <1>3 DEF ToSet
    <2>2. (i = 1 \/ 1 < i) /\ (i = n \/ i < n)
        BY <1>3
    <2>3. t[1] \in Int /\ t[n] \in Int /\ y \in Int
        BY <1>1, <1>4, <1>6
    <2>4. t[1] =< y
        BY <1>1, <1>6, <2>1, <2>2, <2>3
    <2>5. y =< t[n]
        BY <1>1, <1>6, <2>1, <2>2, <2>3
    <2> QED BY <2>4, <2>5
<1>8. Min(ys) \in ys
    <2>1. \E x \in ys : \A y \in ys : x =< y
        BY <1>4, <1>6, <1>7
    <2> QED BY <2>1 DEF Min
<1>9. Max(ys) \in ys
    <2>1. t[n] \in ys /\ \A y \in ys : t[n] \in Int /\ y \in Int /\ y =< t[n]
        BY <1>1, <1>4, <1>6, <1>7
    <2>2. \E x \in ys : \A y \in ys : x >= y
        BY <2>1
    <2> QED BY <2>2 DEF Max
<1> QED BY <1>1, <1>8, <1>9 DEF ys

\* What stands from p to q.
LEMMA FromTo ==
    ASSUME NEW W, NEW t \in Seq(W), NEW p \in 1 .. Len(t), NEW q \in 1 .. Len(t), NEW w
    PROVE  w \in ToSet(SubSeq(t, p, q)) <=> \E i \in p .. q : t[i] = w
<1> DEFINE n == Len(t)
           sub == SubSeq(t, p, q)
<1>1. n \in Nat /\ p \in Int /\ q \in Int
    OBVIOUS
<1>2. sub = [i \in 1 .. (q - p + 1) |-> t[i + p - 1]]
    OBVIOUS
<1> HIDE DEF sub, n
<1>3. ASSUME w \in ToSet(sub) PROVE \E i \in p .. q : t[i] = w
    <2>1. PICK i \in 1 .. (q - p + 1) : sub[i] = w
        BY <1>2, <1>3 DEF ToSet
    <2>2. i + p - 1 \in p .. q /\ t[i + p - 1] = w
        BY <1>1, <1>2, <2>1
    <2> QED BY <2>2
<1>4. ASSUME NEW i \in p .. q, t[i] = w PROVE w \in ToSet(sub)
    <2>1. i - p + 1 \in 1 .. (q - p + 1) /\ (i - p + 1) + p - 1 = i
        BY <1>1
    <2>2. sub[i - p + 1] = w
        BY <1>2, <1>4, <2>1
    <2>3. i - p + 1 \in DOMAIN sub
        BY <1>2, <2>1
    <2> QED BY <2>2, <2>3 DEF ToSet
<1> QED BY <1>3, <1>4 DEF sub

LEMMA PlaceIsThere ==
    ASSUME NEW N, NEW cs \in Seq(Pieces(N)), NEW W, NEW t \in Seq(W), Told(cs, t),
           NEW a \in ToSet(cs)
    PROVE  PlaceIn(t, a.name) \in 1 .. Len(t) /\ t[PlaceIn(t, a.name)] = a.name
<1> DEFINE m == Len(t)
           I == {i \in 1 .. m : t[i] = a.name}
<1>1. PICK k \in DOMAIN cs : cs[k] = a
    BY DEF ToSet
<1>2. PICK p : Tells(p, cs, t)
    BY DEF Told
<1>3. k \in 1 .. Len(cs) /\ m \in Nat
    OBVIOUS
<1>4. p[k] \in 1 .. m /\ t[p[k]] = a.name
    BY <1>1, <1>2, <1>3 DEF Tells, Stable
<1>5. DOMAIN t = 1 .. m
    OBVIOUS
<1> HIDE DEF m
<1>6. PlaceIn(t, a.name) = IF I # {} THEN Min(I) ELSE 0
    BY <1>5 DEF PlaceIn, SelectInSeq, m
<1>7. I # {} /\ I \subseteq Nat
    BY <1>3, <1>4
<1> HIDE DEF I
<1>8. Min(I) \in I
    BY <1>7, MinIsSmallest
<1>9. PlaceIn(t, a.name) \in I
    BY <1>6, <1>7, <1>8
<1> QED BY <1>9 DEF I, m

LEMMA LegibleShows == InterpInv /\ DrawnInv => ReadsInOrder
<1> SUFFICES ASSUME InterpInv, DrawnInv, text # None, page.plain = <<>>, Legible,
                    NEW a \in Chunks, NEW b \in Chunks
             PROVE  /\ Level(a, b) /\ a.x < b.x =>
                          /\ Position(a) < Position(b)
                          /\ Newline \notin ToSet(SubSeq(text, Position(a), Position(b)))
                    /\ ~ Level(a, b) /\ Above(a, b) =>
                          /\ Position(a) < Position(b)
                          /\ Newline \in ToSet(SubSeq(text, Position(a), Position(b)))
    BY DEF ReadsInOrder, Extracted
<1> DEFINE N == (DOMAIN page.forms) \X Nat \X Nat
           W == N \cup {Newline}
           cs == chunks
           t == text
           down == IF page.down THEN 1 ELSE -1
           A == ToSet(cs)
<1>1. text = chunksToText(cs)
    BY DEF DrawnInv, TextInv
<1>2. cs \in Seq(Pieces(N)) /\ cs # <<>>
    BY DEF InterpInv, TypeOK, Records, Pieces, Legible
<1>3. Newline \notin N
    BY DEF Newline
<1>4. t \in Seq(W) /\ Told(cs, t)
    <2>1. chunksToText(cs) \in Seq(N \cup {Newline}) /\ Told(cs, chunksToText(cs))
        <3> HIDE DEF N, cs
        <3> QED BY <1>2, ChunksTold
    <2> QED BY <1>1, <2>1
<1>5. down \in {1, -1} /\ down = yDirection(cs)
    <2>1. Min(Ys(cs)) \in Int /\ Max(Ys(cs)) \in Int
        <3> HIDE DEF N, cs
        <3> QED BY <1>2, YsEnds
    <2>2. TopIsEvident
        BY DEF Legible
    <2> QED BY <2>1, <2>2 DEF TopIsEvident, yDirection
<1>6. OneEach(A)
    <2>1. ASSUME NEW c \in A PROVE c.name # Newline
        <3>1. c \in Pieces(N)
            <4> HIDE DEF N, cs
            <4> QED BY <1>2, <2>1, PiecesOf
        <3> QED BY <1>3, <3>1 DEF Pieces
    <2>2. ASSUME NEW c \in A, NEW d \in A, c.name = d.name PROVE c = d
        <3>1. Placed(chunks, page.forms)
            BY DEF InterpInv, PlacedInv
        <3>2. PICK k \in DOMAIN chunks : chunks[k] = c
            BY DEF ToSet
        <3>3. PICK l \in DOMAIN chunks : chunks[l] = d
            BY DEF ToSet
        <3>4. /\ c = Chunk(c.name, Place(page.forms[c.name[1]].ops, c.name[2]))
              /\ d = Chunk(d.name, Place(page.forms[d.name[1]].ops, d.name[2]))
            BY <3>1, <3>2, <3>3 DEF Placed
        <3> QED BY <2>2, <3>4
    <2> QED BY <2>1, <2>2 DEF OneEach
<1>7. \A c, d, e \in A : Level(c, d) /\ Level(d, e) => Level(c, e)
    BY DEF Legible, Chunks
<1>8. \A c, d \in A : ~ Level(c, d) => 2 * Far(c, d) > Widest(Ys(cs))
    <2> TAKE c \in A, d \in A
    <2>1. c \in Pieces(N)
        <3> HIDE DEF N, cs
        <3> QED BY <1>2, PiecesOf
    <2>2. c = d => Level(c, d)
        <3> HIDE DEF N, cs
        <3> QED BY <2>1, LevelTypes
    <2>3. WidestGap = Widest(Ys(cs))
        BY DEF WidestGap, Widest
    <2> QED BY <2>2, <2>3 DEF Legible, Chunks
<1>9. a \in A /\ b \in A
    BY DEF Chunks
<1>10. ReadAs(t, A, down)
    <2>1. ReadAs(chunksToText(cs), ToSet(cs), down)
        <3> HIDE DEF N, cs, down
        <3> QED BY <1>2, <1>3, <1>5, <1>6, <1>7, <1>8, ChunksRead
    <2> QED BY <1>1, <2>1
<1>11. a.y \in Int /\ b.y \in Int
    <2>1. a \in Pieces(N) /\ b \in Pieces(N)
        <3> HIDE DEF N, cs
        <3> QED BY <1>2, <1>9, PiecesOf
    <2> QED BY <2>1 DEF Pieces
<1>12. ~ Level(a, b) /\ Above(a, b) => Ahead(a, b, down)
    BY <1>11 DEF Above, Ahead
<1> DEFINE p == Position(a)
           q == Position(b)
<1>13. /\ p \in 1 .. Len(t) /\ t[p] = a.name
       /\ q \in 1 .. Len(t) /\ t[q] = b.name
    <2>1. \A c \in A : PlaceIn(t, c.name) \in 1 .. Len(t) /\ t[PlaceIn(t, c.name)] = c.name
        <3> HIDE DEF N, W, cs, t
        <3> QED BY <1>2, <1>4, PlaceIsThere
    <2> QED BY <1>9, <2>1 DEF Position, PlaceIn
<1>14. Newline \in ToSet(SubSeq(t, p, q)) <=> \E i \in p .. q : t[i] = Newline
    <2> HIDE DEF N, W, t, p, q
    <2> QED BY <1>4, <1>13, FromTo
<1>15. /\ Level(a, b) /\ a.x < b.x => p < q /\ \A i \in p .. q : t[i] # Newline
       /\ Ahead(a, b, down) => p < q /\ \E i \in p .. q : t[i] = Newline
    <2> HIDE DEF N, W, t, p, q, A, down
    <2> QED BY <1>9, <1>10, <1>13 DEF ReadAs
<1> HIDE DEF down, N, W, A
<1> QED BY <1>12, <1>14, <1>15

\* For every set of pages, on which rows and columns can be told apart: the text
\* reads row by row, from the top, and from left to right, with line breaks where
\* a row ends and nowhere else. The first sort's order is a true one on such a
\* page and no two chunks are alike in it, so it does not matter how the sort
\* goes; and the threshold lies below the distance of any two rows
\* (pdf.go:283-416).
THEOREM LegibleReadsInOrder == Spec => []ReadsInOrder
<1>1. Init => InterpInv /\ DrawnInv
    BY InitInterp, InitDrawn
<1>2. (InterpInv /\ DrawnInv) /\ [Next]_vars => (InterpInv /\ DrawnInv)'
    BY NextInterp, NextDrawn
<1>3. InterpInv /\ DrawnInv => ReadsInOrder
    BY LegibleShows
<1> QED BY <1>1, <1>2, <1>3, PTL DEF Spec
================================================================================
