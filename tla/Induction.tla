------------------------------- MODULE Induction -------------------------------
(***************************************************************************)
(* Induction over numbers and sequences, with sets in the place of          *)
(* predicates so that a first-order prover can use it, and what it gives    *)
(* for the operators of SequencesExt that are defined by recursion.         *)
(***************************************************************************)
EXTENDS Integers, Sequences, SequencesExt, SequenceTheorems, WellFoundedInduction, TLAPS

\* Less than, on numbers, as a relation that has no endless descent.
LEMMA LessIsWellFounded ==
    \E R : IsWellFoundedOn(R, Nat) /\ \A m, n \in Nat : m < n => <<m, n>> \in R
<1> DEFINE R == OpToRel(<, Nat)
<1>1. IsWellFoundedOn(R, Nat)
    BY NatLessThanWellFounded, Zenon
<1>2. \A m, n \in Nat : m < n => <<m, n>> \in R
    BY DEF OpToRel
<1> HIDE DEF R
<1> QED BY <1>1, <1>2

\* A set of numbers has a smallest one.
LEMMA Smallest ==
    ASSUME NEW T, T \subseteq Nat, T # {}
    PROVE  \E n \in T : \A m \in T : n <= m
<1>1. PICK R : IsWellFoundedOn(R, Nat) /\ \A m, n \in Nat : m < n => <<m, n>> \in R
    BY LessIsWellFounded
<1>2. IsWellFoundedOn(R, Nat)
    BY <1>1
<1>3. \E n \in T : \A m \in T : ~(<<m, n>> \in R)
    BY <1>2, WFMin
<1>4. \A m, n \in T : ~(<<m, n>> \in R) => n <= m
    BY <1>1
<1> QED BY <1>3, <1>4

\* What holds of 0 and of the successor of each number it holds of.
LEMMA NatInduct ==
    ASSUME NEW P, 0 \in P, \A n \in Nat : n \in P => n + 1 \in P
    PROVE  Nat \subseteq P
<1> SUFFICES ASSUME Nat \ P # {} PROVE FALSE
    OBVIOUS
<1>1. PICK n \in Nat \ P : \A m \in Nat \ P : n <= m
    BY Smallest
<1>2. n - 1 \in Nat
    BY <1>1
<1>3. n - 1 \in P
    BY <1>1, <1>2
<1> QED BY <1>1, <1>2, <1>3

\* What holds of m and of the successor, up to n, of each number it holds of.
LEMMA IntervalInduct ==
    ASSUME NEW P, NEW m \in Nat, NEW n \in Nat, m \in P,
           \A k \in m .. n - 1 : k \in P => k + 1 \in P
    PROVE  m .. n \subseteq P
<1> DEFINE Q == {k \in Nat : m <= k /\ k <= n => k \in P}
<1>1. 0 \in Q /\ \A k \in Nat : k \in Q => k + 1 \in Q
    OBVIOUS
<1>2. Nat \subseteq Q
    BY <1>1, NatInduct
<1> QED BY <1>2

\* What holds of each number of 0 .. n if it holds of those above it, up to n.
LEMMA DownInduct ==
    ASSUME NEW P, NEW n \in Nat,
           \A k \in 0 .. n : (\A j \in k + 1 .. n : j \in P) => k \in P
    PROVE  0 .. n \subseteq P
<1> DEFINE Q == {m \in Nat : \A j \in 0 .. n : n - m <= j => j \in P}
<1>1. 0 \in Q
    <2>1. \A j \in 0 .. n : n - 0 <= j => j = n /\ n + 1 .. n = {}
        OBVIOUS
    <2> QED BY <2>1
<1>2. ASSUME NEW m \in Nat, m \in Q PROVE m + 1 \in Q
    <2> SUFFICES ASSUME NEW j \in 0 .. n, n - (m + 1) <= j PROVE j \in P
        OBVIOUS
    <2>1. \A i \in j + 1 .. n : i \in 0 .. n /\ n - m <= i
        OBVIOUS
    <2> QED BY <1>2, <2>1
<1>3. n \in Q
    <2> HIDE DEF Q
    <2> QED BY <1>1, <1>2, NatInduct
<1> QED BY <1>3

\* What holds of the empty sequence, and of each sequence it holds of with one
\* more element.
LEMMA SeqInduct ==
    ASSUME NEW E, NEW P, <<>> \in P,
           \A s \in Seq(E), x \in E : s \in P => Append(s, x) \in P
    PROVE  Seq(E) \subseteq P
<1> DEFINE N == {n \in Nat : \A s \in Seq(E) : Len(s) = n => s \in P}
<1>1. 0 \in N
    OBVIOUS
<1>2. ASSUME NEW n \in Nat, n \in N PROVE n + 1 \in N
    <2> SUFFICES ASSUME NEW s \in Seq(E), Len(s) = n + 1 PROVE s \in P
        OBVIOUS
    <2>1. /\ SubSeq(s, 1, n) \in Seq(E) /\ Len(SubSeq(s, 1, n)) = n /\ s[n + 1] \in E
          /\ s = Append(SubSeq(s, 1, n), s[n + 1])
        OBVIOUS
    <2> QED BY <1>2, <2>1
<1> HIDE DEF N
<1>3. Nat \subseteq N
    BY <1>1, <1>2, NatInduct
<1> QED BY <1>3 DEF N

-----------------------------------------------------------------------------
(* The greatest and the smallest number of a set.                           *)

\* A set that reaches from below up to k has k as its greatest number.
LEMMA MaxOfInterval ==
    ASSUME NEW k \in Nat, NEW S, S \subseteq 1 .. k, k \in S
    PROVE  Max(S) = k
<1>1. \A x \in S : x \in Int /\ x <= k
    OBVIOUS
<1>2. \A x \in S : (\A y \in S : x >= y) => x = k
    BY <1>1
<1> QED BY <1>1, <1>2 DEF Max

\* A bounded set of numbers has a greatest one.
LEMMA GreatestOfInterval ==
    ASSUME NEW k \in Nat, NEW S, S \subseteq 1 .. k, S # {}
    PROVE  \E x \in S : \A y \in S : x >= y
<1> DEFINE T == {n \in Nat : \E x \in S : n = k - x}
<1>1. T \subseteq Nat /\ T # {}
    <2>1. PICK x \in S : TRUE
        OBVIOUS
    <2>2. x \in Int /\ k - x \in Nat
        BY <2>1
    <2>3. k - x \in T
        BY <2>1, <2>2
    <2> QED BY <2>3
<1>2. PICK n \in T : \A m \in T : n <= m
    BY <1>1, Smallest
<1>3. PICK x \in S : n = k - x
    BY <1>2
<1>4. \A y \in S : k - y \in T
    OBVIOUS
<1>5. \A y \in S : y \in Int /\ n <= k - y
    BY <1>2, <1>4
<1>6. \A y \in S : x >= y
    BY <1>3, <1>5
<1> QED BY <1>6

\* What Min picks is in the set, and below all of it.
LEMMA MinIsSmallest ==
    ASSUME NEW S, S \subseteq Nat, S # {}
    PROVE  Min(S) \in S /\ \A y \in S : Min(S) <= y
<1>1. \E x \in S : \A y \in S : x <= y
    BY Smallest
<1> QED BY <1>1 DEF Min

-----------------------------------------------------------------------------
(* FlattenSeq. *)

\* f[i]: the first i sequences of ss, one after the other.
IsFlattening(f, ss) ==
    f = [i \in 1 .. Len(ss) |-> IF i = 1 THEN ss[i] ELSE f[i - 1] \o ss[i]]

\* Every sequence of sequences has a flattening: the recursion that FlattenSeq
\* chooses a solution of has one.
LEMMA FlatteningExists ==
    ASSUME NEW E, NEW ss \in Seq(Seq(E))
    PROVE  \E f : IsFlattening(f, ss)
<1> DEFINE P == {s \in Seq(Seq(E)) : \E f : IsFlattening(f, s)}
<1>1. <<>> \in P
    <2>1. IsFlattening([i \in 1 .. Len(<<>>) |->
             IF i = 1 THEN <<>>[i] ELSE <<>>[i - 1] \o <<>>[i]], <<>>)
        BY DEF IsFlattening
    <2> QED BY <2>1
<1>2. ASSUME NEW s \in Seq(Seq(E)), NEW x \in Seq(E), s \in P PROVE Append(s, x) \in P
    <2>1. PICK f : IsFlattening(f, s)
        BY <1>2
    <2> DEFINE n == Len(s)
               g == [i \in 1 .. n + 1 |->
                       IF i = n + 1 THEN (IF n = 0 THEN x ELSE f[n] \o x) ELSE f[i]]
    <2>2. Len(Append(s, x)) = n + 1 /\ n \in Nat
        OBVIOUS
    <2>3. ASSUME NEW i \in 1 .. n + 1
          PROVE  g[i] = IF i = 1 THEN Append(s, x)[i] ELSE g[i - 1] \o Append(s, x)[i]
        <3>1. CASE i = n + 1
            BY <3>1
        <3>2. CASE i # n + 1
            <4>1. i \in 1 .. n /\ Append(s, x)[i] = s[i] /\ g[i] = f[i]
                BY <3>2
            <4>2. i # 1 => i - 1 \in 1 .. n /\ g[i - 1] = f[i - 1]
                BY <4>1
            <4> QED BY <2>1, <4>1, <4>2 DEF IsFlattening
        <3> QED BY <3>1, <3>2
    <2> HIDE DEF g
    <2>4. g = [i \in 1 .. Len(Append(s, x)) |->
                 IF i = 1 THEN Append(s, x)[i] ELSE g[i - 1] \o Append(s, x)[i]]
        <3>1. g = [i \in 1 .. n + 1 |-> g[i]]
            BY DEF g
        <3> QED BY <2>2, <2>3, <3>1
    <2>5. IsFlattening(g, Append(s, x))
        BY <2>4 DEF IsFlattening
    <2>6. Append(s, x) \in Seq(Seq(E))
        OBVIOUS
    <2> QED BY <2>5, <2>6
<1> HIDE DEF P
<1>3. Seq(Seq(E)) \subseteq P
    BY <1>1, <1>2, SeqInduct
<1> QED BY <1>3 DEF P

\* What FlattenSeq computes is a flattening.
LEMMA FlattenSeqUnfolds ==
    ASSUME NEW E, NEW ss \in Seq(Seq(E)), Len(ss) # 0
    PROVE  \E f : IsFlattening(f, ss) /\ FlattenSeq(ss) = f[Len(ss)]
<1> DEFINE f == CHOOSE g : IsFlattening(g, ss)
<1>1. IsFlattening(f, ss)
    BY FlatteningExists
<1>2. FlattenSeq(ss) = f[Len(ss)]
    BY DEF FlattenSeq, IsFlattening
<1> QED BY <1>1, <1>2

\* A flattening, one place after the other.
LEMMA FlatteningStep ==
    ASSUME NEW ss, NEW f, IsFlattening(f, ss), NEW i \in 1 .. Len(ss)
    PROVE  f[i] = IF i = 1 THEN ss[i] ELSE f[i - 1] \o ss[i]
BY DEF IsFlattening

\* Each place of a flattening is a sequence of the elements.
LEMMA FlatteningType ==
    ASSUME NEW E, NEW ss \in Seq(Seq(E)), NEW f, IsFlattening(f, ss)
    PROVE  \A i \in 1 .. Len(ss) : f[i] \in Seq(E)
<1> DEFINE P == {i \in 1 .. Len(ss) : f[i] \in Seq(E)}
<1>1. \A i \in 1 .. Len(ss) : ss[i] \in Seq(E)
    OBVIOUS
<1>2. CASE Len(ss) # 0
    <2>0. /\ Len(ss) \in Nat /\ 1 \in 1 .. Len(ss)
          /\ \A i \in 1 .. Len(ss) : f[i] = IF i = 1 THEN ss[i] ELSE f[i - 1] \o ss[i]
        BY <1>2, FlatteningStep
    <2>1. 1 \in P
        BY <1>1, <1>2, <2>0
    <2>2. ASSUME NEW k \in 1 .. Len(ss) - 1, k \in P PROVE k + 1 \in P
        <3>1. k + 1 \in 1 .. Len(ss) /\ k + 1 # 1 /\ (k + 1) - 1 = k
            BY <2>0
        <3>2. f[k + 1] = f[k] \o ss[k + 1]
            BY <2>0, <3>1
        <3>3. f[k] \o ss[k + 1] \in Seq(E)
            BY <1>1, <2>2, <3>1
        <3> QED BY <3>1, <3>2, <3>3
    <2> HIDE DEF P
    <2>3. 1 .. Len(ss) \subseteq P
        BY <2>0, <2>1, <2>2, IntervalInduct
    <2> QED BY <2>3 DEF P
<1> QED BY <1>2

\* Of no sequences comes the empty one.
LEMMA FlattenNone == FlattenSeq(<<>>) = <<>>
BY DEF FlattenSeq

\* One more sequence is appended to what the others gave.
LEMMA FlattenAppend ==
    ASSUME NEW E, NEW ss \in Seq(Seq(E)), NEW x \in Seq(E)
    PROVE  /\ FlattenSeq(ss) \in Seq(E)
           /\ FlattenSeq(Append(ss, x)) = FlattenSeq(ss) \o x
<1> DEFINE n == Len(ss)
           tt == Append(ss, x)
<1>1. /\ tt \in Seq(Seq(E)) /\ Len(tt) = n + 1 /\ n \in Nat /\ tt[n + 1] = x
      /\ \A i \in 1 .. n : tt[i] = ss[i]
    OBVIOUS
<1> HIDE DEF tt, n
<1>2. PICK g : IsFlattening(g, tt) /\ FlattenSeq(tt) = g[n + 1]
    BY <1>1, FlattenSeqUnfolds
<1>5. \A i \in 1 .. n + 1 : g[i] = IF i = 1 THEN tt[i] ELSE g[i - 1] \o tt[i]
    <2>1. \A i \in 1 .. Len(tt) : g[i] = IF i = 1 THEN tt[i] ELSE g[i - 1] \o tt[i]
        BY <1>2, FlatteningStep
    <2> QED BY <1>1, <2>1
<1>3. CASE n = 0
    <2>1. ss = <<>> /\ <<>> \in Seq(E) /\ <<>> \o x = x
        BY <1>3 DEF n
    <2>2. g[n + 1] = x
        BY <1>1, <1>3, <1>5
    <2>3. FlattenSeq(ss) = <<>>
        BY <2>1, FlattenNone
    <2> QED BY <1>2, <2>1, <2>2, <2>3 DEF tt
<1>4. CASE n # 0
    <2>1. PICK f : IsFlattening(f, ss) /\ FlattenSeq(ss) = f[n]
        BY <1>4, FlattenSeqUnfolds DEF n
    <2> DEFINE P == {i \in 1 .. n : f[i] = g[i]}
    <2>2. \A i \in 1 .. n : f[i] = IF i = 1 THEN ss[i] ELSE f[i - 1] \o ss[i]
        BY <2>1, FlatteningStep DEF n
    <2>4. 1 \in P
        <3>1. 1 \in 1 .. n /\ 1 \in 1 .. n + 1
            BY <1>1, <1>4
        <3> QED BY <3>1, <1>1, <1>5, <2>2
    <2>5. ASSUME NEW k \in 1 .. n - 1, k \in P PROVE k + 1 \in P
        <3>1. k + 1 \in 1 .. n /\ k + 1 \in 1 .. n + 1 /\ (k + 1) - 1 = k /\ k + 1 # 1
            BY <1>1
        <3>2. f[k + 1] = f[k] \o ss[k + 1]
            BY <3>1, <2>2
        <3>3. g[k + 1] = g[k] \o ss[k + 1]
            BY <3>1, <1>5, <1>1
        <3> QED BY <3>1, <3>2, <3>3, <2>5
    <2> HIDE DEF P
    <2>6. 1 .. n \subseteq P
        <3>1. 1 \in Nat
            OBVIOUS
        <3> QED BY <1>1, <2>4, <2>5, <3>1, IntervalInduct
    <2>7. f[n] = g[n]
        <3>1. n \in 1 .. n
            BY <1>1, <1>4
        <3> QED BY <3>1, <2>6 DEF P
    <2>8. g[n + 1] = g[n] \o x
        <3>1. n + 1 \in 1 .. n + 1 /\ n + 1 # 1 /\ (n + 1) - 1 = n
            BY <1>1, <1>4
        <3> QED BY <3>1, <1>1, <1>5
    <2>9. f[n] \in Seq(E)
        <3>1. n \in 1 .. n
            BY <1>1, <1>4
        <3> QED BY <2>1, <3>1, FlatteningType DEF n
    <2> QED BY <1>2, <2>1, <2>7, <2>8, <2>9 DEF tt
<1> QED BY <1>3, <1>4

\* FlattenSeq gives a sequence of the elements.
LEMMA FlattenType ==
    ASSUME NEW E, NEW ss \in Seq(Seq(E))
    PROVE  FlattenSeq(ss) \in Seq(E)
BY FlattenAppend

\* The first sequence, if it is not empty, is the beginning of the whole.
LEMMA FlattenFirst ==
    ASSUME NEW E, NEW ss \in Seq(Seq(E)), ss # <<>>, ss[1] # <<>>
    PROVE  FlattenSeq(ss) # <<>> /\ FlattenSeq(ss)[1] = ss[1][1]
<1>0. Len(ss) \in Nat /\ Len(ss) # 0 /\ 1 \in 1 .. Len(ss) /\ Len(ss) \in 1 .. Len(ss)
    OBVIOUS
<1>1. PICK f : IsFlattening(f, ss) /\ FlattenSeq(ss) = f[Len(ss)]
    BY <1>0, FlattenSeqUnfolds
<1>2. \A i \in 1 .. Len(ss) : /\ f[i] = IF i = 1 THEN ss[i] ELSE f[i - 1] \o ss[i]
                              /\ f[i] \in Seq(E) /\ ss[i] \in Seq(E)
    BY <1>1, FlatteningStep, FlatteningType
<1> DEFINE P == {i \in 1 .. Len(ss) : f[i] # <<>> /\ f[i][1] = ss[1][1]}
<1>3. 1 \in P
    BY <1>0, <1>2
<1>4. ASSUME NEW k \in 1 .. Len(ss) - 1, k \in P PROVE k + 1 \in P
    <2>1. k \in 1 .. Len(ss) /\ k + 1 \in 1 .. Len(ss) /\ k + 1 # 1 /\ (k + 1) - 1 = k
        BY <1>0
    <2>2. /\ f[k + 1] = f[k] \o ss[k + 1] /\ f[k] \in Seq(E) /\ ss[k + 1] \in Seq(E)
          /\ f[k] # <<>> /\ f[k][1] = ss[1][1]
        BY <1>2, <1>4, <2>1
    <2>3. ASSUME NEW s \in Seq(E), NEW t \in Seq(E), s # <<>>
          PROVE  s \o t # <<>> /\ (s \o t)[1] = s[1]
        BY <2>3
    <2>4. f[k + 1] # <<>> /\ f[k + 1][1] = ss[1][1]
        BY <2>2, <2>3
    <2> QED BY <2>1, <2>4
<1> HIDE DEF P
<1>5. 1 .. Len(ss) \subseteq P
    BY <1>0, <1>3, <1>4, IntervalInduct
<1> QED BY <1>0, <1>1, <1>5 DEF P

\* Sequences of one element each give the sequence of the elements.
LEMMA FlattenSingles ==
    ASSUME NEW E, NEW s \in Seq(E)
    PROVE  FlattenSeq([i \in DOMAIN s |-> <<s[i]>>]) = s
<1> DEFINE Singles(t) == [i \in DOMAIN t |-> <<t[i]>>]
           P == {t \in Seq(E) : FlattenSeq(Singles(t)) = t}
<1>1. <<>> \in P
    <2>1. Singles(<<>>) = <<>>
        OBVIOUS
    <2> QED BY <2>1, FlattenNone
<1>2. ASSUME NEW t \in Seq(E), NEW x \in E, t \in P PROVE Append(t, x) \in P
    <2>1. Singles(t) \in Seq(Seq(E)) /\ <<x>> \in Seq(E)
        <3>1. Len(t) \in Nat /\ DOMAIN t = 1 .. Len(t) /\ \A i \in 1 .. Len(t) : t[i] \in E
            OBVIOUS
        <3>2. \A i \in 1 .. Len(t) : <<t[i]>> \in Seq(E)
            BY <3>1
        <3>3. Singles(t) \in [1 .. Len(t) -> Seq(E)]
            BY <3>1, <3>2
        <3> HIDE DEF Singles
        <3> QED BY <3>1, <3>3
    <2>2. Singles(Append(t, x)) = Append(Singles(t), <<x>>)
        OBVIOUS
    <2>3. FlattenSeq(Append(Singles(t), <<x>>)) = FlattenSeq(Singles(t)) \o <<x>>
        BY <2>1, FlattenAppend
    <2>4. Append(t, x) = t \o <<x>> /\ Append(t, x) \in Seq(E)
        BY AppendIsConcat
    <2> HIDE DEF Singles
    <2> QED BY <1>2, <2>2, <2>3, <2>4
<1> HIDE DEF P
<1>3. Seq(E) \subseteq P
    BY <1>1, <1>2, SeqInduct
<1> QED BY <1>3 DEF P

-----------------------------------------------------------------------------
(* FoldLeft takes the places of its sequence from the last to the first.    *)

\* it[S]: the elements of s at the places S, folded.
IsIteration(it, step, base, s) ==
    it = [S \in SUBSET DOMAIN s |->
            IF S = {} THEN base ELSE step[<<it[S \ {Max(S)}], s[Max(S)]>>]]

\* The recursion over sets of places that FoldLeft stands for has a solution.
LEMMA IterationExists ==
    ASSUME NEW X, NEW E, NEW step \in [X \X E -> X], NEW base \in X, NEW s \in Seq(E)
    PROVE  \E it \in [SUBSET DOMAIN s -> X] : IsIteration(it, step, base, s)
<1> DEFINE Q(t, it) == it \in [SUBSET DOMAIN t -> X] /\ IsIteration(it, step, base, t)
           P == {t \in Seq(E) : \E it : Q(t, it)}
<1>1. <<>> \in P
    <2> DEFINE it == [S \in {{}} |-> base]
    <2>1. DOMAIN <<>> = {} /\ SUBSET {} = {{}}
        OBVIOUS
    <2>2. it = [S \in SUBSET DOMAIN <<>> |->
                  IF S = {} THEN base ELSE step[<<it[S \ {Max(S)}], <<>>[Max(S)]>>]]
        BY <2>1
    <2>3. it \in [SUBSET DOMAIN <<>> -> X]
        BY <2>1
    <2> HIDE DEF it
    <2>4. Q(<<>>, it)
        BY <2>2, <2>3 DEF IsIteration
    <2>5. <<>> \in Seq(E)
        OBVIOUS
    <2>6. \E f : Q(<<>>, f)
        BY <2>4
    <2> HIDE DEF Q
    <2> QED BY <2>5, <2>6
<1>2. ASSUME NEW t \in Seq(E), NEW x \in E, t \in P PROVE Append(t, x) \in P
    <2>1. PICK f : Q(t, f)
        BY <1>2
    <2> DEFINE n == Len(t)
               u == Append(t, x)
               g == [S \in SUBSET (1 .. n + 1) |->
                       IF n + 1 \in S THEN step[<<f[S \ {n + 1}], x>>] ELSE f[S]]
    <2>2. /\ u \in Seq(E) /\ DOMAIN u = 1 .. n + 1 /\ DOMAIN t = 1 .. n
          /\ n \in Nat /\ u[n + 1] = x /\ \A i \in 1 .. n : u[i] = t[i]
        OBVIOUS
    <2>3. /\ \A S \in SUBSET (1 .. n) : f[S] \in X
          /\ \A S \in SUBSET (1 .. n) :
                f[S] = IF S = {} THEN base ELSE step[<<f[S \ {Max(S)}], t[Max(S)]>>]
        BY <2>1, <2>2 DEF IsIteration
    <2>4. ASSUME NEW S \in SUBSET (1 .. n + 1)
          PROVE  /\ g[S] \in X
                 /\ g[S] = IF S = {} THEN base ELSE step[<<g[S \ {Max(S)}], u[Max(S)]>>]
        <3>1. CASE n + 1 \in S
            <4>0. n + 1 \in Nat
                BY <2>2
            <4>1. Max(S) = n + 1
                BY <4>0, <3>1, MaxOfInterval
            <4>2. S \ {n + 1} \in SUBSET (1 .. n)
                <5>1. \A y \in 1 .. n + 1 : y # n + 1 => y \in 1 .. n
                    BY <2>2
                <5> QED BY <5>1
            <4>3. g[S \ {n + 1}] = f[S \ {n + 1}] /\ f[S \ {n + 1}] \in X
                BY <2>2, <2>3, <4>2
            <4>4. g[S] = step[<<f[S \ {n + 1}], x>>]
                BY <3>1
            <4>5. step[<<f[S \ {n + 1}], x>>] \in X
                BY <4>3
            <4> HIDE DEF g, u
            <4> QED BY <2>2, <3>1, <4>1, <4>3, <4>4, <4>5
        <3>2. CASE n + 1 \notin S
            <4>1. S \in SUBSET (1 .. n)
                BY <2>2, <3>2
            <4>2. g[S] = f[S]
                BY <3>2
            <4>3. CASE S = {}
                BY <2>3, <4>1, <4>2, <4>3
            <4>4. CASE S # {}
                <5>1. \E k \in S : \A y \in S : k >= y
                    BY <2>2, <4>1, <4>4, GreatestOfInterval
                <5>2. Max(S) \in S
                    BY <5>1 DEF Max
                <5>3. Max(S) \in 1 .. n /\ n + 1 \notin S \ {Max(S)}
                      /\ S \ {Max(S)} \in SUBSET (1 .. n + 1)
                    BY <3>2, <4>1, <5>2
                <5>4. g[S \ {Max(S)}] = f[S \ {Max(S)}]
                    BY <5>3
                <5> HIDE DEF g, u
                <5> QED BY <2>2, <2>3, <4>1, <4>2, <4>4, <5>3, <5>4
            <4> QED BY <4>3, <4>4
        <3> QED BY <3>1, <3>2
    <2>5. g \in [SUBSET DOMAIN u -> X] /\ IsIteration(g, step, base, u)
        <3>1. DOMAIN g = SUBSET (1 .. n + 1) /\ g = [S \in SUBSET (1 .. n + 1) |-> g[S]]
            OBVIOUS
        <3> HIDE DEF g, u
        <3>2. g \in [SUBSET DOMAIN u -> X]
            BY <2>2, <2>4, <3>1
        <3>3. g = [S \in SUBSET (1 .. n + 1) |->
                     IF S = {} THEN base ELSE step[<<g[S \ {Max(S)}], u[Max(S)]>>]]
            BY <2>4, <3>1
        <3>4. g = [S \in SUBSET DOMAIN u |->
                     IF S = {} THEN base ELSE step[<<g[S \ {Max(S)}], u[Max(S)]>>]]
            BY <2>2, <3>3
        <3> QED BY <3>2, <3>4 DEF IsIteration
    <2> QED BY <2>2, <2>5
<1> HIDE DEF P
<1>3. Seq(E) \subseteq P
    BY <1>1, <1>2, SeqInduct
<1> QED BY <1>3 DEF P

\* The last place of a set of places of s, and what is left without it.
LEMMA LastPlace ==
    ASSUME NEW E, NEW s \in Seq(E), NEW S \in SUBSET DOMAIN s, S # {}
    PROVE  Max(S) \in DOMAIN s /\ s[Max(S)] \in E /\ S \ {Max(S)} \in SUBSET DOMAIN s
<1>1. DOMAIN s = 1 .. Len(s) /\ Len(s) \in Nat
    OBVIOUS
<1>2. \E x \in S : \A y \in S : x >= y
    BY <1>1, GreatestOfInterval
<1>3. Max(S) \in S
    BY <1>2 DEF Max
<1> QED BY <1>1, <1>3

\* The places 1 .. k, and what is left without the last.
LEMMA FirstPlaces ==
    ASSUME NEW E, NEW s \in Seq(E), NEW k \in 1 .. Len(s)
    PROVE  /\ 1 .. k \in SUBSET DOMAIN s /\ 1 .. k # {}
           /\ Max(1 .. k) = k /\ (1 .. k) \ {k} = 1 .. k - 1
<1>1. k \in Nat /\ k \in 1 .. k /\ 1 .. k \subseteq DOMAIN s
    OBVIOUS
<1>2. Max(1 .. k) = k
    BY <1>1, MaxOfInterval
<1>3. (1 .. k) \ {k} = 1 .. k - 1
    BY <1>1
<1> QED BY <1>1, <1>2, <1>3

\* it folds as long as what it gives stays in X.
Follows(it, X, step, base, s) ==
    /\ it[{}] = base
    /\ \A S \in SUBSET DOMAIN s :
           S # {} /\ it[S \ {Max(S)}] \in X => it[S] = step[<<it[S \ {Max(S)}], s[Max(S)]>>]

\* c[k]: the first k elements of s, folded, and all of them in the end.
IsRun(c, it, X, step, base, s) ==
    /\ c \in [0 .. Len(s) -> X]
    /\ c[0] = base
    /\ \A k \in 1 .. Len(s) : c[k] = step[<<c[k - 1], s[k]>>]
    /\ it[DOMAIN s] = c[Len(s)]

\* Such a function runs through the elements one by one.
LEMMA IterationRuns ==
    ASSUME NEW X, NEW E, NEW step, step \in [X \X E -> X], NEW base \in X, NEW s \in Seq(E),
           NEW it, Follows(it, X, step, base, s)
    PROVE  \E c : IsRun(c, it, X, step, base, s)
<1> DEFINE c == [k \in 0 .. Len(s) |-> it[1 .. k]]
           P == {k \in 0 .. Len(s) : it[1 .. k] \in X}
<1>1. /\ Len(s) \in Nat /\ DOMAIN s = 1 .. Len(s) /\ 1 .. 0 = {}
    OBVIOUS
<1>2. ASSUME NEW k \in 1 .. Len(s), it[1 .. k - 1] \in X
      PROVE  it[1 .. k] = step[<<it[1 .. k - 1], s[k]>>]
    BY <1>2, FirstPlaces DEF Follows
<1>3. 0 \in P
    BY <1>1 DEF Follows
<1>4. ASSUME NEW k \in 0 .. Len(s) - 1, k \in P PROVE k + 1 \in P
    <2>1. k + 1 \in 1 .. Len(s) /\ (k + 1) - 1 = k /\ k + 1 \in 0 .. Len(s)
        BY <1>1
    <2>2. it[1 .. k + 1] = step[<<it[1 .. k], s[k + 1]>>]
        BY <1>2, <1>4, <2>1
    <2>3. s[k + 1] \in E /\ it[1 .. k] \in X
        BY <1>4, <2>1, ElementOfSeq
    <2> QED BY <2>1, <2>2, <2>3
<1>5. 0 .. Len(s) \subseteq P
    <2> HIDE DEF P
    <2> QED BY <1>1, <1>3, <1>4, IntervalInduct
<1>6. c \in [0 .. Len(s) -> X]
    BY <1>5
<1>7. c[0] = base /\ it[DOMAIN s] = c[Len(s)]
    BY <1>1 DEF Follows
<1>8. ASSUME NEW k \in 1 .. Len(s) PROVE c[k] = step[<<c[k - 1], s[k]>>]
    <2>1. k - 1 \in 0 .. Len(s) /\ k \in 0 .. Len(s)
        BY <1>1
    <2> QED BY <1>2, <1>5, <2>1
<1> HIDE DEF c
<1> QED BY <1>6, <1>7, <1>8 DEF IsRun

-----------------------------------------------------------------------------
(* A function on 0 .. n that is defined by recursion.                       *)

IsRecursion(f, step, base, n) ==
    f = [i \in 0 .. n |-> IF i = 0 THEN base ELSE step[<<i, f[i - 1]>>]]

\* Such a recursion has a solution.
LEMMA RecursionExists ==
    ASSUME NEW X, NEW n \in Nat, NEW step \in [(1 .. n) \X X -> X], NEW base \in X
    PROVE  \E f \in [0 .. n -> X] : IsRecursion(f, step, base, n)
<1> DEFINE P == {k \in 0 .. n : \E f \in [0 .. k -> X] : IsRecursion(f, step, base, k)}
<1>1. 0 \in P
    <2> DEFINE f == [i \in 0 .. 0 |-> base]
    <2>1. f \in [0 .. 0 -> X] /\ IsRecursion(f, step, base, 0)
        BY DEF IsRecursion
    <2> QED BY <2>1
<1>2. ASSUME NEW k \in 0 .. n - 1, k \in P PROVE k + 1 \in P
    <2>1. \E f \in [0 .. k -> X] : IsRecursion(f, step, base, k)
        BY <1>2
    <2>2. PICK f \in [0 .. k -> X] : IsRecursion(f, step, base, k)
        BY <2>1
    <2>3. k \in Nat /\ k + 1 \in 1 .. n /\ k + 1 \in 0 .. n /\ k \in 0 .. k /\ (k + 1) - 1 = k
          /\ k + 1 # 0 /\ k + 1 \notin 0 .. k
        OBVIOUS
    <2> DEFINE last == step[<<k + 1, f[k]>>]
               g == [i \in 0 .. k + 1 |-> IF i = k + 1 THEN last ELSE f[i]]
    <2>4. last \in X
        BY <2>3
    <2> HIDE DEF last
    <2>5. \A i \in 0 .. k + 1 : i # k + 1 => i \in 0 .. k
        BY <2>3
    <2>6. g \in [0 .. k + 1 -> X]
        BY <2>4, <2>5
    <2>7. \A i \in 0 .. k : f[i] = IF i = 0 THEN base ELSE step[<<i, f[i - 1]>>]
        BY <2>2 DEF IsRecursion
    <2>8. \A i \in 0 .. k + 1 : g[i] = IF i = 0 THEN base ELSE step[<<i, g[i - 1]>>]
        <3> TAKE i \in 0 .. k + 1
        <3>1. CASE i = k + 1
            <4>1. g[i] = last /\ g[i - 1] = f[k]
                BY <2>3, <3>1
            <4> HIDE DEF g
            <4> QED BY <2>3, <3>1, <4>1 DEF last
        <3>2. CASE i # k + 1 /\ i # 0
            <4>1. i \in 0 .. k /\ i - 1 \in 0 .. k
                BY <2>3, <3>2
            <4>2. g[i] = f[i] /\ g[i - 1] = f[i - 1]
                BY <2>3, <3>2, <4>1
            <4> HIDE DEF g
            <4> QED BY <2>7, <3>2, <4>1, <4>2
        <3>3. CASE i = 0
            <4>1. g[0] = f[0] /\ 0 \in 0 .. k
                BY <2>3
            <4>2. f[0] = base
                BY <2>7, <4>1
            <4> HIDE DEF g
            <4> QED BY <3>3, <4>1, <4>2
        <3> QED BY <3>1, <3>2, <3>3
    <2>9. IsRecursion(g, step, base, k + 1)
        <3>1. DOMAIN g = 0 .. k + 1 /\ g = [i \in DOMAIN g |-> g[i]]
            OBVIOUS
        <3> HIDE DEF g
        <3> QED BY <2>8, <3>1 DEF IsRecursion
    <2> HIDE DEF g
    <2> QED BY <2>3, <2>6, <2>9
<1> HIDE DEF P
<1>3. 0 .. n \subseteq P
    <2>1. 0 \in Nat
        OBVIOUS
    <2> QED BY <1>1, <1>2, <2>1, IntervalInduct
<1>4. n \in P
    BY <1>3
<1> QED BY <1>4 DEF P

-----------------------------------------------------------------------------
(* A function on 0 .. n that is defined by recursion to greater numbers:     *)
(* chain[k] begins with head[k] and goes on at next[k], if that is not 0.    *)

IsChain(f, head, next, n) ==
    f = [k \in 0 .. n |-> IF next[k] = 0 THEN <<head[k]>> ELSE <<head[k]>> \o f[next[k]]]

\* Such a recursion has a solution.
LEMMA ChainExists ==
    ASSUME NEW n \in Nat, NEW head, NEW next,
           \A k \in 0 .. n : next[k] = 0 \/ next[k] \in k + 1 .. n
    PROVE  \E f : IsChain(f, head, next, n)
<1> DEFINE Link(f, k) == IF next[k] = 0 THEN <<head[k]>> ELSE <<head[k]>> \o f[next[k]]
           From(f, m) == \A k \in 0 .. n : n - k <= m => f[k] = Link(f, k)
           P == {m \in Nat : \E f : f = [k \in 0 .. n |-> f[k]] /\ From(f, m)}
<1>1. 0 \in P
    <2> DEFINE f == [k \in 0 .. n |-> <<head[k]>>]
    <2>1. n \in 0 .. n /\ next[n] = 0 /\ \A k \in 0 .. n : n - k <= 0 => k = n
        OBVIOUS
    <2>2. From(f, 0)
        BY <2>1
    <2>3. f = [k \in 0 .. n |-> f[k]]
        OBVIOUS
    <2> HIDE DEF f, From
    <2> QED BY <2>2, <2>3
<1>2. ASSUME NEW m \in Nat, m \in P PROVE m + 1 \in P
    <2>1. PICK f : f = [k \in 0 .. n |-> f[k]] /\ From(f, m)
        BY <1>2
    <2> DEFINE g == [k \in 0 .. n |-> IF n - k = m + 1 THEN Link(f, k) ELSE f[k]]
    <2>2. ASSUME NEW k \in 0 .. n, n - k <= m + 1 PROVE g[k] = Link(g, k)
        <3>1. g[k] = Link(f, k)
            <4>1. n - k = m + 1 \/ n - k <= m
                BY <2>2
            <4>2. n - k <= m => f[k] = Link(f, k)
                BY <2>1
            <4>3. g[k] = IF n - k = m + 1 THEN Link(f, k) ELSE f[k]
                OBVIOUS
            <4> HIDE DEF Link, g
            <4> QED BY <4>1, <4>2, <4>3
        <3>2. next[k] # 0 => next[k] \in 0 .. n /\ n - next[k] # m + 1
            BY <2>2
        <3>3. next[k] # 0 => g[next[k]] = f[next[k]]
            BY <3>2
        <3> HIDE DEF g
        <3> QED BY <3>1, <3>3
    <2>3. g = [k \in 0 .. n |-> g[k]]
        OBVIOUS
    <2> HIDE DEF g, Link
    <2>4. From(g, m + 1)
        BY <2>2
    <2> QED BY <2>3, <2>4
<1> HIDE DEF P
<1>3. n \in P
    BY <1>1, <1>2, NatInduct
<1>4. PICK f : f = [k \in 0 .. n |-> f[k]] /\ From(f, n)
    BY <1>3 DEF P
<1>5. \A k \in 0 .. n : f[k] = Link(f, k)
    <2>1. \A k \in 0 .. n : n - k <= n
        OBVIOUS
    <2> QED BY <1>4, <2>1
<1>6. f = [k \in 0 .. n |-> Link(f, k)]
    <2> HIDE DEF Link
    <2> QED BY <1>4, <1>5
<1> QED BY <1>6 DEF IsChain
=============================================================================
