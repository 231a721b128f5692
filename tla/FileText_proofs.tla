---------------------------- MODULE FileText_proofs ----------------------------
(***************************************************************************)
(* The properties of FileText, for every document, every set of texts and   *)
(* page numbers and any number of concurrent requests; before them, what    *)
(* splitting, trimming, parsing and joining do to every text, by induction  *)
(* over its tokens and over the pages.                                      *)
(***************************************************************************)
EXTENDS FileText, Induction, TLAPS

-----------------------------------------------------------------------------
(* Where a text is split. *)

\* Two sequences one after the other, place by place.
LEMMA ConcatPlaces ==
    ASSUME NEW E, NEW s \in Seq(E), NEW w \in Seq(E)
    PROVE  /\ s \o w \in Seq(E) /\ Len(s \o w) = Len(s) + Len(w)
           /\ \A i \in 1 .. Len(s) : (s \o w)[i] = s[i]
           /\ \A i \in 1 .. Len(w) : (s \o w)[Len(s) + i] = w[i]
OBVIOUS

\* The same for texts.
LEMMA ConcatTokens ==
    \A s, w \in Seq(Token) :
        /\ s \o w \in Seq(Token) /\ Len(s \o w) = Len(s) + Len(w)
        /\ \A i \in 1 .. Len(s) : (s \o w)[i] = s[i]
        /\ \A i \in 1 .. Len(w) : (s \o w)[Len(s) + i] = w[i]
BY ConcatPlaces

\* The tokens of a separator and of a label.
LEMMA Signs ==
    /\ Newline \in Token /\ Space \in Token /\ Close \in Token /\ Sign("page") \in Token
    /\ Newline # Space /\ Newline # Close /\ Newline # Sign("page") /\ Sign("page") # Space
    /\ IsSpace(Newline)
    /\ \A n \in Int : /\ Num(n) \in Token /\ Num(n) # Newline /\ Num(n) # Close
                      /\ Num(n).kind = "number" /\ Num(n).n = n
BY DEF Token, Newline, Space, Close, Sign, Num, IsSpace

\* The separator, token by token.
LEMMA SepTokens ==
    /\ Sep \in Seq(Token) /\ Len(Sep) = 4
    /\ Sep[1] = Newline /\ Sep[2] = Newline /\ Sep[3] = Sign("page") /\ Sep[4] = Space
BY Signs DEF Sep

\* The label of a page, token by token.
LEMMA LabelTokens ==
    ASSUME NEW n \in Int
    PROVE  /\ Label(n) \in Seq(Token) /\ Len(Label(n)) = 4
           /\ Label(n)[1] = Num(n) /\ Label(n)[2] = Close
           /\ Label(n)[3] = Newline /\ Label(n)[4] = Newline
BY Signs DEF Label

\* A separator in a text, token by token.
LEMMA SepAtTokens ==
    ASSUME NEW s, NEW i \in Int
    PROVE  SepAt(s, i) <=> /\ s[i + 1] = Newline /\ s[i + 2] = Newline
                           /\ s[i + 3] = Sign("page") /\ s[i + 4] = Space
<1>1. \A j \in 1 .. 4 : j = 1 \/ j = 2 \/ j = 3 \/ j = 4
    OBVIOUS
<1>2. 1 \in 1 .. 4 /\ 2 \in 1 .. 4 /\ 3 \in 1 .. 4 /\ 4 \in 1 .. 4
    OBVIOUS
<1> QED BY <1>1, <1>2, SepTokens DEF SepAt

\* The first place from k on at which the text is split.
First(t, k) == Min(SepsAfter(t, k))

\* Where that is.
LEMMA FirstSep ==
    ASSUME NEW t \in Seq(Token), NEW k \in 0 .. Len(t), SepsAfter(t, k) # {}
    PROVE  /\ First(t, k) \in SepsAfter(t, k)
           /\ First(t, k) \in k .. Len(t) - 4 /\ SepAt(t, First(t, k))
           /\ \A j \in SepsAfter(t, k) : First(t, k) <= j
<1>1. SepsAfter(t, k) \subseteq Nat
    BY DEF SepsAfter
<1> QED BY <1>1, MinIsSmallest DEF First, SepsAfter

\* parts[k]: the parts of all but the first k tokens of the text.
IsSplitting(parts, t) ==
    \A k \in 0 .. Len(t) :
        parts[k] = IF SepsAfter(t, k) = {} THEN <<SubSeq(t, k + 1, Len(t))>>
                   ELSE <<SubSeq(t, k + 1, First(t, k))>> \o parts[First(t, k) + 4]

\* The recursion that Split chooses a solution of has one.
LEMMA SplitRuns ==
    ASSUME NEW t \in Seq(Token)
    PROVE  \E parts : IsSplitting(parts, t) /\ Split(t) = parts[0]
<1> DEFINE n == Len(t)
           Runs(f) == f = [k \in 0 .. Len(t) |->
                             IF SepsAfter(t, k) = {} THEN <<SubSeq(t, k + 1, Len(t))>>
                             ELSE <<SubSeq(t, k + 1, Min(SepsAfter(t, k)))>>
                                    \o f[Min(SepsAfter(t, k)) + 4]]
           head == [k \in 0 .. n |-> IF SepsAfter(t, k) = {} THEN SubSeq(t, k + 1, Len(t))
                                     ELSE SubSeq(t, k + 1, First(t, k))]
           next == [k \in 0 .. n |-> IF SepsAfter(t, k) = {} THEN 0 ELSE First(t, k) + 4]
<1>1. n \in Nat
    OBVIOUS
<1>2. \A k \in 0 .. n : next[k] = 0 \/ next[k] \in k + 1 .. n
    BY <1>1, FirstSep
<1>3. PICK f : IsChain(f, head, next, n)
    <2> HIDE DEF head, next, n
    <2> QED BY <1>1, <1>2, ChainExists
<1>4. \A k \in 0 .. n : (next[k] = 0 <=> SepsAfter(t, k) = {})
    BY <1>1, FirstSep
<1>5. f = [k \in 0 .. n |-> IF next[k] = 0 THEN <<head[k]>> ELSE <<head[k]>> \o f[next[k]]]
    BY <1>3 DEF IsChain
<1>6. \A k \in 0 .. n : f[k] = IF SepsAfter(t, k) = {} THEN <<SubSeq(t, k + 1, Len(t))>>
                     ELSE <<SubSeq(t, k + 1, First(t, k))>> \o f[First(t, k) + 4]
    <2> TAKE k \in 0 .. n
    <2>1. f[k] = IF next[k] = 0 THEN <<head[k]>> ELSE <<head[k]>> \o f[next[k]]
        BY <1>5
    <2>2. CASE SepsAfter(t, k) = {}
        BY <1>4, <2>1, <2>2
    <2>3. CASE SepsAfter(t, k) # {}
        BY <1>4, <2>1, <2>3
    <2> QED BY <2>2, <2>3
<1>7. f = [k \in 0 .. n |-> f[k]]
    BY <1>5
<1>8. Runs(f)
    BY <1>6, <1>7 DEF First
<1> DEFINE g == CHOOSE f1 : Runs(f1)
<1>9. Runs(g)
    <2> HIDE DEF Runs
    <2> QED BY <1>8
<1>10. Split(t) = g[0]
    BY DEF Split
<1> HIDE DEF g
<1>11. IsSplitting(g, t)
    BY <1>9 DEF IsSplitting, First
<1> QED BY <1>10, <1>11

\* The parts of a text are texts, and there is one at least.
LEMMA SplitType ==
    ASSUME NEW t \in Seq(Token)
    PROVE  Split(t) \in Seq(Seq(Token)) /\ Split(t) # <<>>
<1>1. PICK parts : IsSplitting(parts, t) /\ Split(t) = parts[0]
    BY SplitRuns
<1> DEFINE P == {k \in 0 .. Len(t) : parts[k] \in Seq(Seq(Token)) /\ parts[k] # <<>>}
<1>2. ASSUME NEW k \in 0 .. Len(t), \A j \in k + 1 .. Len(t) : j \in P PROVE k \in P
    <2>1. \A m \in k .. Len(t) : SubSeq(t, k + 1, m) \in Seq(Token)
        OBVIOUS
    <2>2. CASE SepsAfter(t, k) = {}
        <3>1. parts[k] = <<SubSeq(t, k + 1, Len(t))>>
            BY <1>1, <2>2 DEF IsSplitting
        <3>2. SubSeq(t, k + 1, Len(t)) \in Seq(Token)
            OBVIOUS
        <3>3. ASSUME NEW x \in Seq(Token) PROVE <<x>> \in Seq(Seq(Token)) /\ <<x>> # <<>>
            OBVIOUS
        <3> QED BY <3>1, <3>2, <3>3
    <2>3. CASE SepsAfter(t, k) # {}
        <3> DEFINE m == First(t, k)
        <3>1. m \in k .. Len(t) - 4
            BY <2>3, FirstSep
        <3> HIDE DEF m
        <3>2. parts[k] = <<SubSeq(t, k + 1, m)>> \o parts[m + 4]
            BY <1>1, <2>3 DEF IsSplitting, m
        <3>3. m \in k .. Len(t) /\ m + 4 \in k + 1 .. Len(t)
            BY <3>1
        <3>4. /\ <<SubSeq(t, k + 1, m)>> \in Seq(Seq(Token)) /\ SubSeq(t, k + 1, m) \in Seq(Token)
              /\ parts[m + 4] \in Seq(Seq(Token))
            BY <1>2, <2>1, <3>3
        <3>5. ASSUME NEW x \in Seq(Token), NEW s \in Seq(Seq(Token))
              PROVE  <<x>> \o s \in Seq(Seq(Token)) /\ <<x>> \o s # <<>>
            OBVIOUS
        <3> QED BY <3>2, <3>4, <3>5
    <2> QED BY <2>2, <2>3
<1> HIDE DEF P
<1>3. 0 .. Len(t) \subseteq P
    <2>1. Len(t) \in Nat
        OBVIOUS
    <2>2. \A k \in 0 .. Len(t) : (\A j \in k + 1 .. Len(t) : j \in P) => k \in P
        BY <1>2
    <2> QED BY <2>1, <2>2, DownInduct
<1>4. 0 \in 0 .. Len(t)
    OBVIOUS
<1> QED BY <1>1, <1>3, <1>4 DEF P

\* A text without a separator is one part.
LEMMA SplitOfPlain ==
    ASSUME NEW t \in Seq(Token), ~HoldsSep(t)
    PROVE  Split(t) = <<t>>
<1>1. PICK parts : IsSplitting(parts, t) /\ Split(t) = parts[0]
    BY SplitRuns
<1>2. SepsAfter(t, 0) = {} /\ 0 \in 0 .. Len(t)
    BY DEF SepsAfter, HoldsSep
<1>3. parts[0] = <<SubSeq(t, 0 + 1, Len(t))>>
    BY <1>1, <1>2 DEF IsSplitting
<1>4. SubSeq(t, 0 + 1, Len(t)) = t
    BY SubSeqFull
<1> QED BY <1>1, <1>3, <1>4

\* The separators of a text, another one and a text without.
LEMMA SepsOfJoin ==
    ASSUME NEW t \in Seq(Token), NEW w \in Seq(Token), ~HoldsSep(w),
           NEW u, u = t \o (Sep \o w)
    PROVE  /\ u \in Seq(Token) /\ Len(u) = Len(t) + 4 + Len(w)
           /\ \A i \in 1 .. Len(t) : u[i] = t[i]
           /\ \A i \in 1 .. Len(w) : u[Len(t) + 4 + i] = w[i]
           /\ \A i \in 0 .. Len(u) - 4 :
                 SepAt(u, i) <=> i = Len(t) \/ (i <= Len(t) - 4 /\ SepAt(t, i))
<1> DEFINE n == Len(t)
           m == Len(w)
<1>0. n \in Nat /\ m \in Nat
    OBVIOUS
<1>1. /\ Sep \o w \in Seq(Token) /\ Len(Sep \o w) = 4 + m
      /\ \A i \in 1 .. 4 : (Sep \o w)[i] = Sep[i]
      /\ \A i \in 1 .. m : (Sep \o w)[4 + i] = w[i]
    <2> HIDE DEF m
    <2>1. /\ Sep \o w \in Seq(Token) /\ Len(Sep \o w) = Len(Sep) + Len(w)
          /\ \A i \in 1 .. Len(Sep) : (Sep \o w)[i] = Sep[i]
          /\ \A i \in 1 .. Len(w) : (Sep \o w)[Len(Sep) + i] = w[i]
        <3>1. Sep \in Seq(Token)
            BY SepTokens
        <3> QED BY <3>1, ConcatTokens, Zenon
    <2> QED BY <2>1, SepTokens DEF m
<1>2. /\ u \in Seq(Token) /\ Len(u) = n + 4 + m
      /\ \A i \in 1 .. n : u[i] = t[i]
      /\ \A i \in 1 .. 4 + m : u[n + i] = (Sep \o w)[i]
    <2> DEFINE v == Sep \o w
    <2>1. v \in Seq(Token) /\ Len(v) = 4 + m
        BY <1>1
    <2> HIDE DEF v, n, m
    <2>2. /\ t \o v \in Seq(Token) /\ Len(t \o v) = Len(t) + Len(v)
          /\ \A i \in 1 .. Len(t) : (t \o v)[i] = t[i]
          /\ \A i \in 1 .. Len(v) : (t \o v)[Len(t) + i] = v[i]
        BY <2>1, ConcatPlaces
    <2>3. u = t \o v
        BY DEF v
    <2>4. n + (4 + m) = n + 4 + m /\ n = Len(t)
        BY <1>0 DEF n
    <2>5. u \in Seq(Token) /\ Len(u) = n + 4 + m
        BY <2>1, <2>2, <2>3, <2>4
    <2>6. \A i \in 1 .. n : u[i] = t[i]
        BY <2>2, <2>3, <2>4
    <2>7. \A i \in 1 .. 4 + m : u[n + i] = v[i]
        BY <2>1, <2>2, <2>3, <2>4
    <2> QED BY <2>5, <2>6, <2>7 DEF v
<1>3. /\ u[n + 1] = Newline /\ u[n + 2] = Newline /\ u[n + 3] = Sign("page") /\ u[n + 4] = Space
    BY <1>1, <1>2, SepTokens
<1>4. \A i \in 1 .. m : u[n + 4 + i] = w[i]
    <2> TAKE i \in 1 .. m
    <2>1. 4 + i \in 1 .. 4 + m /\ n + (4 + i) = n + 4 + i
        BY <1>1
    <2> QED BY <1>1, <1>2, <2>1
<1> HIDE DEF n, m
<1>5. ASSUME NEW i \in 0 .. Len(u) - 4
      PROVE  SepAt(u, i) <=> i = n \/ (i <= n - 4 /\ SepAt(t, i))
    <2>1. i \in Nat /\ i <= n + m
        BY <1>0, <1>2
    <2>6. SepAt(u, i) <=> /\ u[i + 1] = Newline /\ u[i + 2] = Newline
                          /\ u[i + 3] = Sign("page") /\ u[i + 4] = Space
        <3> HIDE DEF SepAt
        <3>1. i \in Int
            BY <2>1
        <3> QED BY <3>1, SepAtTokens, Zenon
    <2>7. SepAt(t, i) <=> /\ t[i + 1] = Newline /\ t[i + 2] = Newline
                          /\ t[i + 3] = Sign("page") /\ t[i + 4] = Space
        BY <2>1, SepAtTokens
    <2>2. CASE i = n
        BY <1>3, <2>2, <2>6
    <2>3. CASE i <= n - 4
        <3>1. u[i + 1] = t[i + 1] /\ u[i + 2] = t[i + 2] /\ u[i + 3] = t[i + 3]
              /\ u[i + 4] = t[i + 4]
            <4>1. i + 1 \in 1 .. n /\ i + 2 \in 1 .. n /\ i + 3 \in 1 .. n /\ i + 4 \in 1 .. n
                BY <1>0, <2>1, <2>3
            <4> QED BY <1>2, <4>1
        <3>2. i # n
            BY <1>0, <2>1, <2>3
        <3> QED BY <2>3, <2>6, <2>7, <3>1, <3>2
    <2>4. CASE i > n - 4 /\ i < n + 4 /\ i # n
        <3>1. i = n - 3 \/ i = n - 2 \/ i = n - 1 \/ i = n + 1 \/ i = n + 2 \/ i = n + 3
            BY <1>0, <2>1, <2>4
        <3>2. /\ i = n - 3 => i + 4 = n + 1
              /\ i = n - 2 => i + 3 = n + 1
              /\ i = n - 1 => i + 3 = n + 2
              /\ i = n + 1 => i + 2 = n + 3
              /\ i = n + 2 => i + 1 = n + 3
              /\ i = n + 3 => i + 1 = n + 4
            BY <1>0, <2>1
        <3>3. ~SepAt(u, i)
            BY <1>3, <2>6, <3>1, <3>2, Signs
        <3> QED BY <1>0, <2>1, <2>4, <3>3
    <2>5. CASE i >= n + 4
        <3> DEFINE j == i - (n + 4)
        <3>1. j \in 0 .. m - 4 /\ j \in Int
            BY <1>0, <1>2, <2>1, <2>5
        <3>2. /\ i + 1 = n + 4 + (j + 1) /\ i + 2 = n + 4 + (j + 2)
              /\ i + 3 = n + 4 + (j + 3) /\ i + 4 = n + 4 + (j + 4)
              /\ j + 1 \in 1 .. m /\ j + 2 \in 1 .. m /\ j + 3 \in 1 .. m /\ j + 4 \in 1 .. m
            BY <1>0, <2>1, <3>1
        <3> HIDE DEF j
        <3>3. u[i + 1] = w[j + 1] /\ u[i + 2] = w[j + 2] /\ u[i + 3] = w[j + 3]
              /\ u[i + 4] = w[j + 4]
            BY <1>4, <3>2
        <3>4. ~SepAt(w, j)
            BY <3>1 DEF HoldsSep, m
        <3>5. ~SepAt(u, i)
            <4>1. SepAt(w, j) <=> /\ w[j + 1] = Newline /\ w[j + 2] = Newline
                                  /\ w[j + 3] = Sign("page") /\ w[j + 4] = Space
                BY <3>1, SepAtTokens
            <4> QED BY <2>6, <3>3, <3>4, <4>1
        <3> QED BY <1>0, <2>1, <2>5, <3>5
    <2> QED BY <1>0, <2>1, <2>2, <2>3, <2>4, <2>5
<1> QED BY <1>2, <1>4, <1>5 DEF n, m

\* A separator and a text without one add that text to the parts.
LEMMA SplitOfJoin ==
    ASSUME NEW t \in Seq(Token), NEW w \in Seq(Token), ~HoldsSep(w)
    PROVE  Split(t \o (Sep \o w)) = Append(Split(t), w)
<1> DEFINE u == t \o (Sep \o w)
           n == Len(t)
           m == Len(w)
<1>1. /\ u \in Seq(Token) /\ Len(u) = n + 4 + m
      /\ \A i \in 1 .. n : u[i] = t[i]
      /\ \A i \in 1 .. m : u[n + 4 + i] = w[i]
      /\ \A i \in 0 .. Len(u) - 4 : SepAt(u, i) <=> i = n \/ (i <= n - 4 /\ SepAt(t, i))
    BY SepsOfJoin
<1>2. PICK a : IsSplitting(a, t) /\ Split(t) = a[0]
    BY SplitRuns
<1> HIDE DEF u
<1>3. PICK b : IsSplitting(b, u) /\ Split(u) = b[0]
    BY <1>1, SplitRuns
<1>4. n \in Nat /\ m \in Nat
    OBVIOUS
<1> HIDE DEF n, m
<1>5. ASSUME NEW k \in 0 .. n PROVE SepsAfter(u, k) = SepsAfter(t, k) \cup {n}
    BY <1>1, <1>4 DEF SepsAfter, n
<1>6. SepsAfter(u, n + 4) = {}
    BY <1>1, <1>4 DEF SepsAfter
<1>7. ASSUME NEW i \in 1 .. n, NEW j \in 0 .. n PROVE SubSeq(u, i, j) = SubSeq(t, i, j)
    <2>1. \A l \in i .. j : u[l] = t[l] /\ u[l] \in Token /\ t[l] \in Token
        BY <1>1, <1>4 DEF n
    <2> QED BY <1>4, <2>1
<1>8. \A j \in 0 .. n : SubSeq(u, n + 1, j) = <<>> /\ SubSeq(t, n + 1, j) = <<>>
    BY <1>4, SubSeqEmpty
<1>9. b[n + 4] = <<w>>
    <2>1. b[n + 4] = <<SubSeq(u, n + 4 + 1, n + 4 + m)>>
        <3>1. n + 4 \in 0 .. Len(u)
            BY <1>1, <1>4
        <3> QED BY <1>1, <1>3, <1>6, <3>1 DEF IsSplitting
    <2>2. SubSeq(u, n + 4 + 1, n + 4 + m) = w
        <3> DEFINE v == SubSeq(u, n + 4 + 1, n + 4 + m)
        <3>1. \A l \in n + 4 + 1 .. n + 4 + m : u[l] \in Token
            BY <1>1, <1>4
        <3>2. v \in Seq(Token) /\ Len(v) = m /\ \A i \in 1 .. m : v[i] = u[n + 4 + i]
            BY <1>4, <3>1
        <3> HIDE DEF v
        <3>3. v = w
            BY <1>1, <3>2, SeqEqual DEF m
        <3> QED BY <3>3 DEF v
    <2> QED BY <2>1, <2>2
<1>10. \A k \in 0 .. n : SubSeq(u, k + 1, n) = SubSeq(t, k + 1, n)
    <2> TAKE k \in 0 .. n
    <2>1. n \in 0 .. n /\ (k + 1 \in 1 .. n \/ k + 1 = n + 1)
        BY <1>4
    <2> QED BY <1>7, <1>8, <2>1
<1> DEFINE P == {k \in 0 .. n : a[k] \in Seq(Seq(Token)) /\ b[k] = a[k] \o <<w>>}
<1>11. ASSUME NEW k \in 0 .. n, \A j \in k + 1 .. n : j \in P PROVE k \in P
    <2>1. k \in 0 .. Len(t) /\ k \in 0 .. Len(u)
        BY <1>1, <1>4 DEF n
    <2>2. CASE SepsAfter(t, k) = {}
        <3>1. a[k] = <<SubSeq(t, k + 1, n)>>
            BY <1>2, <2>1, <2>2 DEF IsSplitting, n
        <3>2. SepsAfter(u, k) = {n} /\ First(u, k) = n
            <4>1. SepsAfter(u, k) = {n}
                BY <1>5, <2>2
            <4>2. First(u, k) \in SepsAfter(u, k)
                BY <1>1, <2>1, <4>1, FirstSep
            <4> QED BY <4>1, <4>2
        <3>3. b[k] = <<SubSeq(u, k + 1, n)>> \o b[n + 4]
            BY <1>3, <2>1, <3>2 DEF IsSplitting
        <3>4. b[k] = a[k] \o <<w>>
            BY <1>9, <1>10, <3>1, <3>3
        <3>5. SubSeq(t, k + 1, n) \in Seq(Token)
            BY DEF n
        <3>6. ASSUME NEW x \in Seq(Token) PROVE <<x>> \in Seq(Seq(Token))
            OBVIOUS
        <3> QED BY <3>1, <3>4, <3>5, <3>6
    <2>3. CASE SepsAfter(t, k) # {}
        <3> DEFINE f == First(t, k)
        <3>1. f \in SepsAfter(t, k) /\ f \in k .. n - 4 /\ \A j \in SepsAfter(t, k) : f <= j
            BY <2>1, <2>3, FirstSep DEF n
        <3>2. First(u, k) = f
            <4>1. SepsAfter(u, k) = SepsAfter(t, k) \cup {n}
                BY <1>5
            <4>2. /\ First(u, k) \in SepsAfter(u, k)
                  /\ \A j \in SepsAfter(u, k) : First(u, k) <= j
                BY <1>1, <2>1, <4>1, FirstSep
            <4>3. First(u, k) \in Nat
                BY <4>2, <2>1 DEF SepsAfter
            <4> HIDE DEF f
            <4>4. f <= First(u, k) /\ First(u, k) <= f /\ f \in Nat
                <5>1. f \in Nat /\ f <= n
                    BY <1>4, <3>1
                <5>2. First(u, k) <= f
                    BY <3>1, <4>1, <4>2, Zenon
                <5>3. First(u, k) \in SepsAfter(t, k) \/ First(u, k) = n
                    BY <4>1, <4>2, Zenon
                <5> QED BY <3>1, <5>1, <5>2, <5>3
            <4> QED BY <4>3, <4>4
        <3> HIDE DEF f
        <3>3. /\ f + 4 \in k + 1 .. n /\ f + 4 \in 0 .. n
              /\ k + 1 \in 1 .. n /\ f \in 0 .. n
            BY <1>4, <3>1
        <3>4. a[k] = <<SubSeq(t, k + 1, f)>> \o a[f + 4]
            BY <1>2, <2>1, <2>3 DEF IsSplitting, f
        <3>5. b[k] = <<SubSeq(u, k + 1, f)>> \o b[f + 4]
            <4>1. SepsAfter(u, k) # {}
                BY <1>5
            <4> QED BY <1>3, <2>1, <3>2, <4>1 DEF IsSplitting
        <3>6. SubSeq(u, k + 1, f) = SubSeq(t, k + 1, f)
            BY <1>7, <3>3
        <3>7. a[f + 4] \in Seq(Seq(Token)) /\ b[f + 4] = a[f + 4] \o <<w>>
            BY <1>11, <3>3
        <3>8. SubSeq(t, k + 1, f) \in Seq(Token)
            BY <3>3 DEF n
        <3>9. ASSUME NEW x \in Seq(Token), NEW s \in Seq(Seq(Token))
              PROVE  /\ <<x>> \o s \in Seq(Seq(Token))
                     /\ <<x>> \o (s \o <<w>>) = (<<x>> \o s) \o <<w>>
            OBVIOUS
        <3> QED BY <3>4, <3>5, <3>6, <3>7, <3>8, <3>9
    <2> QED BY <2>2, <2>3
<1> HIDE DEF P
<1>12. 0 .. n \subseteq P
    <2>1. \A k \in 0 .. n : (\A j \in k + 1 .. n : j \in P) => k \in P
        BY <1>11
    <2> QED BY <1>4, <2>1, DownInduct
<1>13. 0 \in P
    BY <1>4, <1>12
<1>14. ASSUME NEW s \in Seq(Seq(Token)) PROVE s \o <<w>> = Append(s, w)
    OBVIOUS
<1> QED BY <1>2, <1>3, <1>13, <1>14 DEF P, u

-----------------------------------------------------------------------------
(* The space around a text. *)

\* A text without space at its ends.
Trimmed(s) == s = <<>> \/ (~IsSpace(s[1]) /\ ~IsSpace(s[Len(s)]))

\* What Max picks is in the set, and above all of it.
LEMMA MaxIsGreatest ==
    ASSUME NEW n \in Nat, NEW S, S \subseteq 1 .. n, S # {}
    PROVE  Max(S) \in S /\ \A y \in S : Max(S) >= y
<1>1. \E x \in S : \A y \in S : x >= y
    BY GreatestOfInterval
<1> QED BY <1>1 DEF Max

\* Trim, from its first to its last word.
LEMMA TrimEnds ==
    ASSUME NEW s \in Seq(Token)
    PROVE  /\ Solid(s) = {} => Trim(s) = <<>>
           /\ Solid(s) # {} =>
                 \E a, b \in Solid(s) :
                    /\ a \in 1 .. Len(s) /\ b \in a .. Len(s)
                    /\ ~IsSpace(s[a]) /\ ~IsSpace(s[b])
                    /\ \A i \in Solid(s) : a <= i /\ i <= b
                    /\ Trim(s) = SubSeq(s, a, b)
<1>1. Len(s) \in Nat /\ Solid(s) \subseteq 1 .. Len(s) /\ Solid(s) \subseteq Nat
    BY DEF Solid
<1>2. ASSUME Solid(s) # {} 
      PROVE  /\ Min(Solid(s)) \in Solid(s) /\ Max(Solid(s)) \in Solid(s)
             /\ \A i \in Solid(s) : Min(Solid(s)) <= i /\ i <= Max(Solid(s))
    <2>1. Min(Solid(s)) \in Solid(s) /\ \A y \in Solid(s) : Min(Solid(s)) <= y
        BY <1>1, <1>2, MinIsSmallest
    <2>2. Max(Solid(s)) \in Solid(s) /\ \A y \in Solid(s) : Max(Solid(s)) >= y
        BY <1>1, <1>2, MaxIsGreatest
    <2> QED BY <1>1, <2>1, <2>2
<1>3. CASE Solid(s) # {}
    <2> DEFINE a == Min(Solid(s))
               b == Max(Solid(s))
    <2>1. Trim(s) = SubSeq(s, a, b)
        BY <1>3 DEF Trim
    <2>2. a \in Solid(s) /\ b \in Solid(s) /\ \A i \in Solid(s) : a <= i /\ i <= b
        BY <1>2, <1>3
    <2> HIDE DEF a, b
    <2>3. a \in 1 .. Len(s) /\ b \in a .. Len(s)
        BY <1>1, <2>2
    <2>4. ~IsSpace(s[a]) /\ ~IsSpace(s[b])
        BY <2>2 DEF Solid
    <2> QED BY <1>3, <2>1, <2>2, <2>3, <2>4
<1> QED BY <1>3 DEF Trim

\* What is left is a text without space at its ends.
LEMMA TrimType ==
    ASSUME NEW s \in Seq(Token)
    PROVE  Trim(s) \in Seq(Token) /\ Trimmed(Trim(s))
<1>1. CASE Solid(s) = {}
    <2>1. Trim(s) = <<>>
        BY <1>1, TrimEnds
    <2> QED BY <2>1, <<>> \in Seq(Token) DEF Trimmed
<1>2. CASE Solid(s) # {}
    <2>1. PICK a \in Solid(s), b \in Solid(s) :
              /\ a \in 1 .. Len(s) /\ b \in a .. Len(s)
              /\ ~IsSpace(s[a]) /\ ~IsSpace(s[b])
              /\ Trim(s) = SubSeq(s, a, b)
        BY <1>2, TrimEnds
    <2> DEFINE v == SubSeq(s, a, b)
    <2>2. /\ v \in Seq(Token) /\ Len(v) = b - a + 1
          /\ \A i \in 1 .. b - a + 1 : v[i] = s[a + i - 1]
        BY <2>1
    <2>3. v[1] = s[a] /\ v[Len(v)] = s[b]
        <3> HIDE DEF v
        <3>1. 1 \in 1 .. b - a + 1 /\ b - a + 1 \in 1 .. b - a + 1
              /\ a + 1 - 1 = a /\ a + (b - a + 1) - 1 = b
            BY <2>1
        <3> QED BY <2>2, <3>1
    <2> HIDE DEF v
    <2> QED BY <2>1, <2>2, <2>3 DEF Trimmed, v
<1> QED BY <1>1, <1>2

\* Such a text is left as it is.
LEMMA TrimOfTrimmed ==
    ASSUME NEW s \in Seq(Token), Trimmed(s)
    PROVE  Trim(s) = s
<1>1. CASE s = <<>>
    <2>1. Solid(s) = {}
        BY <1>1 DEF Solid
    <2> QED BY <1>1, <2>1 DEF Trim
<1>2. CASE s # <<>>
    <2>1. /\ Len(s) \in Nat /\ 1 \in 1 .. Len(s) /\ Len(s) \in 1 .. Len(s)
          /\ DOMAIN s = 1 .. Len(s)
        BY <1>2
    <2>2. 1 \in Solid(s) /\ Len(s) \in Solid(s)
        BY <1>2, <2>1 DEF Solid, Trimmed
    <2>3. PICK a \in Solid(s), b \in Solid(s) :
              /\ a \in 1 .. Len(s) /\ b \in a .. Len(s)
              /\ \A i \in Solid(s) : a <= i /\ i <= b
              /\ Trim(s) = SubSeq(s, a, b)
        BY <2>2, TrimEnds
    <2>4. a = 1 /\ b = Len(s)
        <3>1. a <= 1 /\ Len(s) <= b
            BY <2>2, <2>3, Zenon
        <3>2. a \in 1 .. Len(s) /\ b \in a .. Len(s)
            BY <2>3
        <3>3. a \in Int /\ b \in Int /\ 1 <= a /\ b <= Len(s)
            BY <2>1, <3>2
        <3>4. \A i, j \in Int : i <= j /\ j <= i => i = j
            OBVIOUS
        <3>5. 1 \in Int /\ Len(s) \in Int
            BY <2>1
        <3> QED BY <3>1, <3>3, <3>4, <3>5, Zenon
    <2> QED BY <2>3, <2>4, SubSeqFull
<1> QED BY <1>1, <1>2

\* Two newlines before a text are not kept.
LEMMA TrimOfParagraph ==
    ASSUME NEW s \in Seq(Token)
    PROVE  /\ <<Newline, Newline>> \o s \in Seq(Token)
           /\ Trim(<<Newline, Newline>> \o s) = Trim(s)
<1> DEFINE u == <<Newline, Newline>> \o s
           n == Len(s)
<1>1. /\ u \in Seq(Token) /\ Len(u) = n + 2 /\ n \in Nat /\ u[1] = Newline /\ u[2] = Newline
      /\ \A i \in 1 .. n : u[i + 2] = s[i]
    <2>1. /\ <<Newline, Newline>> \in Seq(Token) /\ Len(<<Newline, Newline>>) = 2
          /\ <<Newline, Newline>>[1] = Newline /\ <<Newline, Newline>>[2] = Newline
        BY Signs
    <2>2. n \in Nat
        OBVIOUS
    <2> DEFINE v == <<Newline, Newline>>
    <2> HIDE DEF v, n
    <2>3. /\ v \o s \in Seq(Token) /\ Len(v \o s) = Len(v) + Len(s)
          /\ \A i \in 1 .. Len(v) : (v \o s)[i] = v[i]
          /\ \A i \in 1 .. Len(s) : (v \o s)[Len(v) + i] = s[i]
        <3>1. v \in Seq(Token)
            BY <2>1 DEF v
        <3> QED BY <3>1, ConcatTokens, Zenon
    <2>4. u = v \o s /\ Len(v) = 2 /\ v[1] = Newline /\ v[2] = Newline
        BY <2>1 DEF v
    <2> HIDE DEF u
    <2>5. Len(v \o s) = n + 2 /\ (v \o s)[1] = Newline /\ (v \o s)[2] = Newline
        BY <2>2, <2>3, <2>4 DEF n
    <2>6. \A i \in 1 .. n : (v \o s)[i + 2] = s[i]
        BY <2>2, <2>3, <2>4 DEF n
    <2> QED BY <2>2, <2>3, <2>4, <2>5, <2>6
<1> HIDE DEF u
<1>2. \A i \in 1 .. n : i + 2 \in Solid(u) <=> i \in Solid(s)
    BY <1>1 DEF Solid
<1>3. \A j \in Solid(u) : j - 2 \in 1 .. n /\ j - 2 \in Solid(s)
    <2> TAKE j \in Solid(u)
    <2>1. j \in 1 .. n + 2 /\ ~IsSpace(u[j])
        BY <1>1 DEF Solid
    <2>2. j # 1 /\ j # 2
        BY <1>1, <2>1, Signs
    <2>3. j - 2 \in 1 .. n /\ (j - 2) + 2 = j
        BY <1>1, <2>1, <2>2
    <2> QED BY <1>2, <2>3
<1>4. \A i \in Solid(s) : i \in 1 .. n
    BY DEF Solid
<1>5. CASE Solid(s) = {}
    <2>1. Solid(u) = {}
        BY <1>3, <1>5
    <2> QED BY <1>1, <1>5, <2>1, TrimEnds DEF u
<1>6. CASE Solid(s) # {}
    <2>1. PICK a \in Solid(s), b \in Solid(s) :
              /\ a \in 1 .. n /\ b \in a .. n
              /\ \A i \in Solid(s) : a <= i /\ i <= b
              /\ Trim(s) = SubSeq(s, a, b)
        BY <1>6, TrimEnds
    <2>2. a + 2 \in Solid(u) /\ b + 2 \in Solid(u)
        BY <1>1, <1>2, <2>1
    <2>3. PICK c \in Solid(u), d \in Solid(u) :
              /\ c \in 1 .. Len(u) /\ d \in c .. Len(u)
              /\ \A i \in Solid(u) : c <= i /\ i <= d
              /\ Trim(u) = SubSeq(u, c, d)
        BY <1>1, <2>2, TrimEnds
    <2>4. c = a + 2 /\ d = b + 2
        <3>1. c <= a + 2 /\ b + 2 <= d
            BY <2>2, <2>3
        <3>2. a <= c - 2 /\ d - 2 <= b
            BY <1>3, <2>1, <2>3
        <3>3. a \in Int /\ b \in Int /\ c \in Int /\ d \in Int
            BY <2>1, <2>3
        <3> QED BY <3>1, <3>2, <3>3
    <2>5. SubSeq(u, a + 2, b + 2) = SubSeq(s, a, b)
        <3> DEFINE v == SubSeq(u, a + 2, b + 2)
                   w == SubSeq(s, a, b)
        <3>1. /\ v \in Seq(Token) /\ Len(v) = b - a + 1
              /\ \A i \in 1 .. b - a + 1 : v[i] = u[a + 2 + i - 1]
            BY <1>1, <2>1
        <3>2. /\ w \in Seq(Token) /\ Len(w) = b - a + 1
              /\ \A i \in 1 .. b - a + 1 : w[i] = s[a + i - 1]
            BY <2>1
        <3>3. \A i \in 1 .. b - a + 1 : u[a + 2 + i - 1] = s[a + i - 1]
            <4> TAKE i \in 1 .. b - a + 1
            <4>1. a + i - 1 \in 1 .. n /\ (a + i - 1) + 2 = a + 2 + i - 1
                BY <1>1, <2>1
            <4> QED BY <1>1, <4>1
        <3> HIDE DEF v, w
        <3>4. v = w
            BY <3>1, <3>2, <3>3, SeqEqual
        <3> QED BY <3>4 DEF v, w
    <2> QED BY <1>1, <2>1, <2>3, <2>4, <2>5 DEF u
<1> QED BY <1>5, <1>6

-----------------------------------------------------------------------------
(* The pages of a text. *)

TokenPage == [page : Int, text : Seq(Token)]
TrimmedPage == {p \in TokenPage : Trimmed(p.text)}

\* Pages that a reader can be shown: the first is page 1, and there is no space
\* around their texts.
Readable == {ps \in Seq(TrimmedPage) : ps # <<>> /\ ps[1].page = 1}

\* A page, made of its parts.
LEMMA PageType ==
    ASSUME NEW k \in Int, NEW w \in Seq(Token)
    PROVE  /\ Page(k, w) \in TokenPage /\ Page(k, w).page = k /\ Page(k, w).text = w
           /\ Trimmed(w) => Page(k, w) \in TrimmedPage
BY DEF Page, TokenPage, TrimmedPage

\* The number of a page is a number.
LEMMA NumberType ==
    ASSUME NEW s \in Seq(Token)
    PROVE  Number(s) \in Int
<1> DEFINE I == {i \in 1 .. Len(s) : s[i].kind \notin {"space", "tab"}}
           m == IF I # {} THEN Min(I) ELSE 0
<1>1. Number(s) = IF m # 0 /\ s[m].kind = "number" THEN s[m].n ELSE 0
    BY DEF Number, SelectInSeq
<1>2. m # 0 => m \in 1 .. Len(s)
    <2>1. I \subseteq Nat /\ I \subseteq 1 .. Len(s)
        OBVIOUS
    <2> HIDE DEF I
    <2> QED BY <2>1, MinIsSmallest
<1> HIDE DEF m
<1>3. m # 0 => s[m].n \in Int
    <2>1. m # 0 => s[m] \in Token
        BY <1>2
    <2> QED BY <2>1 DEF Token
<1> QED BY <1>1, <1>3

\* A part is a page or none; the first is page 1.
LEMMA PagesOfType ==
    ASSUME NEW part \in Seq(Token), NEW i \in Nat
    PROVE  /\ PagesOf(part, i) \in Seq(TrimmedPage)
           /\ i = 1 => PagesOf(part, i) = <<Page(1, Trim(part))>>
<1> DEFINE c == ClosedAt(part)
           I == {j \in 1 .. Len(part) : part[j] = Close}
<1>1. c = IF I # {} THEN Min(I) ELSE 0
    BY DEF ClosedAt, SelectInSeq
<1>2. c # 0 => c \in 1 .. Len(part)
    <2>1. I \subseteq Nat /\ I \subseteq 1 .. Len(part)
        OBVIOUS
    <2> HIDE DEF I, c
    <2> QED BY <1>1, <2>1, MinIsSmallest
<1>3. /\ i = 1 => PagesOf(part, i) = <<Page(1, Trim(part))>>
      /\ i # 1 /\ c = 0 => PagesOf(part, i) = <<>>
      /\ i # 1 /\ c # 0 =>
            PagesOf(part, i) = <<Page(Number(SubSeq(part, 1, c - 1)),
                                      Trim(SubSeq(part, c + 1, Len(part))))>>
    BY DEF PagesOf
<1> HIDE DEF c
<1>4. \A x \in TrimmedPage : <<x>> \in Seq(TrimmedPage)
    OBVIOUS
<1>5. CASE i = 1
    <2>1. Trim(part) \in Seq(Token) /\ Trimmed(Trim(part)) /\ 1 \in Int
        BY TrimType
    <2>2. Page(1, Trim(part)) \in TrimmedPage
        BY <2>1, PageType
    <2> QED BY <1>3, <1>4, <1>5, <2>2
<1>6. CASE i # 1 /\ c = 0
    BY <1>3, <1>6, <<>> \in Seq(TrimmedPage)
<1>7. CASE i # 1 /\ c # 0
    <2>1. SubSeq(part, 1, c - 1) \in Seq(Token) /\ SubSeq(part, c + 1, Len(part)) \in Seq(Token)
        BY <1>2, <1>7
    <2>2. /\ Number(SubSeq(part, 1, c - 1)) \in Int
          /\ Trim(SubSeq(part, c + 1, Len(part))) \in Seq(Token)
          /\ Trimmed(Trim(SubSeq(part, c + 1, Len(part))))
        BY <2>1, NumberType, TrimType
    <2>3. Page(Number(SubSeq(part, 1, c - 1)), Trim(SubSeq(part, c + 1, Len(part)))) \in TrimmedPage
        BY <2>2, PageType
    <2> QED BY <1>3, <1>4, <1>7, <2>3
<1> QED BY <1>5, <1>6, <1>7

\* Reading a text: its pages, none for an empty text.
LEMMA ParseType ==
    ASSUME NEW t \in Seq(Token)
    PROVE  ParsePages(t) \in Readable \cup {<<>>}
<1> DEFINE parts == Split(t)
           pages == [i \in DOMAIN parts |-> PagesOf(parts[i], i)]
<1>1. CASE t = <<>>
    BY <1>1 DEF ParsePages
<1>2. CASE t # <<>>
    <2>1. ParsePages(t) = FlattenSeq(pages)
        BY <1>2 DEF ParsePages
    <2>2. parts \in Seq(Seq(Token)) /\ parts # <<>>
        BY SplitType
    <2> HIDE DEF parts
    <2>3. /\ Len(parts) \in Nat /\ DOMAIN parts = 1 .. Len(parts) /\ 1 \in 1 .. Len(parts)
          /\ \A i \in 1 .. Len(parts) : parts[i] \in Seq(Token) /\ i \in Nat
        BY <2>2
    <2>4. \A i \in 1 .. Len(parts) : PagesOf(parts[i], i) \in Seq(TrimmedPage)
        BY <2>3, PagesOfType
    <2>5. /\ pages \in Seq(Seq(TrimmedPage)) /\ pages # <<>>
          /\ pages[1] = PagesOf(parts[1], 1)
        <3>1. pages \in [1 .. Len(parts) -> Seq(TrimmedPage)]
            BY <2>3, <2>4
        <3>2. pages[1] = PagesOf(parts[1], 1)
            BY <2>3
        <3> HIDE DEF pages
        <3>3. pages \in Seq(Seq(TrimmedPage)) /\ DOMAIN pages = 1 .. Len(parts)
            <4> DEFINE E == Seq(TrimmedPage)
            <4> HIDE DEF E
            <4>1. pages \in [1 .. Len(parts) -> E]
                BY <3>1 DEF E
            <4>2. pages \in Seq(E) /\ DOMAIN pages = 1 .. Len(parts)
                BY <2>3, <4>1
            <4> QED BY <4>2 DEF E
        <3>4. pages # <<>>
            BY <2>3, <3>3
        <3> QED BY <3>2, <3>3, <3>4
    <2>6. pages[1] = <<Page(1, Trim(parts[1]))>>
        <3>1. 1 \in Nat
            OBVIOUS
        <3> QED BY <2>3, <2>5, <3>1, PagesOfType
    <2> HIDE DEF pages
    <2>7. FlattenSeq(pages) \in Seq(TrimmedPage)
        BY <2>5, FlattenType
    <2>8. FlattenSeq(pages) # <<>> /\ FlattenSeq(pages)[1] = Page(1, Trim(parts[1]))
        <3>1. pages[1] # <<>> /\ pages[1][1] = Page(1, Trim(parts[1]))
            BY <2>6
        <3> QED BY <2>5, <3>1, FlattenFirst
    <2> QED BY <2>1, <2>7, <2>8 DEF Readable, Page
<1> QED BY <1>1, <1>2

\* A page as it is written: the first without a label.
Part(p, i) == IF i = 1 THEN p.text ELSE Label(p.page) \o p.text

\* Joining one page more.
LEMMA JoinOfPages ==
    /\ Join(<<>>) = <<>>
    /\ \A ps \in Seq(TokenPage), p \in TokenPage :
          /\ Join(ps) \in Seq(Token)
          /\ Join(Append(ps, p)) =
                Join(ps) \o (IF ps = <<>> THEN p.text ELSE Sep \o (Label(p.page) \o p.text))
<1> DEFINE Piece(p, i) == IF i = 1 THEN p.text ELSE Sep \o Label(p.page) \o p.text
           Pieces(ps) == [i \in DOMAIN ps |-> Piece(ps[i], i)]
<1>1. Join(<<>>) = <<>>
    <2>1. Pieces(<<>>) = <<>>
        OBVIOUS
    <2> QED BY <2>1, FlattenNone DEF Join
<1>2. ASSUME NEW p \in TokenPage
      PROVE  /\ p.text \in Seq(Token) /\ Label(p.page) \in Seq(Token) /\ Sep \in Seq(Token)
             /\ Sep \o Label(p.page) \o p.text = Sep \o (Label(p.page) \o p.text)
             /\ Sep \o (Label(p.page) \o p.text) \in Seq(Token)
    <2>1. p.text \in Seq(Token) /\ p.page \in Int
        BY DEF TokenPage
    <2>2. Label(p.page) \in Seq(Token) /\ Sep \in Seq(Token)
        BY <2>1, LabelTokens, SepTokens
    <2>3. ASSUME NEW r \in Seq(Token), NEW s \in Seq(Token), NEW t \in Seq(Token)
          PROVE  r \o s \o t = r \o (s \o t) /\ r \o (s \o t) \in Seq(Token)
        OBVIOUS
    <2> QED BY <2>1, <2>2, <2>3
<1>3. ASSUME NEW p \in TokenPage, NEW i \in Nat PROVE Piece(p, i) \in Seq(Token)
    BY <1>2
<1>4. ASSUME NEW ps \in Seq(TokenPage) PROVE Pieces(ps) \in Seq(Seq(Token))
    <2> HIDE DEF Piece
    <2>1. /\ DOMAIN ps = 1 .. Len(ps) /\ Len(ps) \in Nat
          /\ \A i \in 1 .. Len(ps) : ps[i] \in TokenPage /\ i \in Nat
        OBVIOUS
    <2>2. \A i \in 1 .. Len(ps) : Piece(ps[i], i) \in Seq(Token)
        BY <1>3, <2>1
    <2> QED BY <2>1, <2>2
<1>5. ASSUME NEW ps \in Seq(TokenPage), NEW p \in TokenPage
      PROVE  /\ Join(ps) \in Seq(Token)
             /\ Join(Append(ps, p)) =
                   Join(ps) \o (IF ps = <<>> THEN p.text ELSE Sep \o (Label(p.page) \o p.text))
    <2> DEFINE x == Piece(p, Len(ps) + 1)
    <2>1. Pieces(Append(ps, p)) = Append(Pieces(ps), x)
        <3> HIDE DEF Piece
        <3>1. /\ Len(ps) \in Nat /\ DOMAIN ps = 1 .. Len(ps)
              /\ DOMAIN Append(ps, p) = 1 .. Len(ps) + 1 /\ Append(ps, p)[Len(ps) + 1] = p
              /\ \A i \in 1 .. Len(ps) : Append(ps, p)[i] = ps[i]
            OBVIOUS
        <3>2. Pieces(ps) \in Seq(Seq(Token)) /\ DOMAIN Pieces(ps) = 1 .. Len(ps)
            BY <1>4, <3>1
        <3>4. Len(Pieces(ps)) = Len(ps)
            BY <3>1, <3>2, LenProperties
        <3> HIDE DEF x
        <3>3. /\ DOMAIN Append(Pieces(ps), x) = 1 .. Len(ps) + 1
              /\ Append(Pieces(ps), x)[Len(ps) + 1] = x
              /\ \A i \in 1 .. Len(ps) : Append(Pieces(ps), x)[i] = Piece(ps[i], i)
              /\ Append(Pieces(ps), x) =
                    [i \in DOMAIN Append(Pieces(ps), x) |-> Append(Pieces(ps), x)[i]]
            BY <3>1, <3>2, <3>4
        <3> QED BY <3>1, <3>3 DEF x
    <2>2. Join(ps) = FlattenSeq(Pieces(ps))
          /\ Join(Append(ps, p)) = FlattenSeq(Pieces(Append(ps, p)))
        BY DEF Join
    <2>3. x = IF ps = <<>> THEN p.text ELSE Sep \o (Label(p.page) \o p.text)
        <3>1. Len(ps) + 1 = 1 <=> ps = <<>>
            OBVIOUS
        <3> QED BY <1>2, <3>1
    <2>4. x \in Seq(Token)
        <3>1. Len(ps) + 1 \in Nat
            OBVIOUS
        <3> HIDE DEF Piece
        <3> QED BY <1>3, <3>1
    <2> HIDE DEF Pieces, x
    <2> QED BY <1>4, <2>1, <2>2, <2>3, <2>4, FlattenAppend
<1> QED BY <1>1, <1>5

\* A label before a text, token by token.
LEMMA LabelledTokens ==
    ASSUME NEW n \in Int, NEW w \in Seq(Token), NEW u, u = Label(n) \o w
    PROVE  /\ u \in Seq(Token) /\ Len(u) = Len(w) + 4
           /\ u[1] = Num(n) /\ u[2] = Close /\ u[3] = Newline /\ u[4] = Newline
           /\ \A i \in 1 .. Len(w) : u[4 + i] = w[i]
<1> DEFINE v == Label(n)
<1>1. /\ v \in Seq(Token) /\ Len(v) = 4
      /\ v[1] = Num(n) /\ v[2] = Close /\ v[3] = Newline /\ v[4] = Newline
    BY LabelTokens
<1>2. u = v \o w
    OBVIOUS
<1> HIDE DEF v
<1>3. /\ u \in Seq(Token) /\ Len(u) = Len(v) + Len(w)
      /\ \A i \in 1 .. Len(v) : u[i] = v[i]
      /\ \A i \in 1 .. Len(w) : u[Len(v) + i] = w[i]
    <2>1. v \in Seq(Token)
        BY <1>1
    <2>2. /\ v \o w \in Seq(Token) /\ Len(v \o w) = Len(v) + Len(w)
          /\ \A i \in 1 .. Len(v) : (v \o w)[i] = v[i]
          /\ \A i \in 1 .. Len(w) : (v \o w)[Len(v) + i] = w[i]
        BY <2>1, ConcatTokens, Zenon
    <2> QED BY <1>2, <2>2, Zenon
<1> QED BY <1>1, <1>3

\* Two newlines before a text, token by token.
LEMMA ParagraphTokens ==
    ASSUME NEW w \in Seq(Token), NEW u, u = <<Newline, Newline>> \o w
    PROVE  /\ u \in Seq(Token) /\ Len(u) = Len(w) + 2
           /\ u[1] = Newline /\ u[2] = Newline
           /\ \A i \in 1 .. Len(w) : u[2 + i] = w[i]
<1> DEFINE v == <<Newline, Newline>>
<1>1. v \in Seq(Token) /\ Len(v) = 2 /\ v[1] = Newline /\ v[2] = Newline
    BY Signs
<1>2. u = v \o w
    OBVIOUS
<1> HIDE DEF v
<1>3. /\ u \in Seq(Token) /\ Len(u) = Len(v) + Len(w)
      /\ \A i \in 1 .. Len(v) : u[i] = v[i]
      /\ \A i \in 1 .. Len(w) : u[Len(v) + i] = w[i]
    <2>1. v \in Seq(Token)
        BY <1>1
    <2>2. /\ v \o w \in Seq(Token) /\ Len(v \o w) = Len(v) + Len(w)
          /\ \A i \in 1 .. Len(v) : (v \o w)[i] = v[i]
          /\ \A i \in 1 .. Len(w) : (v \o w)[Len(v) + i] = w[i]
        BY <2>1, ConcatTokens, Zenon
    <2> QED BY <1>2, <2>2, Zenon
<1> QED BY <1>1, <1>3

\* What spells no separator behind two newlines spells none behind a label.
LEMMA LabelSpellsNothing ==
    ASSUME NEW n \in Int, NEW w \in Seq(Token), ~HoldsSep(<<Newline, Newline>> \o w)
    PROVE  ~HoldsSep(Label(n) \o w)
<1> DEFINE u == Label(n) \o w
           v == <<Newline, Newline>> \o w
<1>1. /\ u \in Seq(Token) /\ Len(u) = Len(w) + 4 /\ Len(w) \in Nat
      /\ u[1] = Num(n) /\ u[2] = Close /\ u[3] = Newline /\ u[4] = Newline
      /\ \A i \in 1 .. Len(w) : u[4 + i] = w[i]
    <2>1. Len(w) \in Nat
        OBVIOUS
    <2> HIDE DEF u
    <2>2. u = Label(n) \o w
        BY DEF u
    <2>3. /\ u \in Seq(Token) /\ Len(u) = Len(w) + 4
          /\ u[1] = Num(n) /\ u[2] = Close /\ u[3] = Newline /\ u[4] = Newline
          /\ \A j \in 1 .. Len(w) : u[4 + j] = w[j]
        BY <2>2, LabelledTokens, Zenon
    <2> QED BY <2>1, <2>3
<1>2. /\ v \in Seq(Token) /\ Len(v) = Len(w) + 2
      /\ v[1] = Newline /\ v[2] = Newline
      /\ \A i \in 1 .. Len(w) : v[2 + i] = w[i]
    BY ParagraphTokens
<1>3. ~HoldsSep(v)
    OBVIOUS
<1> HIDE DEF u, v
<1>4. \A i \in 1 .. Len(v) : u[i + 2] = v[i]
    <2> TAKE i \in 1 .. Len(v)
    <2>1. CASE i = 1 \/ i = 2
        BY <1>1, <1>2, <2>1
    <2>2. CASE i # 1 /\ i # 2
        <3>1. i - 2 \in 1 .. Len(w) /\ 2 + (i - 2) = i /\ 4 + (i - 2) = i + 2
            BY <1>1, <1>2, <2>2
        <3> QED BY <1>1, <1>2, <3>1
    <2> QED BY <2>1, <2>2
<1>5. ASSUME NEW i \in 0 .. Len(u) - 4 PROVE ~SepAt(u, i)
    <2>1. SepAt(u, i) => u[i + 1] = Newline /\ u[i + 2] = Newline
        BY SepAtTokens
    <2>2. CASE i = 0 \/ i = 1
        BY <1>1, <2>1, <2>2, Signs
    <2>3. CASE i # 0 /\ i # 1
        <3> DEFINE j == i - 2
        <3>1. /\ j \in 0 .. Len(v) - 4 /\ i + 1 = (j + 1) + 2 /\ i + 2 = (j + 2) + 2
              /\ i + 3 = (j + 3) + 2 /\ i + 4 = (j + 4) + 2
              /\ j + 1 \in 1 .. Len(v) /\ j + 2 \in 1 .. Len(v)
              /\ j + 3 \in 1 .. Len(v) /\ j + 4 \in 1 .. Len(v)
            <4>1. Len(u) = Len(v) + 2 /\ Len(v) \in Nat
                BY <1>1, <1>2
            <4> QED BY <2>3, <4>1
        <3> HIDE DEF j
        <3>2. /\ u[(j + 1) + 2] = v[j + 1] /\ u[(j + 2) + 2] = v[j + 2]
              /\ u[(j + 3) + 2] = v[j + 3] /\ u[(j + 4) + 2] = v[j + 4]
            BY <1>4, <3>1, Zenon
        <3>3. SepAt(v, j) <=> /\ v[j + 1] = Newline /\ v[j + 2] = Newline
                              /\ v[j + 3] = Sign("page") /\ v[j + 4] = Space
            <4>1. j \in Int
                BY <3>1
            <4> QED BY <4>1, SepAtTokens, Zenon
        <3>4. SepAt(u, i) <=> /\ u[i + 1] = Newline /\ u[i + 2] = Newline
                              /\ u[i + 3] = Sign("page") /\ u[i + 4] = Space
            <4>1. i \in Int
                OBVIOUS
            <4> QED BY <4>1, SepAtTokens, Zenon
        <3>5. ~SepAt(v, j)
            BY <1>3, <3>1 DEF HoldsSep
        <3> QED BY <3>1, <3>2, <3>3, <3>4, <3>5, Zenon
    <2> QED BY <2>2, <2>3
<1> QED BY <1>5 DEF HoldsSep, u

\* A page that was written with its label is read with its number.
LEMMA PagesOfLabelled ==
    ASSUME NEW n \in Int, NEW w \in Seq(Token), NEW i \in Nat, i # 1
    PROVE  PagesOf(Label(n) \o w, i) = <<Page(n, Trim(w))>>
<1> DEFINE u == Label(n) \o w
<1>1. /\ u \in Seq(Token) /\ Len(u) = Len(w) + 4 /\ Len(w) \in Nat
      /\ u[1] = Num(n) /\ u[2] = Close /\ u[3] = Newline /\ u[4] = Newline
      /\ \A j \in 1 .. Len(w) : u[4 + j] = w[j]
    <2>1. Len(w) \in Nat
        OBVIOUS
    <2> HIDE DEF u
    <2>2. u = Label(n) \o w
        BY DEF u
    <2>3. /\ u \in Seq(Token) /\ Len(u) = Len(w) + 4
          /\ u[1] = Num(n) /\ u[2] = Close /\ u[3] = Newline /\ u[4] = Newline
          /\ \A j \in 1 .. Len(w) : u[4 + j] = w[j]
        BY <2>2, LabelledTokens, ZenonT(40)
    <2> QED BY <2>1, <2>3
<1> HIDE DEF u
<1>2. ClosedAt(u) = 2
    <2> DEFINE I == {j \in 1 .. Len(u) : u[j] = Close}
    <2>1. ClosedAt(u) = IF I # {} THEN Min(I) ELSE 0
        BY DEF ClosedAt, SelectInSeq
    <2>2. 2 \in I /\ 1 \notin I /\ I \subseteq Nat /\ \A j \in I : j >= 1
        <3>1. 1 \in 1 .. Len(u) /\ 2 \in 1 .. Len(u) /\ u[1] # Close
            BY <1>1, Signs
        <3> QED BY <1>1, <3>1
    <2> HIDE DEF I
    <2>3. Min(I) \in I /\ \A j \in I : Min(I) <= j
        BY <2>2, MinIsSmallest
    <2>4. Min(I) <= 2 /\ Min(I) # 1 /\ Min(I) \in Nat /\ Min(I) >= 1
        BY <2>2, <2>3
    <2>5. I # {}
        BY <2>2
    <2> QED BY <2>1, <2>4, <2>5
<1>3. Number(SubSeq(u, 1, 1)) = n
    <2> DEFINE s == SubSeq(u, 1, 1)
               I == {j \in 1 .. Len(s) : s[j].kind \notin {"space", "tab"}}
    <2>1. s \in Seq(Token) /\ Len(s) = 1 /\ s[1] = Num(n)
        BY <1>1
    <2> HIDE DEF s
    <2>2. I = {1}
        BY <2>1, Signs
    <2>3. Min({1}) = 1
        BY MinIsSmallest
    <2>4. SelectInSeq(s, LAMBDA t : t.kind \notin {"space", "tab"}) = 1
        BY <2>2, <2>3 DEF SelectInSeq
    <2> QED BY <2>1, <2>4, Signs DEF Number, s
<1>4. SubSeq(u, 3, Len(u)) = <<Newline, Newline>> \o w
    <2> DEFINE v == <<Newline, Newline>> \o w
               x == SubSeq(u, 3, Len(u))
    <2>1. /\ v \in Seq(Token) /\ Len(v) = Len(w) + 2
          /\ v[1] = Newline /\ v[2] = Newline
          /\ \A j \in 1 .. Len(w) : v[2 + j] = w[j]
        BY ParagraphTokens
    <2>2. /\ x \in Seq(Token) /\ Len(x) = Len(w) + 2
          /\ \A j \in 1 .. Len(w) + 2 : x[j] = u[j + 2]
        BY <1>1
    <2> HIDE DEF v, x
    <2>3. \A j \in 1 .. Len(w) + 2 : x[j] = v[j]
        <3> TAKE j \in 1 .. Len(w) + 2
        <3>1. CASE j = 1 \/ j = 2
            BY <1>1, <2>1, <2>2, <3>1
        <3>2. CASE j # 1 /\ j # 2
            <4>1. j - 2 \in 1 .. Len(w) /\ 2 + (j - 2) = j /\ 4 + (j - 2) = j + 2
                BY <1>1, <3>2
            <4> QED BY <1>1, <2>1, <2>2, <4>1
        <3> QED BY <3>1, <3>2
    <2>4. x = v
        BY <2>1, <2>2, <2>3, SeqEqual
    <2> QED BY <2>4 DEF x, v
<1>5. Trim(<<Newline, Newline>> \o w) = Trim(w)
    BY TrimOfParagraph
<1>6. PagesOf(u, i) = <<Page(Number(SubSeq(u, 1, 2 - 1)), Trim(SubSeq(u, 2 + 1, Len(u))))>>
    BY <1>2 DEF PagesOf
<1>7. 2 - 1 = 1 /\ 2 + 1 = 3
    OBVIOUS
<1> QED BY <1>3, <1>4, <1>5, <1>6, <1>7 DEF u

\* A sequence with one more element.
LEMMA AppendPlaces ==
    ASSUME NEW E, NEW s \in Seq(E), NEW x \in E
    PROVE  Append(s, x) = [i \in 1 .. Len(s) + 1 |-> IF i = Len(s) + 1 THEN x ELSE s[i]]
<1> DEFINE n == Len(s)
           f == [i \in 1 .. n + 1 |-> IF i = n + 1 THEN x ELSE s[i]]
<1>1. /\ n \in Nat /\ Append(s, x) \in Seq(E) /\ Len(Append(s, x)) = n + 1
      /\ DOMAIN Append(s, x) = 1 .. n + 1
      /\ Append(s, x)[n + 1] = x /\ \A i \in 1 .. n : Append(s, x)[i] = s[i]
    OBVIOUS
<1> DEFINE a == Append(s, x)
<1>2. a = [i \in 1 .. n + 1 |-> a[i]]
    <2>1. a \in Seq(E)
        BY <1>1
    <2> HIDE DEF a
    <2>2. PICK m \in Nat : a \in [1 .. m -> E]
        BY <2>1
    <2>3. a = [i \in DOMAIN a |-> a[i]]
        BY <2>2
    <2> QED BY <1>1, <2>3 DEF a
<1> HIDE DEF a, n
<1>3. \A i \in 1 .. n + 1 : a[i] = IF i = n + 1 THEN x ELSE s[i]
    <2>1. \A i \in 1 .. n + 1 : i = n + 1 \/ i \in 1 .. n
        BY <1>1 DEF n
    <2> QED BY <1>1, <2>1 DEF a
<1> HIDE DEF f
<1>4. a = f
    BY <1>2, <1>3 DEF f
<1> QED BY <1>4 DEF a, f, n

\* The parts of pages that were joined are the pages as they were written.
LEMMA SplitOfPages ==
    ASSUME NEW qs \in Seq(TokenPage), qs # <<>>, Unspelt(qs)
    PROVE  Split(Join(qs)) = [i \in 1 .. Len(qs) |-> Part(qs[i], i)]
<1> DEFINE Parts(ps) == [i \in 1 .. Len(ps) |-> Part(ps[i], i)]
           P == {ps \in Seq(TokenPage) : ps # <<>> /\ Unspelt(ps) => Split(Join(ps)) = Parts(ps)}
<1>1. <<>> \in P
    OBVIOUS
<1>2. ASSUME NEW ps \in Seq(TokenPage), NEW p \in TokenPage, ps \in P
      PROVE  Append(ps, p) \in P
    <2> SUFFICES ASSUME Unspelt(Append(ps, p))
                 PROVE  Split(Join(Append(ps, p))) = Parts(Append(ps, p))
        <3>1. Append(ps, p) \in Seq(TokenPage)
            BY AppendProperties
        <3> HIDE DEF Parts
        <3> QED BY <3>1
    <2> DEFINE n == Len(ps)
               rs == Append(ps, p)
    <2>1. /\ n \in Nat /\ rs \in Seq(TokenPage) /\ Len(rs) = n + 1 /\ DOMAIN rs = 1 .. n + 1
          /\ rs[n + 1] = p /\ n + 1 \in 1 .. n + 1
          /\ \A i \in 1 .. n : rs[i] = ps[i] /\ i \in 1 .. n + 1
          /\ DOMAIN ps = 1 .. n
        OBVIOUS
    <2> HIDE DEF rs
    <2>2. \A i \in 1 .. n + 1 :
             ~HoldsSep(IF i = 1 THEN rs[i].text ELSE <<Newline, Newline>> \o rs[i].text)
        BY <2>1 DEF Unspelt, rs
    <2>3. Unspelt(ps)
        <3>1. \A i \in 1 .. n :
             ~HoldsSep(IF i = 1 THEN ps[i].text ELSE <<Newline, Newline>> \o ps[i].text)
            BY <2>1, <2>2
        <3> QED BY <2>1, <3>1 DEF Unspelt
    <2>4. p.text \in Seq(Token) /\ p.page \in Int
        BY DEF TokenPage
    <2>5. Parts(rs) = [i \in 1 .. n + 1 |-> IF i = n + 1 THEN Part(p, i) ELSE Part(ps[i], i)]
        <3>1. \A i \in 1 .. n + 1 : i = n + 1 \/ i \in 1 .. n
            BY <2>1
        <3>2. \A i \in 1 .. n + 1 :
                 Part(rs[i], i) = IF i = n + 1 THEN Part(p, i) ELSE Part(ps[i], i)
            BY <2>1, <3>1
        <3> QED BY <2>1, <3>2
    <2>6. CASE ps = <<>>
        <3>1. n = 0 /\ Join(ps) = <<>>
            BY <2>6, JoinOfPages
        <3>2. Join(rs) = <<>> \o p.text
            BY <2>6, <3>1, JoinOfPages DEF rs
        <3>3. Join(rs) = p.text
            BY <2>4, <3>2
        <3>4. ~HoldsSep(p.text)
            BY <2>1, <2>2, <3>1
        <3>5. Split(Join(rs)) = <<p.text>>
            BY <2>4, <3>3, <3>4, SplitOfPlain
        <3>6. Parts(rs) = [i \in 1 .. 1 |-> p.text]
            BY <2>5, <3>1 DEF Part
        <3>7. <<p.text>> = [i \in 1 .. 1 |-> p.text]
            OBVIOUS
        <3> HIDE DEF Parts
        <3> QED BY <3>5, <3>6, <3>7 DEF rs
    <2>7. CASE ps # <<>>
        <3> DEFINE w == Label(p.page) \o p.text
        <3>1. n # 0
            BY <2>7
        <3>2. Join(ps) \in Seq(Token) /\ Join(rs) = Join(ps) \o (Sep \o w)
            BY <2>7, JoinOfPages DEF rs
        <3>3. ~HoldsSep(<<Newline, Newline>> \o p.text)
            <4>1. n + 1 # 1
                BY <2>1, <3>1
            <4> QED BY <2>1, <2>2, <4>1
        <3>4. w \in Seq(Token)
            BY <2>4, LabelledTokens
        <3>5. ~HoldsSep(w)
            BY <2>4, <3>3, LabelSpellsNothing
        <3> HIDE DEF w
        <3>6. Split(Join(rs)) = Append(Split(Join(ps)), w)
            BY <3>2, <3>4, <3>5, SplitOfJoin
        <3>7. Split(Join(ps)) = Parts(ps)
            BY <1>2, <2>3, <2>7
        <3>8. Split(Join(ps)) \in Seq(Seq(Token))
            BY <3>2, SplitType
        <3> DEFINE ss == Split(Join(ps))
        <3>9. Len(ss) = n /\ \A i \in 1 .. n : ss[i] = Part(ps[i], i)
            <4>1. DOMAIN ss = 1 .. n /\ ss \in Seq(Seq(Token))
                BY <3>7, <3>8
            <4>2. \A i \in 1 .. n : ss[i] = Part(ps[i], i)
                BY <3>7
            <4> HIDE DEF ss
            <4> QED BY <2>1, <4>1, <4>2, LenProperties
        <3>10. Part(p, n + 1) = w
            <4>1. n + 1 # 1
                BY <2>1, <3>1
            <4> QED BY <4>1 DEF Part, w
        <3> HIDE DEF ss
        <3>11. Append(ss, w) = [i \in 1 .. n + 1 |-> IF i = n + 1 THEN w ELSE ss[i]]
            <4>1. ss \in Seq(Seq(Token)) /\ Len(ss) = n
                BY <3>8, <3>9 DEF ss
            <4> HIDE DEF n, w
            <4> QED BY <3>4, <4>1, AppendPlaces
        <3>12. \A i \in 1 .. n + 1 : (IF i = n + 1 THEN w ELSE ss[i])
                                   = IF i = n + 1 THEN Part(p, i) ELSE Part(ps[i], i)
            <4> TAKE i \in 1 .. n + 1
            <4>1. i = n + 1 \/ i \in 1 .. n
                BY <2>1
            <4> QED BY <3>9, <3>10, <4>1
        <3>13. Append(ss, w) = Parts(rs)
            BY <2>5, <3>11, <3>12
        <3> QED BY <3>6, <3>13 DEF ss, rs
    <2> QED BY <2>6, <2>7
<1> HIDE DEF P
<1>3. Seq(TokenPage) \subseteq P
    BY <1>1, <1>2, SeqInduct
<1> QED BY <1>3 DEF P

\* Pages as they are read back: trimmed.
TrimmedPages(ps) == [i \in 1 .. Len(ps) |-> Page(ps[i].page, Trim(ps[i].text))]

\* Trimmed pages, place by place.
LEMMA TrimmedPagesType ==
    ASSUME NEW ps \in Seq(TokenPage)
    PROVE  /\ TrimmedPages(ps) \in Seq(TrimmedPage) /\ Len(TrimmedPages(ps)) = Len(ps)
           /\ \A i \in 1 .. Len(ps) : /\ TrimmedPages(ps)[i] = Page(ps[i].page, Trim(ps[i].text))
                                      /\ TrimmedPages(ps)[i].page = ps[i].page
                                      /\ TrimmedPages(ps)[i].text = Trim(ps[i].text)
<1> DEFINE qs == TrimmedPages(ps)
<1>1. \A i \in 1 .. Len(ps) : ps[i].page \in Int /\ ps[i].text \in Seq(Token)
    <2>1. \A i \in 1 .. Len(ps) : ps[i] \in TokenPage
        OBVIOUS
    <2> QED BY <2>1 DEF TokenPage
<1>2. \A i \in 1 .. Len(ps) : Page(ps[i].page, Trim(ps[i].text)) \in TrimmedPage
    BY <1>1, TrimType, PageType
<1>3. /\ Len(ps) \in Nat /\ qs \in [1 .. Len(ps) -> TrimmedPage]
      /\ \A i \in 1 .. Len(ps) : qs[i] = Page(ps[i].page, Trim(ps[i].text))
    BY <1>2 DEF TrimmedPages
<1> HIDE DEF qs
<1>4. qs \in Seq(TrimmedPage) /\ DOMAIN qs = 1 .. Len(ps)
    BY <1>3
<1>5. Len(qs) = Len(ps)
    BY <1>3, <1>4, LenProperties
<1>6. \A i \in 1 .. Len(ps) : qs[i].page = ps[i].page /\ qs[i].text = Trim(ps[i].text)
    BY <1>3 DEF Page
<1> QED BY <1>3, <1>4, <1>5, <1>6 DEF qs

\* Parsing what was joined gives the pages that were joined, but for the space
\* around them; an empty text is what one empty page leaves.
LEMMA ParseOfJoin ==
    ASSUME NEW ps \in Seq(TokenPage), ps # <<>>, ps[1].page = 1, Unspelt(ps)
    PROVE  /\ Join(ps) # <<>> => ParsePages(Join(ps)) = TrimmedPages(ps)
           /\ Join(ps) = <<>> => Len(ps) = 1 /\ ps[1].text = <<>>
<1> DEFINE n == Len(ps)
           parts == Split(Join(ps))
<1>0. n \in Nat /\ n # 0 /\ 1 \in 1 .. n /\ \A i \in 1 .. n : ps[i] \in TokenPage /\ i \in Nat
    OBVIOUS
<1>1. parts = [i \in 1 .. n |-> Part(ps[i], i)]
    BY SplitOfPages
<1>2. Join(ps) \in Seq(Token)
    <2>1. ps[1] \in TokenPage
        BY <1>0
    <2> QED BY <2>1, JoinOfPages
<1>3. ASSUME NEW i \in 1 .. n
      PROVE  PagesOf(Part(ps[i], i), i) = <<Page(ps[i].page, Trim(ps[i].text))>>
    <2>1. ps[i].page \in Int /\ ps[i].text \in Seq(Token) /\ i \in Nat
        BY <1>0 DEF TokenPage
    <2>2. CASE i = 1
        BY <2>1, <2>2, PagesOfType DEF Part
    <2>3. CASE i # 1
        BY <2>1, <2>3, PagesOfLabelled DEF Part
    <2> QED BY <2>2, <2>3
<1>4. CASE Join(ps) # <<>>
    <2> DEFINE qs == TrimmedPages(ps)
    <2>1. /\ qs \in Seq(TrimmedPage) /\ Len(qs) = n
          /\ \A i \in 1 .. n : qs[i] = Page(ps[i].page, Trim(ps[i].text))
        BY TrimmedPagesType
    <2>2. [i \in DOMAIN parts |-> PagesOf(parts[i], i)] = [i \in 1 .. n |-> <<qs[i]>>]
        <3>1. DOMAIN parts = 1 .. n /\ \A i \in 1 .. n : parts[i] = Part(ps[i], i)
            BY <1>1
        <3> HIDE DEF parts, qs
        <3>2. \A i \in 1 .. n : PagesOf(parts[i], i) = <<qs[i]>>
            BY <1>3, <2>1, <3>1
        <3> QED BY <3>1, <3>2
    <2>3. ParsePages(Join(ps)) = FlattenSeq([i \in DOMAIN parts |-> PagesOf(parts[i], i)])
        BY <1>4 DEF ParsePages
    <2> HIDE DEF parts, qs
    <2>4. DOMAIN qs = 1 .. n
        BY <2>1
    <2>5. FlattenSeq([i \in DOMAIN qs |-> <<qs[i]>>]) = qs
        BY <2>1, FlattenSingles
    <2> QED BY <1>4, <2>2, <2>3, <2>4, <2>5 DEF qs
<1>5. CASE Join(ps) = <<>>
    <2>1. ~HoldsSep(<<>>) /\ <<>> \in Seq(Token)
        BY DEF HoldsSep
    <2>2. parts = << <<>> >>
        BY <1>5, <2>1, SplitOfPlain
    <2>3. n = 1
        <3>1. DOMAIN parts = 1 .. n /\ DOMAIN parts = 1 .. 1
            BY <1>1, <2>2
        <3> HIDE DEF n
        <3>2. 1 .. n = 1 .. 1 => n = 1
            <4>1. n \in 1 .. n
                BY <1>0
            <4> QED BY <4>1
        <3> QED BY <3>1, <3>2
    <2>4. Part(ps[1], 1) = <<>>
        <3>1. parts[1] = <<>>
            BY <2>2
        <3>2. parts[1] = Part(ps[1], 1)
            BY <1>0, <1>1
        <3> QED BY <3>1, <3>2
    <2>5. ps[1].text = <<>>
        BY <2>4 DEF Part
    <2> QED BY <1>5, <2>3, <2>5
<1> QED BY <1>4, <1>5

-----------------------------------------------------------------------------
(* Which page readers are shown. *)

Places(ps, k) == {i \in 1 .. Len(ps) : ps[i].page = k}

\* PageAt is the first of the places of the number, or 0.
LEMMA PageAtOfPlaces ==
    ASSUME NEW ps, NEW k
    PROVE  PageAt(ps, k) = IF Places(ps, k) # {} THEN Min(Places(ps, k)) ELSE 0
BY DEF PageAt, SelectInSeq, Places

\* The page PageAt finds has the number, and no earlier one has.
LEMMA PageAtIsFirst ==
    ASSUME NEW ps \in Seq(TokenPage), NEW k
    PROVE  /\ PageAt(ps, k) = 0 <=> Places(ps, k) = {}
           /\ PageAt(ps, k) # 0 =>
                 /\ PageAt(ps, k) \in 1 .. Len(ps) /\ ps[PageAt(ps, k)].page = k
                 /\ \A i \in Places(ps, k) : PageAt(ps, k) <= i
<1>1. Places(ps, k) \subseteq 1 .. Len(ps) /\ Places(ps, k) \subseteq Nat
    BY DEF Places
<1>2. CASE Places(ps, k) = {}
    BY <1>2, PageAtOfPlaces
<1>3. CASE Places(ps, k) # {}
    <2>1. PageAt(ps, k) \in Places(ps, k) /\ \A i \in Places(ps, k) : PageAt(ps, k) <= i
        BY <1>1, <1>3, PageAtOfPlaces, MinIsSmallest
    <2> QED BY <1>1, <1>3, <2>1 DEF Places
<1> QED BY <1>2, <1>3

\* No page has no number.
LEMMA NoPageAt == \A k : PageAt(<<>>, k) = 0
<1> TAKE k
<1>1. Places(<<>>, k) = {} /\ <<>> \in Seq(TokenPage)
    BY DEF Places
<1> QED BY <1>1, PageAtIsFirst

\* Pages that readers are shown are pages.
LEMMA ReadableType ==
    ASSUME NEW ps \in Readable
    PROVE  /\ ps \in Seq(TokenPage) /\ ps # <<>> /\ ps[1].page = 1
           /\ \A i \in 1 .. Len(ps) : Trimmed(ps[i].text)
<1>1. ps \in Seq(TrimmedPage) /\ ps # <<>> /\ ps[1].page = 1
    BY DEF Readable
<1>2. \A i \in 1 .. Len(ps) : ps[i] \in TokenPage /\ Trimmed(ps[i].text)
    BY <1>1 DEF TrimmedPage
<1>3. ps \in Seq(TokenPage)
    BY <1>1, <1>2
<1> QED BY <1>1, <1>2, <1>3

\* What readers are shown of pages that were joined and parsed again.
LEMMA TextOfJoin ==
    ASSUME NEW ps \in Seq(TokenPage), ps # <<>>, ps[1].page = 1, Unspelt(ps), NEW k
    PROVE  TextOf(ParsePages(Join(ps)), k) = Trim(TextOf(ps, k))
<1> DEFINE qs == TrimmedPages(ps)
           i == PageAt(ps, k)
<1>0. Trim(<<>>) = <<>>
    BY TrimOfTrimmed, <<>> \in Seq(Token) DEF Trimmed
<1>1. CASE Join(ps) # <<>>
    <2>1. ParsePages(Join(ps)) = qs
        BY <1>1, ParseOfJoin
    <2>2. /\ Len(qs) = Len(ps)
          /\ \A j \in 1 .. Len(ps) : qs[j].page = ps[j].page /\ qs[j].text = Trim(ps[j].text)
        BY TrimmedPagesType
    <2> HIDE DEF qs
    <2>3. Places(qs, k) = Places(ps, k)
        BY <2>2 DEF Places
    <2>4. PageAt(qs, k) = i
        BY <2>3, PageAtOfPlaces
    <2>5. i # 0 => i \in 1 .. Len(ps)
        BY PageAtIsFirst
    <2> HIDE DEF i
    <2>6. CASE i = 0
        BY <1>0, <2>1, <2>4, <2>6 DEF TextOf, i
    <2>7. CASE i # 0
        <3>1. TextOf(qs, k) = qs[i].text /\ TextOf(ps, k) = ps[i].text
            BY <2>4, <2>7 DEF TextOf, i
        <3> QED BY <2>1, <2>2, <2>5, <2>7, <3>1
    <2> QED BY <2>6, <2>7
<1>2. CASE Join(ps) = <<>>
    <2>1. Len(ps) = 1 /\ ps[1].text = <<>>
        BY <1>2, ParseOfJoin
    <2>2. TextOf(ps, k) = <<>>
        <3>1. i # 0 => i \in 1 .. Len(ps)
            BY PageAtIsFirst
        <3>2. i # 0 => i = 1
            BY <2>1, <3>1
        <3> QED BY <2>1, <3>2 DEF TextOf
    <2>3. ParsePages(Join(ps)) = <<>>
        BY <1>2 DEF ParsePages
    <2>4. TextOf(<<>>, k) = <<>>
        BY NoPageAt DEF TextOf
    <2> QED BY <1>0, <2>2, <2>3, <2>4
<1> QED BY <1>1, <1>2

Edited(ps, k, w) == [ps EXCEPT ![PageAt(ps, k)].text = w]

\* Editing the text of page k.
LEMMA TextsOfEdit ==
    ASSUME NEW ps \in Readable, NEW k, PageAt(ps, k) # 0, NEW w \in Seq(Token)
    PROVE  /\ Edited(ps, k, w) \in Seq(TokenPage) /\ Edited(ps, k, w) # <<>>
           /\ Edited(ps, k, w)[1].page = 1
           /\ TextOf(Edited(ps, k, w), k) = w
           /\ \A m : m # k => TextOf(Edited(ps, k, w), m) = TextOf(ps, m)
<1> DEFINE i == PageAt(ps, k)
           qs == Edited(ps, k, w)
<1>1. ps \in Seq(TokenPage) /\ ps # <<>> /\ ps[1].page = 1
    BY ReadableType
<1>2. i \in 1 .. Len(ps) /\ ps[i].page = k /\ ps[i] \in TokenPage
    BY <1>1, PageAtIsFirst
<1> DEFINE q == [ps[i] EXCEPT !.text = w]
<1>3. q \in TokenPage /\ q.page = k /\ q.text = w
    <2> HIDE DEF i
    <2> QED BY <1>2 DEF TokenPage
<1>4. qs = [ps EXCEPT ![i] = q]
    BY DEF Edited
<1> HIDE DEF q, qs, i
<1>5. /\ qs \in Seq(TokenPage) /\ Len(qs) = Len(ps)
      /\ \A j \in 1 .. Len(ps) : qs[j] = IF j = i THEN q ELSE ps[j]
    <2>1. /\ [ps EXCEPT ![i] = q] \in Seq(TokenPage) /\ Len([ps EXCEPT ![i] = q]) = Len(ps)
          /\ \A j \in 1 .. Len(ps) : [ps EXCEPT ![i] = q][j] = IF j = i THEN q ELSE ps[j]
        BY <1>1, <1>2, <1>3, ExceptSeq
    <2> QED BY <1>4, <2>1
<1>6. \A j \in 1 .. Len(ps) : qs[j].page = ps[j].page
    BY <1>2, <1>3, <1>5
<1>7. qs # <<>> /\ qs[1].page = 1
    <2>1. 1 \in 1 .. Len(ps)
        BY <1>1
    <2>2. qs # <<>>
        BY <1>5, <2>1, EmptySeq
    <2> QED BY <1>1, <1>6, <2>1, <2>2
<1>8. \A m : PageAt(qs, m) = PageAt(ps, m)
    <2> TAKE m
    <2>1. Places(qs, m) = Places(ps, m)
        BY <1>5, <1>6 DEF Places
    <2> QED BY <2>1, PageAtOfPlaces
<1>9. TextOf(qs, k) = w
    <2>1. PageAt(qs, k) = i /\ i # 0
        BY <1>8 DEF i
    <2> QED BY <1>2, <1>3, <1>5, <2>1 DEF TextOf
<1>10. ASSUME NEW m, m # k PROVE TextOf(qs, m) = TextOf(ps, m)
    <2>1. CASE PageAt(ps, m) = 0
        BY <1>8, <2>1 DEF TextOf
    <2>2. CASE PageAt(ps, m) # 0
        <3>1. PageAt(ps, m) \in 1 .. Len(ps) /\ ps[PageAt(ps, m)].page = m
            BY <1>1, <2>2, PageAtIsFirst
        <3>2. PageAt(ps, m) # i
            BY <1>2, <1>10, <3>1
        <3>3. qs[PageAt(ps, m)] = ps[PageAt(ps, m)]
            BY <1>5, <3>1, <3>2
        <3>4. TextOf(qs, m) = qs[PageAt(qs, m)].text /\ TextOf(ps, m) = ps[PageAt(ps, m)].text
            BY <1>8, <2>2 DEF TextOf
        <3> QED BY <1>8, <3>3, <3>4
    <2> QED BY <2>1, <2>2
<1> QED BY <1>5, <1>7, <1>9, <1>10 DEF qs

\* What readers are shown has no space around it.
LEMMA TextIsTrimmed ==
    ASSUME NEW t \in Seq(Token), NEW k
    PROVE  Trim(TextOf(ParsePages(t), k)) = TextOf(ParsePages(t), k)
<1> DEFINE ps == ParsePages(t)
           i == PageAt(ps, k)
<1>0. Trim(<<>>) = <<>>
    BY TrimOfTrimmed, <<>> \in Seq(Token) DEF Trimmed
<1>1. ps \in Readable \/ ps = <<>>
    BY ParseType
<1> HIDE DEF ps
<1>2. ASSUME i = 0 PROVE Trim(TextOf(ps, k)) = TextOf(ps, k)
    BY <1>0, <1>2 DEF TextOf
<1>3. ASSUME i # 0 PROVE Trim(TextOf(ps, k)) = TextOf(ps, k)
    <2>1. ps \in Readable
        BY <1>1, <1>3, NoPageAt
    <2>2. ps \in Seq(TokenPage) /\ \A j \in 1 .. Len(ps) : Trimmed(ps[j].text)
        BY <2>1, ReadableType
    <2>3. i \in 1 .. Len(ps)
        BY <1>3, <2>2, PageAtIsFirst
    <2> HIDE DEF i
    <2>4. ps[i].text \in Seq(Token) /\ Trimmed(ps[i].text)
        <3>1. ps[i] \in TokenPage
            BY <2>2, <2>3
        <3> QED BY <2>2, <2>3, <3>1 DEF TokenPage
    <2>5. Trim(ps[i].text) = ps[i].text
        BY <2>4, TrimOfTrimmed
    <2> QED BY <1>3, <2>5 DEF TextOf, i
<1>4. Trim(TextOf(ps, k)) = TextOf(ps, k)
    BY <1>2, <1>3
<1> QED BY <1>4 DEF ps

\* The pages of a document.
LEMMA NumberedType ==
    ASSUME NEW doc \in Seq(Seq(Token))
    PROVE  /\ Numbered(doc) \in Seq(TokenPage) /\ Len(Numbered(doc)) = Len(doc)
           /\ \A i \in 1 .. Len(doc) : Numbered(doc)[i].page = i /\ Numbered(doc)[i].text = doc[i]
           /\ ExtractText(doc) \in Seq(Token)
<1> DEFINE ps == Numbered(doc)
<1>1. /\ Len(doc) \in Nat /\ DOMAIN doc = 1 .. Len(doc)
      /\ \A j \in 1 .. Len(doc) : doc[j] \in Seq(Token) /\ j \in Int
    OBVIOUS
<1>2. \A j \in 1 .. Len(doc) : Page(j, doc[j]) \in TokenPage
    BY <1>1, PageType
<1>3. /\ ps \in [1 .. Len(doc) -> TokenPage]
      /\ \A j \in 1 .. Len(doc) : ps[j] = Page(j, doc[j])
    BY <1>1, <1>2 DEF Numbered
<1> HIDE DEF ps
<1>4. ps \in Seq(TokenPage) /\ DOMAIN ps = 1 .. Len(doc)
    <2>1. Len(doc) \in Nat /\ ps \in [1 .. Len(doc) -> TokenPage]
        BY <1>1, <1>3
    <2>2. \A m \in Nat : ps \in [1 .. m -> TokenPage] => ps \in Seq(TokenPage) /\ DOMAIN ps = 1 .. m
        OBVIOUS
    <2> QED BY <2>1, <2>2
<1>5. Len(ps) = Len(doc)
    BY <1>1, <1>4, LenProperties
<1>6. \A j \in 1 .. Len(doc) : ps[j].page = j /\ ps[j].text = doc[j]
    BY <1>3 DEF Page
<1>7. Join(ps) \in Seq(Token)
    <2>1. Page(1, <<>>) \in TokenPage
        <3>1. <<>> \in Seq(Token) /\ 1 \in Int
            OBVIOUS
        <3> QED BY <3>1, PageType
    <2> QED BY <1>4, <2>1, JoinOfPages
<1> QED BY <1>4, <1>5, <1>6, <1>7 DEF ps, ExtractText

\* A document joins to the text of its pages.
LEMMA TextOfDocument ==
    ASSUME NEW doc \in Seq(Seq(Token)), NEW i \in DOMAIN doc, Unspelt(Numbered(doc))
    PROVE  TextOf(ParsePages(ExtractText(doc)), i) = Trim(doc[i])
<1> DEFINE ps == Numbered(doc)
<1>1. /\ ps \in Seq(TokenPage) /\ Len(ps) = Len(doc) /\ Len(doc) \in Nat
      /\ \A j \in 1 .. Len(doc) : ps[j].page = j /\ ps[j].text = doc[j]
      /\ i \in 1 .. Len(doc) /\ 1 \in 1 .. Len(doc)
    BY NumberedType
<1>2. ExtractText(doc) = Join(ps)
    BY DEF ExtractText
<1> HIDE DEF ps
<1>3. ps # <<>> /\ ps[1].page = 1
    BY <1>1, EmptySeq
<1>4. PageAt(ps, i) = i
    <2>1. Places(ps, i) = {i}
        BY <1>1 DEF Places
    <2>2. PageAt(ps, i) # 0
        BY <1>1, <2>1, PageAtIsFirst
    <2>3. PageAt(ps, i) \in Places(ps, i)
        BY <1>1, <2>2, PageAtIsFirst DEF Places
    <2> QED BY <2>1, <2>3
<1>5. TextOf(ps, i) = doc[i]
    BY <1>1, <1>4 DEF TextOf
<1> QED BY <1>1, <1>2, <1>3, <1>5, TextOfJoin DEF ps

-----------------------------------------------------------------------------
(* The specification. *)

\* Pages with no space around their texts are what parsing leaves of them.
LEMMA TrimmedPagesKept ==
    ASSUME NEW ps \in Readable
    PROVE  TrimmedPages(ps) = ps
<1> DEFINE n == Len(ps)
<1>1. ps \in Seq(TokenPage) /\ \A i \in 1 .. n : ps[i] \in TokenPage /\ Trimmed(ps[i].text)
    <2>1. ps \in Seq(TokenPage) /\ \A i \in 1 .. n : Trimmed(ps[i].text)
        BY ReadableType
    <2> QED BY <2>1
<1>2. ASSUME NEW i \in 1 .. n PROVE Page(ps[i].page, Trim(ps[i].text)) = ps[i]
    <2> DEFINE p == ps[i]
    <2>1. p \in TokenPage /\ Trimmed(p.text)
        BY <1>1
    <2> HIDE DEF p
    <2>2. p.text \in Seq(Token) /\ p = [page |-> p.page, text |-> p.text]
        BY <2>1 DEF TokenPage
    <2>3. Trim(p.text) = p.text
        BY <2>1, <2>2, TrimOfTrimmed
    <2> QED BY <2>2, <2>3 DEF Page, p
<1>3. ps = [i \in 1 .. n |-> ps[i]]
    BY <1>1
<1> QED BY <1>2, <1>3 DEF TrimmedPages

\* A page edit about to be written is one of the pages its request read.
Edits(q) ==
    /\ PageAt(ParsePages(q.seen), q.page) # 0
    /\ q.pages = Edited(ParsePages(q.seen), q.page, q.new)
    /\ q.blob = Join(q.pages)

\* No request that read a done file is under way while it is processed.
TextInv ==
    /\ TypeOK
    /\ \A r \in Request :
          /\ At(r, "write") /\ req[r].page # 0 => Edits(req[r])
          /\ req[r].at \in {"write", "put", "remove"} => status # "processing"

\* Pages of which one was edited join to a text.
LEMMA EditType ==
    ASSUME NEW t \in Seq(Token), NEW k, NEW w \in Seq(Token), PageAt(ParsePages(t), k) # 0
    PROVE  /\ ParsePages(t) \in Readable
           /\ Edited(ParsePages(t), k, w) \in Seq(TokenPage)
           /\ Join(Edited(ParsePages(t), k, w)) \in Seq(Token)
<1> DEFINE ps == ParsePages(t)
           es == Edited(ps, k, w)
<1>1. ps \in Readable
    BY ParseType, NoPageAt
<1> HIDE DEF ps
<1>2. PageAt(ps, k) # 0
    BY DEF ps
<1>3. es \in Seq(TokenPage)
    BY <1>1, <1>2, TextsOfEdit
<1> HIDE DEF es
<1>4. Page(1, <<>>) \in TokenPage
    <2>1. <<>> \in Seq(Token) /\ 1 \in Int
        OBVIOUS
    <2> QED BY <2>1, PageType
<1>5. Join(es) \in Seq(Token)
    BY <1>3, <1>4, JoinOfPages
<1> QED BY <1>1, <1>3, <1>5 DEF es, ps

\* What is known of the row and the store.
RowOK ==
    /\ document \in Document
    /\ status \in {"processing", "done", "deleted"}
    /\ text \in Seq(Token) /\ original \in BOOLEAN /\ export \in Seq(Token) \cup {Blank}
    /\ status = "processing" => text = <<>> /\ ~original

\* What a request knows: its own state, wherever it is.
RequestState ==
    [at : {"idle", "write", "put", "remove", "delete", "ended"},
     page : PageNo \cup {0}, new : Seq(Token), seen : Seq(Token),
     pages : Seq(TokenPage), blob : Seq(Token)]

RequestOK(q) == q \in RequestState /\ (q.at = "write" /\ q.page # 0 => Edits(q))
Late(q) == q.at \in {"write", "put", "remove"}

\* The invariant, request by request.
LEMMA TextInvParts ==
    TextInv <=> /\ RowOK
                /\ DOMAIN req = Request /\ req = [r \in Request |-> req[r]]
                /\ \A r \in Request : RequestOK(req[r])
                /\ \A r \in Request : Late(req[r]) => status # "processing"
<1>1. req \in [Request -> RequestState] <=>
        /\ DOMAIN req = Request /\ req = [r \in Request |-> req[r]]
        /\ \A r \in Request : req[r] \in RequestState
    OBVIOUS
<1>2. TypeOK <=> RowOK /\ req \in [Request -> RequestState]
    BY DEF TypeOK, RowOK, RequestState, TokenPage
<1> QED BY <1>1, <1>2 DEF TextInv, RequestOK, Late, At

\* Nothing is known of an idle request.
LEMMA IdleOK == RequestOK(Idle)
<1>1. <<>> \in Seq(Token) /\ <<>> \in Seq(TokenPage)
    OBVIOUS
<1> QED BY <1>1 DEF RequestOK, RequestState, Idle

\* What is known of a request that edits no page.
LEMMA FreshOK ==
    ASSUME NEW a \in {"write", "put", "remove", "delete"}, NEW w \in Seq(Token),
           NEW t \in Seq(Token), NEW b \in Seq(Token)
    PROVE  RequestOK([at |-> a, page |-> 0, new |-> w, seen |-> t, pages |-> <<>>, blob |-> b])
<1>1. <<>> \in Seq(TokenPage)
    OBVIOUS
<1> QED BY <1>1 DEF RequestOK, RequestState

\* Nor of one that ended.
LEMMA EndedOK ==
    ASSUME NEW q \in RequestState
    PROVE  RequestOK([q EXCEPT !.at = "ended"]) /\ ~Late([q EXCEPT !.at = "ended"])
BY DEF RequestOK, RequestState, Late

\* The invariant holds at first.
LEMMA TextInit == Init => TextInv
<1> SUFFICES ASSUME Init PROVE TextInv
    OBVIOUS
<1>1. /\ DOMAIN req = Request /\ req = [r \in Request |-> req[r]]
      /\ \A r \in Request : req[r] = Idle
    BY DEF Init
<1>2. RowOK
    <2>1. <<>> \in Seq(Token)
        OBVIOUS
    <2> QED BY <2>1 DEF Init, RowOK
<1>3. ~Late(Idle)
    BY DEF Late, Idle
<1> QED BY <1>1, <1>2, <1>3, IdleOK, TextInvParts

\* A step of one request to a state that is as it should be.
LEMMA RequestStep ==
    ASSUME TextInv, NEW r \in Request, NEW q, RequestOK(q), Goes(r, q), RowOK',
           status # "processing" => status' # "processing",
           Late(q) => status # "processing"
    PROVE  TextInv'
<1>1. /\ DOMAIN req' = Request /\ req' = [s \in Request |-> req'[s]]
      /\ \A s \in Request : req'[s] = IF s = r THEN q ELSE req[s]
    BY TextInvParts DEF Goes
<1>2. \A s \in Request : RequestOK(req[s]) /\ (Late(req[s]) => status # "processing")
    BY TextInvParts
<1>3. \A s \in Request : RequestOK(req'[s]) /\ (Late(req'[s]) => status' # "processing")
    BY <1>1, <1>2
<1>4. \A s \in Request : req'[s] \in RequestState
    BY <1>3 DEF RequestOK
<1>5. req' \in [Request -> RequestState]
    BY <1>1, <1>4
<1>6. TypeOK'
    BY <1>5 DEF TypeOK, RowOK, RequestState, TokenPage
<1>7. ASSUME NEW s \in Request, req'[s].at = "write", req'[s].page # 0
      PROVE  Edits(req'[s])
    BY <1>3, <1>7 DEF RequestOK
<1>8. ASSUME NEW s \in Request, req'[s].at \in {"write", "put", "remove"}
      PROVE  status' # "processing"
    BY <1>3, <1>8 DEF Late
<1>9. \A s \in Request : Edits(req[s])' <=> Edits(req'[s])
    BY DEF Edits
<1> QED BY <1>6, <1>7, <1>8, <1>9 DEF TextInv, At

\* The invariant is inductive.
LEMMA NextInv == TextInv /\ [Next]_vars => TextInv'
<1> SUFFICES ASSUME TextInv, [Next]_vars PROVE TextInv'
    OBVIOUS
<1>0. /\ RowOK /\ text \in Seq(Token)
      /\ \A r \in Request : /\ RequestOK(req[r]) /\ req[r] \in RequestState
                            /\ Late(req[r]) => status # "processing"
    BY TextInvParts DEF RequestOK, RowOK
<1>e. <<>> \in Seq(Token)
    OBVIOUS
<1>1. CASE Complete
    <2>1. document \in Seq(Seq(Token))
        BY <1>0, FileTextAssumption DEF RowOK
    <2>2. ExtractText(document) \in Seq(Token)
        BY <2>1, NumberedType
    <2>3. RowOK' /\ status' # "processing"
        BY <1>0, <1>1, <2>2 DEF Complete, RowOK
    <2>4. req' = req
        BY <1>1 DEF Complete
    <2>5. TypeOK'
        BY <2>3, <2>4 DEF TextInv, TypeOK, RowOK
    <2>6. \A r \in Request : At(r, "write")' /\ req'[r].page # 0 => Edits(req[r])'
        BY <2>4 DEF TextInv, At, Edits
    <2> QED BY <2>3, <2>5, <2>6 DEF TextInv
<1>2. ASSUME NEW r \in Request, NEW k \in PageNo, NEW new \in NewText, ReadPageEdit(r, k, new)
      PROVE  TextInv'
    <2> DEFINE ps == ParsePages(text)
               es == Edited(ps, k, new)
               q == [at |-> "write", page |-> k, new |-> new, seen |-> text,
                     pages |-> es, blob |-> Join(es)]
    <2>1. status = "done" /\ status' = status /\ RowOK'
        BY <1>0, <1>2 DEF ReadPageEdit, Reads, RowOK
    <2>2. CASE PageAt(ps, k) = 0
        <3>1. Goes(r, [req[r] EXCEPT !.at = "ended"])
            BY <1>2, <2>2 DEF ReadPageEdit, Ends
        <3>2. RequestOK([req[r] EXCEPT !.at = "ended"]) /\ ~Late([req[r] EXCEPT !.at = "ended"])
            BY <1>0, EndedOK
        <3> QED BY <2>1, <3>1, <3>2, RequestStep
    <2>3. CASE PageAt(ps, k) # 0
        <3>1. Goes(r, q)
            BY <1>2, <2>3 DEF ReadPageEdit, PageEdit, Edited
        <3>2. new \in Seq(Token)
            BY FileTextAssumption
        <3>3. es \in Seq(TokenPage) /\ Join(es) \in Seq(Token)
            BY <1>0, <2>3, <3>2, EditType
        <3>4. Edits(q)
            BY <2>3 DEF Edits
        <3> HIDE DEF es
        <3>5. q \in RequestState
            BY <1>0, <3>2, <3>3 DEF RequestState
        <3>6. RequestOK(q)
            BY <3>4, <3>5 DEF RequestOK
        <3> HIDE DEF q
        <3> QED BY <2>1, <3>1, <3>6, RequestStep
    <2> QED BY <2>2, <2>3
<1>3. ASSUME NEW r \in Request, NEW new \in NewText, ReadTextEdit(r, new)
      PROVE  TextInv'
    <2> DEFINE q == [at |-> "write", page |-> 0, new |-> new, seen |-> text,
                     pages |-> <<>>, blob |-> new]
    <2>1. Goes(r, q)
        BY <1>3 DEF ReadTextEdit, Whole
    <2>2. status = "done" /\ status' = status /\ RowOK'
        BY <1>0, <1>3 DEF ReadTextEdit, Reads, RowOK
    <2>3. new \in Seq(Token)
        BY FileTextAssumption
    <2>4. RequestOK(q)
        BY <1>0, <2>3, FreshOK
    <2> HIDE DEF q
    <2> QED BY <2>1, <2>2, <2>4, RequestStep
<1>4. ASSUME NEW r \in Request, Write(r) \/ PutExport(r) \/ DeleteRow(r)
      PROVE  TextInv'
    <2>1. Goes(r, [req[r] EXCEPT !.at = "ended"])
        BY <1>4 DEF Write, PutExport, DeleteRow, Ends
    <2>2. RequestOK([req[r] EXCEPT !.at = "ended"]) /\ ~Late([req[r] EXCEPT !.at = "ended"])
        BY <1>0, EndedOK
    <2>3. req[r].blob \in Seq(Token)
        BY <1>0 DEF RequestState
    <2>4. req[r].at = "write" => status # "processing"
        BY <1>0 DEF Late
    <2>5. RowOK' /\ (status # "processing" => status' # "processing")
        <3>1. CASE Write(r)
            BY <1>0, <2>3, <2>4, <3>1 DEF Write, RowOK, At
        <3>2. CASE PutExport(r)
            BY <1>0, <2>3, <3>2 DEF PutExport, RowOK
        <3>3. CASE DeleteRow(r)
            BY <1>0, <3>3 DEF DeleteRow, RowOK
        <3> QED BY <1>4, <3>1, <3>2, <3>3
    <2> QED BY <2>1, <2>2, <2>5, RequestStep
<1>5. ASSUME NEW r \in Request, ReadExport(r)
      PROVE  TextInv'
    <2> DEFINE q == [at |-> "put", page |-> 0, new |-> <<>>, seen |-> text,
                     pages |-> <<>>, blob |-> text]
    <2>1. Goes(r, q)
        BY <1>5 DEF ReadExport, Whole
    <2>2. status = "done" /\ status' = status /\ RowOK'
        BY <1>0, <1>5 DEF ReadExport, Reads, RowOK
    <2>3. RequestOK(q)
        BY <1>0, <1>e, FreshOK
    <2> HIDE DEF q
    <2> QED BY <2>1, <2>2, <2>3, RequestStep
<1>6. ASSUME NEW r \in Request, ReadDelete(r)
      PROVE  TextInv'
    <2> DEFINE a == IF status = "done" THEN "remove" ELSE "delete"
               q == [at |-> a, page |-> 0, new |-> <<>>, seen |-> <<>>,
                     pages |-> <<>>, blob |-> <<>>]
    <2>1. Goes(r, q)
        BY <1>6 DEF ReadDelete, Idle
    <2>2. status' = status /\ RowOK'
        BY <1>0, <1>6 DEF ReadDelete, RowOK
    <2>3. RequestOK(q)
        BY <1>0, <1>e, FreshOK
    <2>4. Late(q) => status # "processing"
        BY DEF Late
    <2> HIDE DEF q
    <2> QED BY <2>1, <2>2, <2>3, <2>4, RequestStep
<1>7. ASSUME NEW r \in Request, RemoveOriginal(r)
      PROVE  TextInv'
    <2> DEFINE q == [at |-> "delete", page |-> 0, new |-> <<>>, seen |-> <<>>,
                     pages |-> <<>>, blob |-> <<>>]
    <2>1. Goes(r, q)
        BY <1>7 DEF RemoveOriginal, Idle
    <2>2. status' = status /\ RowOK'
        <3>1. CASE original' = original
            BY <1>0, <1>7, <3>1 DEF RemoveOriginal, RowOK
        <3>2. CASE original' = FALSE
            BY <1>0, <1>7, <3>2 DEF RemoveOriginal, RowOK
        <3> QED BY <1>7, <3>1, <3>2 DEF RemoveOriginal
    <2>3. RequestOK(q) /\ ~Late(q)
        BY <1>0, <1>e, FreshOK DEF Late
    <2> HIDE DEF q
    <2> QED BY <2>1, <2>2, <2>3, RequestStep
<1>8. CASE UNCHANGED vars
    BY <1>8 DEF vars, TextInv, TypeOK, At, Edits
<1> QED BY <1>1, <1>2, <1>3, <1>4, <1>5, <1>6, <1>7, <1>8 DEF Next

\* At any time, a page edit about to be written is one of the pages its request
\* read, whatever the others did since (file.go:152-186).
THEOREM TextAlwaysParses == Spec => []TextInv
<1> QED BY TextInit, NextInv, PTL DEF Spec

\* The texts stored, sent, read and about to be written are made of tokens, the
\* requests of their parts (services/file.go:152-244, handlers/files.go:148-238).
THEOREM TypeOKHolds == Spec => []TypeOK
<1>1. TextInv => TypeOK
    BY DEF TextInv
<1> QED BY <1>1, TextAlwaysParses, PTL

\* Whatever separators, and broken ones, users typed into a text, parsing it and
\* joining its pages loses no page and no number, unless a page but the first
\* begins with "[PAGE " (pdf.go:422-457, file.go:178-185).
THEOREM PagesSurviveJoining == Spec => []JoinKeepsPages
<1>1. TextInv => JoinKeepsPages
    <2> SUFFICES ASSUME TextInv, Unspelt(Pages), Join(Pages) # <<>>
                 PROVE  ParsePages(Join(Pages)) = Pages
        BY DEF JoinKeepsPages
    <2>1. text \in Seq(Token)
        BY DEF TextInv, TypeOK
    <2>2. Pages \in Readable \cup {<<>>}
        BY <2>1, ParseType DEF Pages
    <2> HIDE DEF Pages
    <2>3. Pages \in Readable
        BY <2>2, JoinOfPages
    <2>4. Pages \in Seq(TokenPage) /\ Pages # <<>> /\ Pages[1].page = 1
        BY <2>3, ReadableType
    <2>5. ParsePages(Join(Pages)) = TrimmedPages(Pages)
        BY <2>4, ParseOfJoin
    <2> QED BY <2>3, <2>5, TrimmedPagesKept
<1> QED BY <1>1, TextAlwaysParses, PTL

\* Page i of the extracted document is what the reader of page i gets when the
\* file becomes done, for every document no page of which spells a separator,
\* blank pages included (pdf.go:422-457).
THEOREM ExtractionIsShown == Spec => DocumentIsShown
<1> DEFINE A == status = "processing" /\ status' = "done" /\ Unspelt(Numbered(document)) =>
                   \A i \in DOMAIN document : Shown(text', i) = Trim(document[i])
<1>1. ASSUME TextInv, Next, status = "processing", status' = "done",
             Unspelt(Numbered(document)), NEW i \in DOMAIN document
      PROVE  Shown(text', i) = Trim(document[i])
    <2>1. text' = ExtractText(document)
        BY <1>1 DEF Next, Complete, ReadPageEdit, ReadTextEdit, Write, ReadExport, PutExport,
                    ReadDelete, RemoveOriginal, DeleteRow
    <2>2. document \in Seq(Seq(Token))
        BY <1>1, FileTextAssumption DEF TextInv, TypeOK
    <2> QED BY <1>1, <2>1, <2>2, TextOfDocument DEF Shown
<1>2. TextInv /\ [Next]_vars => [A]_vars
    BY <1>1
<1> QED BY <1>2, TextAlwaysParses, PTL DEF Spec, DocumentIsShown

\* The step in which request r writes its page edit.
LEMMA EditWrites ==
    ASSUME TextInv, [Next]_vars, NEW r \in Request, EditsPage(r)
    PROVE  /\ text' = req[r].blob /\ Edits(req[r])
           /\ req[r].seen \in Seq(Token) /\ req[r].new \in Seq(Token)
<1>1. req[r].at = "write" /\ req'[r].at = "ended" /\ status = "done" /\ req[r].page # 0
    BY DEF EditsPage, At
<1>2. Write(r)
    <2>1. \A s \in Request : \A q : Goes(s, q) /\ s # r => req'[r] = req[r]
        BY TextInvParts DEF Goes
    <2>2. ~Complete /\ ~UNCHANGED vars
        BY <1>1 DEF Complete, vars
    <2>3. PICK s \in Request :
              \/ \E k \in PageNo, new \in NewText : ReadPageEdit(s, k, new)
              \/ \E new \in NewText : ReadTextEdit(s, new)
              \/ Write(s) \/ ReadExport(s) \/ PutExport(s)
              \/ ReadDelete(s) \/ RemoveOriginal(s) \/ DeleteRow(s)
        BY <2>2 DEF Next
    <2>4. s = r
        BY <1>1, <2>1, <2>3 DEF ReadPageEdit, ReadTextEdit, Write, ReadExport, PutExport,
                                ReadDelete, RemoveOriginal, DeleteRow, Ends
    <2> QED BY <1>1, <2>3, <2>4 DEF ReadPageEdit, ReadTextEdit, ReadExport, PutExport,
                                    ReadDelete, RemoveOriginal, DeleteRow, Reads, At
<1>3. Edits(req[r])
    BY <1>1 DEF TextInv, At
<1>4. req[r] \in RequestState
    BY TextInvParts DEF RequestOK
<1> QED BY <1>1, <1>2, <1>3, <1>4 DEF Write, RequestState

\* What readers are shown after a page edit was written whose pages spell no
\* separator.
LEMMA EditShows ==
    ASSUME NEW t \in Seq(Token), NEW k, NEW w \in Seq(Token), PageAt(ParsePages(t), k) # 0,
           NEW es, es = Edited(ParsePages(t), k, w), Unspelt(es)
    PROVE  /\ Shown(Join(es), k) = Trim(w)
           /\ \A m : m # k => Shown(Join(es), m) = Shown(t, m)
<1> DEFINE ps == ParsePages(t)
<1>1. ps \in Readable
    BY EditType
<1>2. \A m : Trim(TextOf(ps, m)) = TextOf(ps, m)
    BY TextIsTrimmed
<1>3. es = Edited(ps, k, w) /\ PageAt(ps, k) # 0
    OBVIOUS
<1> HIDE DEF ps
<1>4. /\ es \in Seq(TokenPage) /\ es # <<>> /\ es[1].page = 1 /\ TextOf(es, k) = w
      /\ \A m : m # k => TextOf(es, m) = TextOf(ps, m)
    BY <1>1, <1>3, TextsOfEdit
<1>5. \A m : TextOf(ParsePages(Join(es)), m) = Trim(TextOf(es, m))
    BY <1>4, TextOfJoin
<1> QED BY <1>2, <1>4, <1>5 DEF Shown, ps

\* What readers of its page are shown is the edit, whatever was written since
\* its request read the row, unless it or a page that is written back with it
\* spells a separator (file.go:152-186).
THEOREM EditsAreStored == Spec => EditIsStored
<1> DEFINE A == \A r \in Request : EditsPage(r) /\ Unspelt(req[r].pages) =>
                   Shown(text', req[r].page) = Trim(req[r].new)
<1>1. ASSUME TextInv, [Next]_vars, NEW r \in Request, EditsPage(r), Unspelt(req[r].pages)
      PROVE  Shown(text', req[r].page) = Trim(req[r].new)
    <2>1. /\ text' = req[r].blob /\ Edits(req[r])
          /\ req[r].seen \in Seq(Token) /\ req[r].new \in Seq(Token)
        BY <1>1, EditWrites
    <2> QED BY <1>1, <2>1, EditShows DEF Edits
<1>2. TextInv /\ [Next]_vars => [A]_vars
    BY <1>1
<1> QED BY <1>2, TextAlwaysParses, PTL DEF Spec, EditIsStored

\* If nothing was written since its request read the row, it leaves what
\* readers of the other pages are shown alone, unless it or a page that is
\* written back with it spells a separator (file.go:152-186).
THEOREM LoneEditsTouchOnePage == Spec => LoneEditTouchesOnePage
<1> DEFINE A == \A r \in Request :
                   EditsPage(r) /\ Unspelt(req[r].pages) /\ req[r].seen = text => OthersKept(r)
<1>1. ASSUME TextInv, [Next]_vars, NEW r \in Request, EditsPage(r), Unspelt(req[r].pages),
             req[r].seen = text
      PROVE  OthersKept(r)
    <2>1. /\ text' = req[r].blob /\ Edits(req[r])
          /\ req[r].seen \in Seq(Token) /\ req[r].new \in Seq(Token)
        BY <1>1, EditWrites
    <2>2. \A m : m # req[r].page => Shown(text', m) = Shown(text, m)
        BY <1>1, <2>1, EditShows DEF Edits
    <2> QED BY <2>2 DEF OthersKept
<1>2. TextInv /\ [Next]_vars => [A]_vars
    BY <1>1
<1> QED BY <1>2, TextAlwaysParses, PTL DEF Spec, LoneEditTouchesOnePage

\* Requests that have read the row of a file which is then deleted do not bring
\* it back, and none that is still to read it begins (file.go:113-126, 153-186).
THEOREM DeletedStays == Spec => DeletedStaysDeleted
<1>1. ASSUME [Next]_vars, status = "deleted"
      PROVE  status' = "deleted" /\ text' = text
    <2>1. CASE \E r \in Request : Write(r)
        BY <1>1, <2>1 DEF Write
    <2>2. CASE \E r \in Request : PutExport(r) \/ RemoveOriginal(r) \/ DeleteRow(r)
        BY <1>1, <2>2 DEF PutExport, RemoveOriginal, DeleteRow
    <2>3. CASE UNCHANGED vars
        BY <1>1, <2>3 DEF vars
    <2>4. ~Complete
        BY <1>1 DEF Complete
    <2>5. /\ \A r \in Request, k \in PageNo, new \in NewText : ~ReadPageEdit(r, k, new)
          /\ \A r \in Request, new \in NewText : ~ReadTextEdit(r, new)
          /\ \A r \in Request : ~ReadExport(r) /\ ~ReadDelete(r)
        BY <1>1 DEF ReadPageEdit, ReadTextEdit, ReadExport, ReadDelete, Reads
    <2> QED BY <1>1, <2>1, <2>2, <2>3, <2>4, <2>5 DEF Next
<1>2. [Next]_vars => [status = "deleted" => status' = "deleted" /\ text' = text]_vars
    BY <1>1
<1> QED BY <1>2, PTL DEF Spec, DeletedStaysDeleted
=============================================================================
