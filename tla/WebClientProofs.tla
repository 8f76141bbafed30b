--------------------------- MODULE WebClientProofs --------------------------
(***************************************************************************)
(* Proofs about the pages of the web client: for any scenes of queries,    *)
(* mutations, jobs and changes elsewhere that are orderly                  *)
(* (PagesAreOrderly), and any number of changes, what a page is left with  *)
(* is the truth.                                                           *)
(***************************************************************************)
EXTENDS WebClient, SequenceTheorems, WellFoundedInduction, TLAPS

-----------------------------------------------------------------------------
(***************************************************************************)
(* Sequences: what is left of one, in its order.                           *)
(***************************************************************************)

LEMMA LeastOne == ASSUME NEW S \in SUBSET Nat, S # {} PROVE \E n \in S : \A m \in S : n <= m
PROOF
  <1> DEFINE R == {ss \in Nat \X Nat : ss[1] < ss[2]}
  <1>1. IsWellFoundedOn(R, Nat)
    <2>1. R = OpToRel(<, Nat)
      BY DEF OpToRel
    <2> QED
      BY <2>1, NatLessThanWellFounded
  <1> HIDE DEF R
  <1>2. PICK n \in S : \A m \in S : <<m, n>> \notin R
    BY <1>1, WFMin, Zenon
  <1>3. \A m \in S : <<m, n>> \in Nat \X Nat /\ (m < n => <<m, n>> \in R)
    BY DEF R
  <1>4. \A m \in S : m \in Nat /\ n \in Nat /\ ~(m < n)
    BY <1>2, <1>3
  <1>5. \A m \in S : n <= m
    BY <1>4
  <1> QED
    BY <1>5

\* Induction, with the set of the numbers a claim holds of in hand.
LEMMA ByInduction ==
    ASSUME NEW S \in SUBSET Nat, 0 \in S, \A k \in S : k + 1 \in S
    PROVE  S = Nat
PROOF
  <1> SUFFICES ASSUME S # Nat PROVE FALSE
    OBVIOUS
  <1> DEFINE out == Nat \ S
  <1>1. out \in SUBSET Nat /\ out # {}
    OBVIOUS
  <1>2. PICK n \in out : \A m \in out : n <= m
    <2> HIDE DEF out
    <2> QED
      BY <1>1, LeastOne
  <1>3. n \in Nat /\ n # 0 /\ n \notin S
    BY <1>2
  <1>4. n - 1 \in Nat /\ (n - 1) + 1 = n /\ ~(n <= n - 1)
    BY <1>3
  <1>5. n - 1 \in S
    BY <1>2, <1>4
  <1> QED
    BY <1>3, <1>4, <1>5

IsFlat(f, s, n) == f = [i \in 1..n |-> IF i = 1 THEN s[i] ELSE f[i - 1] \o s[i]]

LEMMA FlatAt ==
    ASSUME NEW f, NEW s, NEW n \in Nat, IsFlat(f, s, n)
    PROVE  \A i \in 1..n : f[i] = IF i = 1 THEN s[i] ELSE f[i - 1] \o s[i]
PROOF
  <1> DEFINE g(i) == IF i = 1 THEN s[i] ELSE f[i - 1] \o s[i]
  <1>1. f = [i \in 1..n |-> g(i)]
    BY DEF IsFlat
  <1> HIDE DEF g
  <1>2. \A i \in 1..n : f[i] = g(i)
    BY <1>1
  <1> QED
    BY <1>2 DEF g

LEMMA FlatExists ==
    ASSUME NEW s
    PROVE  \A n \in Nat : \E f : IsFlat(f, s, n)
PROOF
  <1> DEFINE S == {n \in Nat : \E f : IsFlat(f, s, n)}
  <1>1. 0 \in S
    <2>1. \A i \in 1..0 : FALSE
      OBVIOUS
    <2> DEFINE f == [i \in {} |-> 0]
    <2>2. IsFlat(f, s, 0)
      BY <2>1 DEF IsFlat
    <2> QED
      BY <2>2
  <1>2. ASSUME NEW n \in S PROVE n + 1 \in S
    <2>0. n \in Nat
      BY <1>2
    <2>1. PICK f : IsFlat(f, s, n)
      BY <1>2
    <2> DEFINE step(h, i) == IF i = 1 THEN s[i] ELSE h[i - 1] \o s[i]
               g == [i \in 1..n + 1 |-> IF i <= n THEN f[i] ELSE step(f, i)]
    <2>2. \A i \in 1..n : g[i] = f[i]
      OBVIOUS
    <2>3. g[n + 1] = step(f, n + 1) /\ g = [i \in 1..n + 1 |-> g[i]]
      OBVIOUS
    <2>4. \A i \in 1..n : f[i] = step(f, i)
      BY <2>1, FlatAt
    <2>5. ASSUME NEW i \in 1..n + 1 PROVE g[i] = step(g, i)
      <3>1. CASE i = 1
        <4>1. n >= 1 \/ n = 0
          OBVIOUS
        <4>2. g[1] = s[1]
          <5>1. CASE n = 0
            BY <2>3, <5>1
          <5>2. CASE n >= 1
            <6>1. 1 \in 1..n
              BY <5>2
            <6> QED
              BY <2>2, <2>4, <6>1
          <5> QED
            BY <4>1, <5>1, <5>2
        <4> HIDE DEF g
        <4> QED
          BY <3>1, <4>2
      <3>2. CASE i # 1
        <4>1. i - 1 \in 1..n
          BY <3>2
        <4>2. g[i - 1] = f[i - 1]
          BY <2>2, <4>1
        <4>3. g[i] = f[i - 1] \o s[i]
          <5>1. CASE i \in 1..n
            <6> HIDE DEF g
            <6> QED
              BY <2>2, <2>4, <3>2, <5>1
          <5>2. CASE i = n + 1
            <6> HIDE DEF g
            <6> QED
              BY <2>3, <3>2, <5>2
          <5>3. i \in 1..n \/ i = n + 1
            BY <2>0
          <5> HIDE DEF g
          <5> QED
            BY <5>1, <5>2, <5>3
        <4> HIDE DEF g
        <4> QED
          BY <3>2, <4>2, <4>3
      <3> QED
        BY <3>1, <3>2
    <2> HIDE DEF g
    <2>6. [i \in 1..n + 1 |-> g[i]] = [i \in 1..n + 1 |-> step(g, i)]
      <3> HIDE DEF step
      <3> QED
        BY <2>5
    <2>7. IsFlat(g, s, n + 1)
      BY <2>3, <2>6 DEF IsFlat
    <2> QED
      BY <2>7
  <1>3. S \in SUBSET Nat
    OBVIOUS
  <1> HIDE DEF S
  <1>4. S = Nat
    BY <1>1, <1>2, <1>3, ByInduction
  <1> QED
    BY <1>4 DEF S

LEMMA FlatIs ==
    ASSUME NEW s, Len(s) \in Nat, Len(s) # 0
    PROVE  \E f : IsFlat(f, s, Len(s)) /\ FlattenSeq(s) = f[Len(s)]
PROOF
  <1> DEFINE g == CHOOSE h : IsFlat(h, s, Len(s))
  <1>1. IsFlat(g, s, Len(s))
    BY FlatExists
  <1>2. FlattenSeq(s) = g[Len(s)]
    BY DEF FlattenSeq, IsFlat
  <1> QED
    BY <1>1, <1>2

\* t is what w has at the positions K, in the order of w; g says where from.
IsLeft(g, t, w, K) ==
    /\ g \in [1..Len(t) -> K]
    /\ \A i \in 1..Len(t) : t[i] = w[g[i]]
    /\ \A i, j \in 1..Len(t) : i < j => g[i] < g[j]
    /\ \A k \in K : \E i \in 1..Len(t) : g[i] = k

LEMMA LeftMore ==
    ASSUME NEW S, NEW w \in Seq(S), NEW n \in Nat, n + 1 <= Len(w),
           NEW K \in SUBSET (1..n), NEW t \in Seq(S), NEW g, IsLeft(g, t, w, K)
    PROVE  /\ t \o <<w[n + 1]>> \in Seq(S)
           /\ \E h : IsLeft(h, t \o <<w[n + 1]>>, w, K \cup {n + 1})
PROOF
  <1> DEFINE e == <<w[n + 1]>>
             u == t \o e
             h == [i \in 1..Len(t) + 1 |-> IF i <= Len(t) THEN g[i] ELSE n + 1]
  <1>1. Len(w) \in Nat /\ Len(t) \in Nat /\ n + 1 \in 1..Len(w) /\ w[n + 1] \in S
    BY LenProperties, ElementOfSeq
  <1>0. \A k \in K : k \in 1..n
    OBVIOUS
  <1>2. e \in Seq(S) /\ Len(e) = 1 /\ e[1] = w[n + 1]
    BY <1>1
  <1>3. /\ u \in Seq(S) /\ Len(u) = Len(t) + 1
        /\ \A i \in 1..Len(t) + 1 : u[i] = IF i <= Len(t) THEN t[i] ELSE w[n + 1]
    <2> HIDE DEF e
    <2>1. /\ u \in Seq(S) /\ Len(u) = Len(t) + Len(e)
          /\ \A i \in 1..Len(t) + Len(e) : u[i] = IF i <= Len(t) THEN t[i] ELSE e[i - Len(t)]
      <3> HIDE DEF u
      <3>1. u = t \o e
        BY DEF u
      <3>2. e \in Seq(S)
        BY <1>2
      <3> QED
        BY <3>1, <3>2, ConcatProperties
    <2>2. ASSUME NEW i \in 1..Len(t) + 1, ~(i <= Len(t)) PROVE e[i - Len(t)] = w[n + 1]
      <3>1. i - Len(t) = 1
        BY <1>1, <2>2
      <3> QED
        BY <1>2, <3>1
    <2> HIDE DEF u
    <2> QED
      BY <1>2, <2>1, <2>2
  <1>4. /\ g \in [1..Len(t) -> K]
        /\ \A i \in 1..Len(t) : t[i] = w[g[i]]
        /\ \A i, j \in 1..Len(t) : i < j => g[i] < g[j]
        /\ \A k \in K : \E i \in 1..Len(t) : g[i] = k
    BY DEF IsLeft
  <1>5. \A i \in 1..Len(t) : g[i] \in K /\ g[i] \in Nat /\ g[i] < n + 1
    <2> TAKE i \in 1..Len(t)
    <2>1. g[i] \in K
      BY <1>4
    <2>2. g[i] \in 1..n
      BY <1>0, <2>1
    <2> QED
      BY <2>1, <2>2
  <1> HIDE DEF u, e
  <1>6. \A i \in 1..Len(t) : h[i] = g[i]
    BY <1>1
  <1>7. h[Len(t) + 1] = n + 1 /\ h \in [1..Len(t) + 1 -> K \cup {n + 1}]
    BY <1>1, <1>5
  <1> HIDE DEF h
  <1>8. \A i \in 1..Len(t) + 1 : u[i] = w[h[i]]
    BY <1>1, <1>3, <1>4, <1>6, <1>7
  <1>9. \A i, j \in 1..Len(t) + 1 : i < j => h[i] < h[j]
    <2> TAKE i, j \in 1..Len(t) + 1
    <2> HAVE i < j
    <2>1. i \in 1..Len(t)
      BY <1>1
    <2>2. CASE j \in 1..Len(t)
      BY <1>4, <1>6, <2>1, <2>2
    <2>3. CASE j = Len(t) + 1
      BY <1>5, <1>6, <1>7, <2>1, <2>3
    <2> QED
      BY <1>1, <2>2, <2>3
  <1>10. \A k \in K \cup {n + 1} : \E i \in 1..Len(t) + 1 : h[i] = k
    BY <1>1, <1>4, <1>6, <1>7
  <1>11. IsLeft(h, u, w, K \cup {n + 1})
    BY <1>3, <1>7, <1>8, <1>9, <1>10 DEF IsLeft
  <1> QED
    BY <1>3, <1>11 DEF u, e

Kept(w, K) == FlattenSeq([i \in DOMAIN w |-> IF i \in K THEN <<w[i]>> ELSE <<>>])

LEMMA NothingLeft ==
    ASSUME NEW w PROVE IsLeft([i \in {} |-> 0], <<>>, w, {})
PROOF
  <1>1. Len(<<>>) = 0 /\ 1..0 = {}
    OBVIOUS
  <1> QED
    BY <1>1 DEF IsLeft

LEMMA KeptIs ==
    ASSUME NEW S, NEW w \in Seq(S), NEW K \in SUBSET (1..Len(w))
    PROVE  Kept(w, K) \in Seq(S) /\ \E g : IsLeft(g, Kept(w, K), w, K)
PROOF
  <1> DEFINE at(i) == IF i \in K THEN <<w[i]>> ELSE <<>>
             s == [i \in 1..Len(w) |-> at(i)]
  <1>1. Len(w) \in Nat /\ DOMAIN w = 1..Len(w) /\ \A i \in 1..Len(w) : w[i] \in S
    BY LenProperties, ElementOfSeq
  <1>0. \A k \in K : k \in Nat /\ 1 <= k /\ k <= Len(w)
    BY <1>1
  <1>2. Kept(w, K) = FlattenSeq(s)
    BY <1>1 DEF Kept
  <1>3. \A i \in 1..Len(w) : at(i) \in Seq(S)
    BY <1>1
  <1>4. s \in Seq(Seq(S)) /\ Len(s) = Len(w) /\ \A i \in 1..Len(w) : s[i] = at(i)
    <2> HIDE DEF at
    <2>1. s \in Seq(Seq(S))
      BY <1>1, <1>3, IsASeq
    <2>2. DOMAIN s = 1..Len(s) /\ Len(s) \in Nat /\ DOMAIN s = 1..Len(w)
      BY <2>1, LenProperties
    <2>3. Len(s) = Len(w)
      BY <1>1, <2>2
    <2> QED
      BY <2>1, <2>3
  <1>5. CASE Len(w) = 0
    <2>1. K = {} /\ s = <<>>
      BY <1>4, <1>5, EmptySeq
    <2>2. FlattenSeq(s) = <<>>
      BY <2>1 DEF FlattenSeq
    <2>3. <<>> \in Seq(S)
      OBVIOUS
    <2> HIDE DEF s
    <2>4. Kept(w, K) = <<>>
      BY <1>2, <2>2
    <2>5. \E g : IsLeft(g, <<>>, w, {})
      BY NothingLeft
    <2> QED
      BY <2>1, <2>3, <2>4, <2>5
  <1>6. CASE Len(w) # 0
    <2> HIDE DEF s
    <2>1. PICK f : IsFlat(f, s, Len(s)) /\ FlattenSeq(s) = f[Len(s)]
      BY <1>1, <1>4, <1>6, FlatIs
    <2>2. \A i \in 1..Len(w) : f[i] = IF i = 1 THEN s[i] ELSE f[i - 1] \o s[i]
      BY <1>1, <1>4, <2>1, FlatAt
    <2> DEFINE upto(n) == {k \in K : k <= n}
               good(n) == f[n] \in Seq(S) /\ \E g : IsLeft(g, f[n], w, upto(n))
               step(n) == \A t \in Seq(S) : (\E g : IsLeft(g, t, w, upto(n))) =>
                            /\ t \o s[n + 1] \in Seq(S)
                            /\ \E g : IsLeft(g, t \o s[n + 1], w, upto(n + 1))
    <2>3. ASSUME NEW n \in Nat, n + 1 <= Len(w) PROVE step(n)
      <3> SUFFICES ASSUME NEW t \in Seq(S), NEW g, IsLeft(g, t, w, upto(n))
                   PROVE  /\ t \o s[n + 1] \in Seq(S)
                          /\ \E h : IsLeft(h, t \o s[n + 1], w, upto(n + 1))
        OBVIOUS
      <3>0. n + 1 \in 1..Len(w) /\ upto(n) \in SUBSET (1..n)
        <4>1. \A k \in upto(n) : k \in 1..n
          BY <1>0, <2>3
        <4>2. n + 1 \in 1..Len(w)
          BY <1>1, <2>3
        <4> HIDE DEF upto
        <4> QED
          BY <4>1, <4>2
      <3>1. CASE n + 1 \in K
        <4>1. s[n + 1] = <<w[n + 1]>>
          BY <1>4, <3>0, <3>1
        <4>2. upto(n + 1) = upto(n) \cup {n + 1}
          <5>1. \A k \in K : k <= n + 1 <=> k <= n \/ k = n + 1
            BY <1>0, <2>3
          <5> QED
            BY <3>1, <5>1
        <4>3. /\ t \o <<w[n + 1]>> \in Seq(S)
              /\ \E h : IsLeft(h, t \o <<w[n + 1]>>, w, upto(n) \cup {n + 1})
          <5> HIDE DEF upto
          <5> QED
            BY <2>3, <3>0, LeftMore
        <4> HIDE DEF upto
        <4> QED
          BY <4>1, <4>2, <4>3
      <3>2. CASE n + 1 \notin K
        <4>1. s[n + 1] = <<>>
          BY <1>4, <3>0, <3>2
        <4>2. upto(n + 1) = upto(n)
          <5>1. \A k \in K : k <= n + 1 <=> k <= n
            BY <1>0, <3>2, <2>3
          <5> QED
            BY <5>1
        <4>3. t \o <<>> = t
          BY ConcatEmptySeq
        <4> HIDE DEF upto
        <4> QED
          BY <4>1, <4>2, <4>3
      <3> QED
        BY <3>1, <3>2
    <2> DEFINE N == {n \in Nat : n + 1 <= Len(w) => good(n + 1)}
    <2>4. 0 \in N
      <3>1. 1 \in 1..Len(w) /\ 0 + 1 <= Len(w) /\ 0 + 1 = 1 /\ 0 \in Nat
        BY <1>1, <1>6
      <3>2. upto(0) = {}
        <4>1. \A k \in K : ~(k <= 0)
          BY <1>0
        <4> QED
          BY <4>1
      <3>3. \E g : IsLeft(g, <<>>, w, upto(0))
        <4> HIDE DEF upto
        <4> QED
          BY <3>2, NothingLeft
      <3>4. step(0)
        <4> HIDE DEF step
        <4> QED
          BY <2>3, <3>1
      <3>5. <<>> \in Seq(S)
        OBVIOUS
      <3>6. <<>> \o s[0 + 1] \in Seq(S) /\ \E g : IsLeft(g, <<>> \o s[0 + 1], w, upto(0 + 1))
        <4> HIDE DEF upto
        <4> QED
          BY <3>3, <3>4, <3>5
      <3>7. f[1] = s[1] /\ s[1] \in Seq(S)
        BY <1>3, <1>4, <2>2, <3>1
      <3>8. <<>> \o s[1] = s[1]
        BY <3>7, ConcatEmptySeq
      <3>9. good(1)
        <4> HIDE DEF upto
        <4> QED
          BY <3>1, <3>6, <3>7, <3>8
      <3> HIDE DEF good
      <3> QED
        BY <3>1, <3>9
    <2>5. ASSUME NEW n \in N PROVE n + 1 \in N
      <3>0. n \in Nat /\ (n + 1 <= Len(w) => good(n + 1))
        <4> HIDE DEF good
        <4> QED
          BY <2>5
      <3> SUFFICES ASSUME (n + 1) + 1 <= Len(w) PROVE good((n + 1) + 1)
        <4> HIDE DEF good
        <4> QED
          BY <3>0
      <3>1. /\ n + 1 \in Nat /\ (n + 1) + 1 \in 1..Len(w) /\ (n + 1) + 1 # 1 /\ ((n + 1) + 1) - 1 = n + 1
            /\ n + 1 <= Len(w)
        BY <1>1, <3>0
      <3>2. good(n + 1)
        <4> HIDE DEF good
        <4> QED
          BY <3>0, <3>1
      <3>3. step(n + 1)
        <4> HIDE DEF step
        <4> QED
          BY <2>3, <3>1
      <3>4. f[(n + 1) + 1] = f[n + 1] \o s[(n + 1) + 1]
        BY <2>2, <3>1
      <3> HIDE DEF upto, N
      <3> QED
        BY <3>2, <3>3, <3>4
    <2>6. N \in SUBSET Nat
      OBVIOUS
    <2> HIDE DEF N
    <2>7. N = Nat
      BY <2>4, <2>5, <2>6, ByInduction
    <2>8. Len(w) - 1 \in Nat /\ (Len(w) - 1) + 1 = Len(w) /\ Len(w) <= Len(w)
      BY <1>1, <1>6
    <2>9. good(Len(w))
      <3> HIDE DEF good
      <3>1. Len(w) - 1 \in N
        BY <2>7, <2>8
      <3> QED
        BY <2>8, <3>1 DEF N
    <2>10. upto(Len(w)) = K
      BY <1>0
    <2> HIDE DEF upto
    <2> QED
      BY <1>2, <1>4, <2>1, <2>9, <2>10
  <1> QED
    BY <1>5, <1>6

LEMMA RemovedIs ==
    ASSUME NEW S, NEW w \in Seq(S), NEW i \in 1..Len(w)
    PROVE  /\ RemoveAt(w, i) \in Seq(S)
           /\ \E g : IsLeft(g, RemoveAt(w, i), w, 1..Len(w) \ {i})
PROOF
  <1> DEFINE a == SubSeq(w, 1, i - 1)
             b == SubSeq(w, i + 1, Len(w))
             t == a \o b
             g == [k \in 1..Len(w) - 1 |-> IF k < i THEN k ELSE k + 1]
  <1>0. Len(w) \in Nat /\ i \in Nat /\ 1 <= i /\ i <= Len(w)
    BY LenProperties
  <1>1. a \in Seq(S) /\ Len(a) = i - 1 /\ \A k \in 1..i - 1 : a[k] = w[k]
    <2>1. \A k \in 1..i - 1 : k \in 1..Len(w)
      BY <1>0
    <2>2. a = [k \in 1..i - 1 |-> w[k]]
      BY <1>0
    <2> QED
      BY <1>0, <2>1, SubSeqProperties
  <1>2. b \in Seq(S) /\ Len(b) = Len(w) - i /\ \A k \in 1..Len(w) - i : b[k] = w[i + k]
    <2>1. /\ b \in Seq(S) /\ Len(b) = IF i + 1 <= Len(w) THEN Len(w) - (i + 1) + 1 ELSE 0
          /\ \A k \in 1..Len(w) - (i + 1) + 1 : b[k] = w[(i + 1) + k - 1]
      <3>1. i + 1 \in 1..Len(w) + 1 /\ Len(w) \in i..Len(w)
        BY <1>0
      <3> HIDE DEF b
      <3>2. b = SubSeq(w, i + 1, Len(w))
        BY DEF b
      <3>3. \A k \in (i + 1)..Len(w) : k \in 1..Len(w)
        BY <1>0
      <3> QED
        BY <1>0, <3>1, <3>2, <3>3, SubSeqProperties
    <2> HIDE DEF b
    <2> QED
      BY <1>0, <2>1
  <1> HIDE DEF a, b
  <1>3. /\ t \in Seq(S) /\ Len(t) = Len(w) - 1
        /\ \A k \in 1..Len(w) - 1 : t[k] = IF k <= i - 1 THEN a[k] ELSE b[k - (i - 1)]
    <2>1. /\ t \in Seq(S) /\ Len(t) = Len(a) + Len(b)
          /\ \A k \in 1..Len(a) + Len(b) : t[k] = IF k <= Len(a) THEN a[k] ELSE b[k - Len(a)]
      BY <1>1, <1>2, ConcatProperties
    <2> HIDE DEF t
    <2> QED
      BY <1>0, <1>1, <1>2, <2>1
  <1> HIDE DEF t
  <1>4. \A k \in 1..Len(w) - 1 : g[k] = IF k < i THEN k ELSE k + 1
    OBVIOUS
  <1>5. g \in [1..Len(w) - 1 -> 1..Len(w) \ {i}]
    BY <1>0
  <1> HIDE DEF g
  <1>6. ASSUME NEW k \in 1..Len(w) - 1 PROVE t[k] = w[g[k]]
    <2>1. CASE k < i
      BY <1>0, <1>1, <1>3, <1>4, <2>1
    <2>2. CASE ~(k < i)
      <3>1. k - (i - 1) \in 1..Len(w) - i /\ i + (k - (i - 1)) = k + 1 /\ ~(k <= i - 1)
        BY <1>0, <2>2
      <3> QED
        BY <1>2, <1>3, <1>4, <2>2, <3>1
    <2> QED
      BY <2>1, <2>2
  <1>7. \A k, l \in 1..Len(w) - 1 : k < l => g[k] < g[l]
    BY <1>0, <1>4
  <1>8. ASSUME NEW k \in 1..Len(w) \ {i} PROVE \E l \in 1..Len(w) - 1 : g[l] = k
    <2>1. CASE k < i
      BY <1>0, <1>4, <2>1
    <2>2. CASE ~(k < i)
      <3>1. k - 1 \in 1..Len(w) - 1 /\ ~(k - 1 < i) /\ (k - 1) + 1 = k
        BY <1>0, <2>2
      <3> QED
        BY <1>4, <3>1
    <2> QED
      BY <2>1, <2>2
  <1>9. IsLeft(g, t, w, 1..Len(w) \ {i})
    BY <1>3, <1>5, <1>6, <1>7, <1>8 DEF IsLeft
  <1>10. t = RemoveAt(w, i)
    BY DEF RemoveAt, t, a, b
  <1> QED
    BY <1>3, <1>9, <1>10

Through(g, L) == {g[l] : l \in L}

LEMMA LeftOfLeft ==
    ASSUME NEW S, NEW a \in Seq(S), NEW b \in Seq(S), NEW c \in Seq(S), NEW K \in SUBSET (1..Len(a)),
           NEW L \in SUBSET (1..Len(b)), NEW g, NEW h, IsLeft(g, b, a, K), IsLeft(h, c, b, L)
    PROVE  \E e : IsLeft(e, c, a, Through(g, L))
PROOF
  <1> DEFINE M == Through(g, L)
  <1>8. (\A l \in L : g[l] \in M) /\ \A k \in M : \E l \in L : g[l] = k
    BY DEF Through
  <1> HIDE DEF M
  <1> DEFINE e == [i \in 1..Len(c) |-> g[h[i]]]
  <1>0. Len(a) \in Nat /\ Len(b) \in Nat /\ Len(c) \in Nat
    BY LenProperties
  <1>1. /\ g \in [1..Len(b) -> K]
        /\ \A i \in 1..Len(b) : b[i] = a[g[i]]
        /\ \A i, j \in 1..Len(b) : i < j => g[i] < g[j]
    BY DEF IsLeft
  <1>2. /\ h \in [1..Len(c) -> L]
        /\ \A i \in 1..Len(c) : c[i] = b[h[i]]
        /\ \A i, j \in 1..Len(c) : i < j => h[i] < h[j]
        /\ \A k \in L : \E i \in 1..Len(c) : h[i] = k
    BY DEF IsLeft
  <1>3. \A i \in 1..Len(c) : h[i] \in L /\ h[i] \in 1..Len(b) /\ e[i] = g[h[i]]
    BY <1>2
  <1>4. e \in [1..Len(c) -> M]
    BY <1>3, <1>8
  <1> HIDE DEF e
  <1>5. \A i \in 1..Len(c) : c[i] = a[e[i]]
    BY <1>1, <1>2, <1>3
  <1>6. \A i, j \in 1..Len(c) : i < j => e[i] < e[j]
    BY <1>1, <1>2, <1>3
  <1>7. \A k \in M : \E i \in 1..Len(c) : e[i] = k
    <2> TAKE k \in M
    <2>1. PICK l \in L : g[l] = k
      BY <1>8
    <2>2. PICK i \in 1..Len(c) : h[i] = l
      BY <1>2
    <2> QED
      BY <1>3, <2>1, <2>2
  <1>9. IsLeft(e, c, a, M)
    BY <1>4, <1>5, <1>6, <1>7 DEF IsLeft
  <1> QED
    BY <1>9 DEF M

-----------------------------------------------------------------------------
(***************************************************************************)
(* The tables: what is shown, written, invalidated and filled.             *)
(***************************************************************************)

Hits(what) == {v \in Queries : \E p \in HookOf[what].invalidates : IsPrefix(p, Key[v])}

IsJoined(h, f, g) ==
    /\ DOMAIN h = DOMAIN f \cup DOMAIN g
    /\ \A x \in DOMAIN f : h[x] = f[x]
    /\ \A x \in DOMAIN g \ DOMAIN f : h[x] = g[x]

LEMMA JoinedIs == ASSUME NEW f, NEW g PROVE IsJoined(Joined(f, g), f, g)
PROOF
  BY DEF Joined, IsJoined

LEMMA ShowsIs ==
    /\ Queries = {"artifact", "listing", "queue", "report", "config", "pending", "declined",
                  "backlog", "detail", "providers"}
    /\ \A v \in {"artifact", "listing", "queue", "report"} : Shows[v] = {"world"}
    /\ Shows["config"] = {"config"} /\ Shows["pending"] = {"pending"}
    /\ Shows["declined"] = {"declined"}
    /\ Shows["backlog"] = {"triage", "drafts", "verdicts"} /\ Shows["detail"] = {"drafts", "verdicts"}
    /\ Shows["providers"] = {"world", "health"}
PROOF
  <1>1. /\ DOMAIN ProofQueries = {"backlog", "detail"} /\ DOMAIN ProviderQueries = {"providers"}
        /\ DOMAIN ListQueries = {"pending", "declined"} /\ DOMAIN ReportQueries = {"report", "config"}
        /\ DOMAIN ArtifactQueries = {"artifact", "listing", "queue"}
    BY DEF ProofQueries, ProviderQueries, ListQueries, ReportQueries, ArtifactQueries
  <1>2. /\ ProofQueries["backlog"] = {"triage", "drafts", "verdicts"}
        /\ ProofQueries["detail"] = {"drafts", "verdicts"}
        /\ ProviderQueries["providers"] = {"world", "health"}
        /\ ListQueries["pending"] = {"pending"} /\ ListQueries["declined"] = {"declined"}
        /\ ReportQueries["report"] = {"world"} /\ ReportQueries["config"] = {"config"}
        /\ \A v \in {"artifact", "listing", "queue"} : ArtifactQueries[v] = {"world"}
    BY DEF ProofQueries, ProviderQueries, ListQueries, ReportQueries, ArtifactQueries
  <1> DEFINE d == Joined(ProofQueries, ProviderQueries)
             c == Joined(ListQueries, d)
             b == Joined(ReportQueries, c)
  <1>3. IsJoined(d, ProofQueries, ProviderQueries)
    BY JoinedIs
  <1>4. IsJoined(c, ListQueries, d)
    BY JoinedIs
  <1>5. IsJoined(b, ReportQueries, c)
    BY JoinedIs
  <1>6. IsJoined(Shows, ArtifactQueries, b)
    BY JoinedIs DEF Shows
  <1> HIDE DEF b, c, d
  <1>7. /\ DOMAIN d = {"backlog", "detail", "providers"}
        /\ d["backlog"] = {"triage", "drafts", "verdicts"} /\ d["detail"] = {"drafts", "verdicts"}
        /\ d["providers"] = {"world", "health"}
    BY <1>1, <1>2, <1>3 DEF IsJoined
  <1>8. /\ DOMAIN c = {"pending", "declined"} \cup DOMAIN d
        /\ c["pending"] = {"pending"} /\ c["declined"] = {"declined"}
        /\ \A v \in DOMAIN d : c[v] = d[v]
    BY <1>1, <1>2, <1>4, <1>7 DEF IsJoined
  <1>9. /\ DOMAIN b = {"report", "config"} \cup DOMAIN c
        /\ b["report"] = {"world"} /\ b["config"] = {"config"}
        /\ \A v \in DOMAIN c : b[v] = c[v]
    BY <1>1, <1>2, <1>5, <1>7, <1>8 DEF IsJoined
  <1>10. /\ DOMAIN Shows = {"artifact", "listing", "queue"} \cup DOMAIN b
         /\ \A v \in {"artifact", "listing", "queue"} : Shows[v] = {"world"}
         /\ \A v \in DOMAIN b : Shows[v] = b[v]
    BY <1>1, <1>2, <1>6, <1>7, <1>8, <1>9 DEF IsJoined
  <1> QED
    BY <1>7, <1>8, <1>9, <1>10 DEF Queries

LEMMA ShownIs ==
    \A v \in Queries : /\ Shows[v] \subseteq Resources /\ Shows[v] # {}
                       /\ "triage" \in Shows[v] => v = "backlog"
PROOF
  <1>1. \A v \in Queries : Shows[v] \subseteq Resources
    BY DEF Resources
  <1> QED
    BY <1>1, ShowsIs

Imports == TreeMutations \ ArtifactMutations
Edits == {"addProvider", "replaceProvider", "deleteProvider", "patchProvider"}
Mutations == ArtifactMutations \cup Imports \cup {"saveConfig", "clearConfig"}
             \cup Edits \cup {"retest", "acknowledge"}
             \cup {"analyze", "accept", "reject", "reinstate"}
             \cup {"triage", "seed", "verify", "reverify", "draft"}

LEMMA RequestsAre ==
    /\ DOMAIN RequestOf = Mutations
    /\ \A m \in ArtifactMutations \cup Imports \cup Edits : RequestOf[m] = Asks({"world"}, TRUE)
    /\ \A m \in {"saveConfig", "clearConfig"} : RequestOf[m] = Asks({"config"}, FALSE)
    /\ \A m \in {"retest", "acknowledge"} : RequestOf[m] = Asks({"health"}, FALSE)
    /\ RequestOf["analyze"] = Asks({"pending"}, FALSE)
    /\ RequestOf["accept"] = Asks({"pending", "world"}, TRUE)
    /\ RequestOf["reject"] = Asks({"pending", "declined"}, FALSE)
    /\ RequestOf["reinstate"] = Asks({"declined", "world"}, TRUE)
    /\ \A m \in {"triage", "seed"} : RequestOf[m] = Asks({"triage"}, FALSE)
    /\ \A m \in {"verify", "reverify"} : RequestOf[m] = Asks({"verdicts"}, FALSE)
    /\ RequestOf["draft"] = Asks({"drafts"}, FALSE)
    /\ DOMAIN ProviderRequests = Edits \cup {"retest", "acknowledge"}
PROOF
  <1> USE DEF Imports, Edits
  <1>1. /\ DOMAIN ArtifactRequests = ArtifactMutations /\ DOMAIN ImportRequests = Imports
        /\ DOMAIN ReportRequests = {"saveConfig", "clearConfig"}
        /\ DOMAIN SuggestionRequests = {"analyze", "accept", "reject", "reinstate"}
        /\ DOMAIN ProofRequests = {"triage", "seed", "verify", "reverify", "draft"}
    BY DEF ArtifactRequests, ImportRequests, ReportRequests, SuggestionRequests, ProofRequests
  <1>2. /\ \A m \in ArtifactMutations : ArtifactRequests[m] = Asks({"world"}, TRUE)
        /\ \A m \in Imports : ImportRequests[m] = Asks({"world"}, TRUE)
        /\ \A m \in {"saveConfig", "clearConfig"} : ReportRequests[m] = Asks({"config"}, FALSE)
    BY DEF ArtifactRequests, ImportRequests, ReportRequests
  <1>3. /\ SuggestionRequests["analyze"] = Asks({"pending"}, FALSE)
        /\ SuggestionRequests["accept"] = Asks({"pending", "world"}, TRUE)
        /\ SuggestionRequests["reject"] = Asks({"pending", "declined"}, FALSE)
        /\ SuggestionRequests["reinstate"] = Asks({"declined", "world"}, TRUE)
    BY DEF SuggestionRequests
  <1>4. /\ \A m \in {"triage", "seed"} : ProofRequests[m] = Asks({"triage"}, FALSE)
        /\ \A m \in {"verify", "reverify"} : ProofRequests[m] = Asks({"verdicts"}, FALSE)
        /\ ProofRequests["draft"] = Asks({"drafts"}, FALSE)
    BY DEF ProofRequests
  <1> DEFINE p1 == [m \in Edits |-> Asks({"world"}, TRUE)]
             p2 == [m \in {"retest", "acknowledge"} |-> Asks({"health"}, FALSE)]
  <1>5. IsJoined(ProviderRequests, p1, p2)
    BY JoinedIs DEF ProviderRequests
  <1>6. /\ DOMAIN p1 = Edits /\ \A m \in Edits : p1[m] = Asks({"world"}, TRUE)
        /\ DOMAIN p2 = {"retest", "acknowledge"} /\ \A m \in {"retest", "acknowledge"} : p2[m] = Asks({"health"}, FALSE)
    OBVIOUS
  <1> HIDE DEF p1, p2
  <1>7. /\ DOMAIN ProviderRequests = Edits \cup {"retest", "acknowledge"}
        /\ \A m \in Edits : ProviderRequests[m] = Asks({"world"}, TRUE)
        /\ \A m \in {"retest", "acknowledge"} : ProviderRequests[m] = Asks({"health"}, FALSE)
    BY <1>5, <1>6 DEF IsJoined
  <1> DEFINE e == Joined(SuggestionRequests, ProofRequests)
             d == Joined(ProviderRequests, e)
             c == Joined(ReportRequests, d)
             b == Joined(ImportRequests, c)
  <1>8. IsJoined(e, SuggestionRequests, ProofRequests)
    BY JoinedIs
  <1>9. IsJoined(d, ProviderRequests, e)
    BY JoinedIs
  <1>10. IsJoined(c, ReportRequests, d)
    BY JoinedIs
  <1>11. IsJoined(b, ImportRequests, c)
    BY JoinedIs
  <1>12. IsJoined(RequestOf, ArtifactRequests, b)
    BY JoinedIs DEF RequestOf
  <1> HIDE DEF b, c, d, e
  <1>13. /\ DOMAIN e = {"analyze", "accept", "reject", "reinstate", "triage", "seed", "verify", "reverify", "draft"}
         /\ \A m \in {"analyze", "accept", "reject", "reinstate"} : e[m] = SuggestionRequests[m]
         /\ \A m \in {"triage", "seed", "verify", "reverify", "draft"} : e[m] = ProofRequests[m]
    BY <1>1, <1>8 DEF IsJoined
  <1>14. /\ DOMAIN d = DOMAIN ProviderRequests \cup DOMAIN e
         /\ \A m \in DOMAIN ProviderRequests : d[m] = ProviderRequests[m]
         /\ \A m \in DOMAIN e : d[m] = e[m]
    BY <1>7, <1>9, <1>13 DEF IsJoined
  <1>15. /\ DOMAIN c = {"saveConfig", "clearConfig"} \cup DOMAIN d
         /\ \A m \in {"saveConfig", "clearConfig"} : c[m] = ReportRequests[m]
         /\ \A m \in DOMAIN d : c[m] = d[m]
    BY <1>1, <1>7, <1>10, <1>13, <1>14 DEF IsJoined
  <1>16. /\ DOMAIN b = Imports \cup DOMAIN c
         /\ \A m \in Imports : b[m] = ImportRequests[m]
         /\ \A m \in DOMAIN c : b[m] = c[m]
    BY <1>1, <1>7, <1>11, <1>13, <1>14, <1>15 DEF IsJoined, TreeMutations
  <1>17. /\ DOMAIN RequestOf = ArtifactMutations \cup DOMAIN b
         /\ \A m \in ArtifactMutations : RequestOf[m] = ArtifactRequests[m]
         /\ \A m \in DOMAIN b : RequestOf[m] = b[m]
    BY <1>1, <1>7, <1>12, <1>13, <1>14, <1>15, <1>16 DEF IsJoined, ArtifactMutations, TreeMutations
  <1>18. /\ \A m \in ArtifactMutations : RequestOf[m] = ArtifactRequests[m]
         /\ \A m \in Imports : RequestOf[m] = ImportRequests[m]
         /\ \A m \in {"saveConfig", "clearConfig"} : RequestOf[m] = ReportRequests[m]
         /\ \A m \in DOMAIN ProviderRequests : RequestOf[m] = ProviderRequests[m]
         /\ \A m \in {"analyze", "accept", "reject", "reinstate"} : RequestOf[m] = SuggestionRequests[m]
         /\ \A m \in {"triage", "seed", "verify", "reverify", "draft"} : RequestOf[m] = ProofRequests[m]
    BY <1>13, <1>14, <1>15, <1>16, <1>17
  <1>19. DOMAIN RequestOf = Mutations
    BY <1>7, <1>13, <1>14, <1>15, <1>16, <1>17 DEF Mutations
  <1> HIDE DEF Imports, Edits
  <1> QED
    BY <1>2, <1>3, <1>4, <1>7, <1>18, <1>19

LEMMA HooksAre ==
    /\ DOMAIN HookOf = Mutations
    /\ \A m \in ArtifactMutations \cup Imports : HookOf[m] = Settles(Everything, {})
    /\ \A m \in {"saveConfig", "clearConfig"} : HookOf[m] = Settles({Key.config}, {})
    /\ \A m \in DOMAIN ProviderRequests : HookOf[m] = Settles({Key.providers}, {})
    /\ HookOf["analyze"] = Settles({Key.pending}, {})
    /\ HookOf["accept"] = Settles(Everything, {})
    /\ HookOf["reject"] = Settles({Key.pending, Key.declined}, {})
    /\ HookOf["reinstate"] = Settles(Everything, {})
    /\ \A m \in {"triage", "seed"} : HookOf[m] = Settles({}, {"backlog"})
    /\ \A m \in {"verify", "reverify"} : HookOf[m] = Settles({Key.backlog}, {})
    /\ HookOf["draft"] = Settles({Key.backlog}, {"detail"})
PROOF
  <1> USE DEF Imports
  <1>0. DOMAIN ProviderRequests = {"addProvider", "replaceProvider", "deleteProvider", "patchProvider",
                                   "retest", "acknowledge"}
    BY RequestsAre DEF Edits
  <1>1. /\ DOMAIN ArtifactHooks = ArtifactMutations /\ DOMAIN ImportHooks = Imports
        /\ DOMAIN ReportHooks = {"saveConfig", "clearConfig"}
        /\ DOMAIN ProviderHooks = DOMAIN ProviderRequests
        /\ DOMAIN SuggestionHooks = {"analyze", "accept", "reject", "reinstate"}
        /\ DOMAIN TriageHooks = {"triage", "seed"} /\ DOMAIN VerifyHooks = {"verify", "reverify"}
        /\ DOMAIN DraftHooks = {"draft"}
    BY DEF ArtifactHooks, ImportHooks, ReportHooks, ReportRequests, ProviderHooks, SuggestionHooks,
           TriageHooks, VerifyHooks, DraftHooks
  <1>2. /\ \A m \in ArtifactMutations : ArtifactHooks[m] = Settles(Everything, {})
        /\ \A m \in Imports : ImportHooks[m] = Settles(Everything, {})
        /\ \A m \in {"saveConfig", "clearConfig"} : ReportHooks[m] = Settles({Key.config}, {})
        /\ \A m \in DOMAIN ProviderRequests : ProviderHooks[m] = Settles({Key.providers}, {})
    BY DEF ArtifactHooks, ImportHooks, ReportHooks, ReportRequests, ProviderHooks
  <1>3. /\ SuggestionHooks["analyze"] = Settles({Key.pending}, {})
        /\ SuggestionHooks["accept"] = Settles(Everything, {})
        /\ SuggestionHooks["reject"] = Settles({Key.pending, Key.declined}, {})
        /\ SuggestionHooks["reinstate"] = Settles(Everything, {})
    BY DEF SuggestionHooks
  <1>4. /\ \A m \in {"triage", "seed"} : TriageHooks[m] = Settles({}, {"backlog"})
        /\ \A m \in {"verify", "reverify"} : VerifyHooks[m] = Settles({Key.backlog}, {})
        /\ DraftHooks["draft"] = Settles({Key.backlog}, {"detail"})
    BY DEF TriageHooks, VerifyHooks, DraftHooks
  <1> DEFINE g == Joined(VerifyHooks, DraftHooks)
             f == Joined(TriageHooks, g)
             e == Joined(SuggestionHooks, f)
             d == Joined(ProviderHooks, e)
             c == Joined(ReportHooks, d)
             b == Joined(ImportHooks, c)
  <1>5. IsJoined(g, VerifyHooks, DraftHooks)
    BY JoinedIs
  <1>6. IsJoined(f, TriageHooks, g)
    BY JoinedIs
  <1>7. IsJoined(e, SuggestionHooks, f)
    BY JoinedIs
  <1>8. IsJoined(d, ProviderHooks, e)
    BY JoinedIs
  <1>9. IsJoined(c, ReportHooks, d)
    BY JoinedIs
  <1>10. IsJoined(b, ImportHooks, c)
    BY JoinedIs
  <1>11. IsJoined(HookOf, ArtifactHooks, b)
    BY JoinedIs DEF HookOf
  <1> HIDE DEF b, c, d, e, f, g
  <1>12. /\ DOMAIN g = {"verify", "reverify", "draft"}
         /\ \A m \in {"verify", "reverify"} : g[m] = VerifyHooks[m]
         /\ g["draft"] = DraftHooks["draft"]
    BY <1>1, <1>5 DEF IsJoined
  <1>13. /\ DOMAIN f = {"triage", "seed"} \cup DOMAIN g
         /\ \A m \in {"triage", "seed"} : f[m] = TriageHooks[m]
         /\ \A m \in DOMAIN g : f[m] = g[m]
    BY <1>1, <1>6, <1>12 DEF IsJoined
  <1>14. /\ DOMAIN e = {"analyze", "accept", "reject", "reinstate"} \cup DOMAIN f
         /\ \A m \in {"analyze", "accept", "reject", "reinstate"} : e[m] = SuggestionHooks[m]
         /\ \A m \in DOMAIN f : e[m] = f[m]
    BY <1>1, <1>7, <1>12, <1>13 DEF IsJoined
  <1>15. /\ DOMAIN d = DOMAIN ProviderRequests \cup DOMAIN e
         /\ \A m \in DOMAIN ProviderRequests : d[m] = ProviderHooks[m]
         /\ \A m \in DOMAIN e : d[m] = e[m]
    BY <1>0, <1>1, <1>8, <1>12, <1>13, <1>14 DEF IsJoined
  <1>16. /\ DOMAIN c = {"saveConfig", "clearConfig"} \cup DOMAIN d
         /\ \A m \in {"saveConfig", "clearConfig"} : c[m] = ReportHooks[m]
         /\ \A m \in DOMAIN d : c[m] = d[m]
    BY <1>0, <1>1, <1>9, <1>12, <1>13, <1>14, <1>15 DEF IsJoined
  <1>17. /\ DOMAIN b = Imports \cup DOMAIN c
         /\ \A m \in Imports : b[m] = ImportHooks[m]
         /\ \A m \in DOMAIN c : b[m] = c[m]
    BY <1>0, <1>1, <1>10, <1>12, <1>13, <1>14, <1>15, <1>16 DEF IsJoined, TreeMutations
  <1>18. /\ DOMAIN HookOf = ArtifactMutations \cup DOMAIN b
         /\ \A m \in ArtifactMutations : HookOf[m] = ArtifactHooks[m]
         /\ \A m \in DOMAIN b : HookOf[m] = b[m]
    BY <1>0, <1>1, <1>11, <1>12, <1>13, <1>14, <1>15, <1>16, <1>17 DEF IsJoined, ArtifactMutations, TreeMutations
  <1>19. /\ \A m \in ArtifactMutations : HookOf[m] = ArtifactHooks[m]
         /\ \A m \in Imports : HookOf[m] = ImportHooks[m]
         /\ \A m \in {"saveConfig", "clearConfig"} : HookOf[m] = ReportHooks[m]
         /\ \A m \in DOMAIN ProviderRequests : HookOf[m] = ProviderHooks[m]
         /\ \A m \in {"analyze", "accept", "reject", "reinstate"} : HookOf[m] = SuggestionHooks[m]
         /\ \A m \in {"triage", "seed"} : HookOf[m] = TriageHooks[m]
         /\ \A m \in {"verify", "reverify"} : HookOf[m] = VerifyHooks[m]
         /\ HookOf["draft"] = DraftHooks["draft"]
    BY <1>12, <1>13, <1>14, <1>15, <1>16, <1>17, <1>18
  <1>20. DOMAIN HookOf = Mutations
    BY <1>0, <1>12, <1>13, <1>14, <1>15, <1>16, <1>17, <1>18 DEF Mutations, Edits
  <1> HIDE DEF Imports
  <1> QED
    BY <1>2, <1>3, <1>4, <1>19, <1>20

Segments == {"requirements", "id", "artifacts", "uuid", "projects", "slug", "collections", "prefix", "reviews",
             "queue", "reports", "kind", "system", "config", "suggestions", "links", "pending", "declined",
             "llm", "providers"}

LEMMA PrefixIs ==
    /\ \A v \in Queries : IsPrefix(<<>>, Key[v])
    /\ IsPrefix(Key.config, Key["config"]) /\ IsPrefix(Key.providers, Key["providers"])
    /\ IsPrefix(Key.pending, Key["pending"]) /\ IsPrefix(Key.declined, Key["declined"])
    /\ IsPrefix(Key.backlog, Key["backlog"]) /\ IsPrefix(Key.backlog, Key["detail"])
PROOF
  <1>1. \A v \in Queries : Key[v] \in Seq(Segments)
    <2>1. /\ Key["backlog"] = <<"requirements">> /\ Key["detail"] = <<"requirements", "id">>
          /\ Key["artifact"] = <<"artifacts", "uuid">>
          /\ Key["listing"] = <<"projects", "slug", "collections", "prefix", "artifacts">>
          /\ Key["queue"] = <<"reviews", "queue">> /\ Key["report"] = <<"reports", "kind", "system">>
          /\ Key["config"] = <<"reports", "kind", "config">>
          /\ Key["pending"] = <<"projects", "slug", "suggestions", "links", "pending">>
          /\ Key["declined"] = <<"projects", "slug", "suggestions", "links", "declined">>
          /\ Key["providers"] = <<"llm", "providers">>
      BY DEF Key
    <2>2. /\ Key["backlog"] \in Seq(Segments) /\ Key["detail"] \in Seq(Segments)
          /\ Key["artifact"] \in Seq(Segments) /\ Key["listing"] \in Seq(Segments)
          /\ Key["queue"] \in Seq(Segments) /\ Key["report"] \in Seq(Segments)
          /\ Key["config"] \in Seq(Segments) /\ Key["pending"] \in Seq(Segments)
          /\ Key["declined"] \in Seq(Segments) /\ Key["providers"] \in Seq(Segments)
      BY <2>1 DEF Segments
    <2> QED
      BY <2>2, ShowsIs
  <1>2. \A s \in Seq(Segments) : IsPrefix(<<>>, s) /\ IsPrefix(s, s)
    <2> TAKE s \in Seq(Segments)
    <2>1. Len(s) \in Nat /\ Len(<<>>) = 0 /\ <<>> \in Seq(Segments)
      BY LenProperties, EmptySeq
    <2>2. SubSeq(<<>>, 1, 0) = <<>> /\ SubSeq(s, 1, 0) = <<>>
      BY <2>1, SubSeqProperties
    <2> QED
      BY <2>1, <2>2 DEF IsPrefix
  <1>3. IsPrefix(<<"requirements">>, <<"requirements", "id">>)
    <2> DEFINE s == <<"requirements">>
               t == <<"requirements", "id">>
    <2>1. /\ s \in Seq(Segments) /\ t \in Seq(Segments) /\ Len(s) = 1 /\ Len(t) = 2
          /\ s[1] = "requirements" /\ t[1] = "requirements"
      BY DEF Segments
    <2> HIDE DEF s, t
    <2>2. /\ SubSeq(s, 1, 1) = [i \in 1..1 |-> s[i]] /\ SubSeq(t, 1, 1) = [i \in 1..1 |-> t[i]]
      BY <2>1
    <2>3. [i \in 1..1 |-> s[i]] = [i \in 1..1 |-> t[i]]
      BY <2>1
    <2>4. IsPrefix(s, t)
      BY <2>1, <2>2, <2>3 DEF IsPrefix
    <2> QED
      BY <2>4 DEF s, t
  <1>4. Key.backlog = <<"requirements">> /\ Key["detail"] = <<"requirements", "id">>
    BY DEF Key
  <1> QED
    BY <1>1, <1>2, <1>3, <1>4, ShowsIs

LEMMA HitsIs ==
    /\ \A m \in ArtifactMutations \cup Imports \cup {"accept", "reinstate"} : Queries \subseteq Hits(m)
    /\ \A m \in {"saveConfig", "clearConfig"} : "config" \in Hits(m)
    /\ \A m \in DOMAIN ProviderRequests : "providers" \in Hits(m)
    /\ "pending" \in Hits("analyze") /\ {"pending", "declined"} \subseteq Hits("reject")
    /\ \A m \in {"verify", "reverify", "draft"} : {"backlog", "detail"} \subseteq Hits(m)
    /\ \A m \in Fills : Hits(m) = {}
PROOF
  <1>1. \A m : HookOf[m] = Settles(Everything, {}) => Queries \subseteq Hits(m)
    BY PrefixIs DEF Hits, Settles, Everything
  <1>2. \A m, q, s, p : HookOf[m] = Settles(s, p) /\ q \in s => HookOf[m].invalidates = s
    BY DEF Settles
  <1>3. \A m \in ArtifactMutations \cup Imports \cup {"accept", "reinstate"} : Queries \subseteq Hits(m)
    BY <1>1, HooksAre
  <1>4. \A m \in {"saveConfig", "clearConfig"} : HookOf[m].invalidates = {Key.config}
    BY HooksAre DEF Settles
  <1>5. \A m \in DOMAIN ProviderRequests : HookOf[m].invalidates = {Key.providers}
    BY HooksAre DEF Settles
  <1>6. HookOf["analyze"].invalidates = {Key.pending} /\ HookOf["reject"].invalidates = {Key.pending, Key.declined}
    BY HooksAre DEF Settles
  <1>7. \A m \in {"verify", "reverify", "draft"} : HookOf[m].invalidates = {Key.backlog}
    BY HooksAre DEF Settles
  <1>8. \A m \in Fills : HookOf[m].invalidates = {}
    BY HooksAre DEF Settles, Fills
  <1> QED
    BY <1>3, <1>4, <1>5, <1>6, <1>7, <1>8, PrefixIs, ShowsIs DEF Hits

\* What a request writes and that its hook sees to every query that shows it.
LEMMA Coverage ==
    \A what \in DOMAIN RequestOf :
        /\ HookOf[what].puts \subseteq Queries
        /\ HookOf[what].puts \subseteq Hits(what) \/ (what \in Fills /\ HookOf[what].puts = {"backlog"})
        /\ what \in Fills => RequestOf[what].writes = {"triage"} /\ ~RequestOf[what].told
        /\ RequestOf[what].told \in BOOLEAN
        /\ \A v \in Queries : RequestOf[what].writes \cap Shows[v] # {} =>
              \/ v \in Hits(what) \cup HookOf[what].puts
              \/ what \in DOMAIN ProviderRequests /\ RequestOf[what].told
PROOF
  <1> TAKE what \in DOMAIN RequestOf
  <1>2. \A m, i, p : HookOf[m] = Settles(i, p) => HookOf[m].puts = p
    BY DEF Settles
  <1> DEFINE Meets(w) == \A v \in Queries : RequestOf[what].writes \cap Shows[v] # {} => v \in w
  <1>10. /\ RequestOf[what].writes = {"config"} => Meets({"config"})
         /\ RequestOf[what].writes = {"health"} => Meets({"providers"})
         /\ RequestOf[what].writes = {"pending"} => Meets({"pending"})
         /\ RequestOf[what].writes = {"pending", "declined"} => Meets({"pending", "declined"})
         /\ RequestOf[what].writes = {"triage"} => Meets({"backlog"})
         /\ RequestOf[what].writes = {"verdicts"} => Meets({"backlog", "detail"})
         /\ RequestOf[what].writes = {"drafts"} => Meets({"backlog", "detail"})
    BY ShowsIs
  <1>3. CASE what \in ArtifactMutations \cup Imports \cup {"accept", "reinstate"}
    <2>1. HookOf[what].puts = {} /\ Queries \subseteq Hits(what) /\ what \notin Fills
      BY <1>2, <1>3, HooksAre, HitsIs DEF Fills, ArtifactMutations, Imports, TreeMutations
    <2>2. RequestOf[what].told = TRUE
      BY <1>3, RequestsAre DEF Asks
    <2> QED
      BY <2>1, <2>2
  <1>4. CASE what \in {"saveConfig", "clearConfig"}
    <2>1. HookOf[what].puts = {} /\ "config" \in Hits(what) /\ what \notin Fills
      BY <1>2, <1>4, HooksAre, HitsIs DEF Fills
    <2>2. RequestOf[what].told = FALSE /\ RequestOf[what].writes = {"config"}
      BY <1>4, RequestsAre DEF Asks
    <2> QED
      BY <2>1, <2>2, <1>10
  <1>5. CASE what \in DOMAIN ProviderRequests
    <2>1. HookOf[what].puts = {} /\ "providers" \in Hits(what) /\ what \notin Fills
      BY <1>2, <1>5, RequestsAre, HooksAre, HitsIs DEF Fills, Edits
    <2>2. \/ RequestOf[what].told = TRUE
          \/ RequestOf[what].told = FALSE /\ RequestOf[what].writes = {"health"}
      BY <1>5, RequestsAre DEF Asks
    <2> QED
      BY <1>5, <2>1, <2>2, <1>10
  <1>6. CASE what \in {"analyze", "reject"}
    <2>1. HookOf[what].puts = {} /\ what \notin Fills
      BY <1>2, <1>6, HooksAre DEF Fills
    <2>2. /\ RequestOf[what].told = FALSE
          /\ what = "analyze" => RequestOf[what].writes = {"pending"}
          /\ what = "reject" => RequestOf[what].writes = {"pending", "declined"}
      BY <1>6, RequestsAre DEF Asks
    <2> QED
      BY <1>6, <2>1, <2>2, <1>10, ShowsIs, HitsIs
  <1>7. CASE what \in Fills
    <2>1. HookOf[what].puts = {"backlog"}
      BY <1>2, <1>7, HooksAre DEF Fills
    <2>2. RequestOf[what].told = FALSE /\ RequestOf[what].writes = {"triage"}
      BY <1>7, RequestsAre DEF Asks, Fills
    <2> QED
      BY <1>7, <2>1, <2>2, <1>10, ShowsIs
  <1>8. CASE what \in {"verify", "reverify"}
    <2>1. HookOf[what].puts = {} /\ {"backlog", "detail"} \subseteq Hits(what) /\ what \notin Fills
      BY <1>2, <1>8, HooksAre, HitsIs DEF Fills
    <2>2. RequestOf[what].told = FALSE /\ RequestOf[what].writes = {"verdicts"}
      BY <1>8, RequestsAre DEF Asks
    <2> QED
      BY <2>1, <2>2, <1>10
  <1>9. CASE what = "draft"
    <2>1. HookOf[what].puts = {"detail"} /\ {"backlog", "detail"} \subseteq Hits(what) /\ what \notin Fills
      BY <1>2, <1>9, HooksAre, HitsIs DEF Fills
    <2>2. RequestOf[what].told = FALSE /\ RequestOf[what].writes = {"drafts"}
      BY <1>9, RequestsAre DEF Asks
    <2> QED
      BY <2>1, <2>2, <1>10, ShowsIs
  <1> QED
    BY <1>3, <1>4, <1>5, <1>6, <1>7, <1>8, <1>9, RequestsAre DEF Mutations, Edits, Fills

-----------------------------------------------------------------------------
(***************************************************************************)
(* The invariant.                                                          *)
(***************************************************************************)

Data(v) == [Shows[v] -> Nat]
SomeData == UNION {Data(v) : v \in Queries}
Puts == {NoData} \cup UNION {[S -> SomeData] : S \in SUBSET Queries}
Message(sc) ==
    [kind : {"fetch"}, of : sc.views, data : {NoData} \cup SomeData]
    \cup [kind : {"event"}]
    \cup [kind : {"done", "refused"}, of : sc.jobs, puts : Puts]

IsEntry(q, v) ==
    /\ DOMAIN q = {"data", "invalid", "aged", "on", "fetch", "failed"}
    /\ q.data \in {NoData} \cup Data(v)
    /\ q.invalid \in BOOLEAN /\ q.aged \in BOOLEAN /\ q.on \in BOOLEAN /\ q.failed \in BOOLEAN
    /\ q.fetch \in {"none", "asked", "served"}
IsJob(sc, m) ==
    /\ DOMAIN m = {"what", "pc", "undo", "left"}
    /\ m.pc \in {"idle", "sent", "served", "over"}
    /\ m.pc # "idle" => m.what \in sc.mutations
    /\ m.pc = "sent" => m.left \in {1, 2} /\ (m.what # "reverify" => m.left = 1)

WebTypes ==
    /\ browsed \in DOMAIN Browsed
    /\ truth \in [Resources -> Nat]
    /\ query = [v \in Scene.views |-> query[v]] /\ \A v \in Scene.views : IsEntry(query[v], v)
    /\ mutation = [j \in Scene.jobs |-> mutation[j]]
    /\ \A j \in Scene.jobs : IsJob(Scene, mutation[j])
    /\ connected \in BOOLEAN /\ (connected \/ Scene.breaks)

AnswerTo(m, v) == m.kind = "fetch" /\ m.of = v
ReplyTo(m, j) == m.kind \in {"done", "refused"} /\ m.of = j

\* A fetch that was served has one answer under way, a mutation one reply.
WireIs(sc, q, mu, w) ==
    /\ w \in Seq(Message(sc))
    /\ \A k \in 1..Len(w) : \A v \in sc.views : AnswerTo(w[k], v) =>
            /\ q[v].fetch = "served" /\ w[k].data \in {NoData} \cup Data(v)
            /\ \A l \in 1..Len(w) : AnswerTo(w[l], v) => l = k
    /\ \A k \in 1..Len(w) : \A j \in sc.jobs : ReplyTo(w[k], j) =>
            /\ mu[j].pc = "served"
            /\ \A l \in 1..Len(w) : ReplyTo(w[l], j) => l = k
            /\ DOMAIN w[k].puts \subseteq HookOf[mu[j].what].puts
            /\ \A v \in DOMAIN w[k].puts : w[k].puts[v] \in Data(v)
            /\ w[k].kind = "refused" /\ mu[j].what = "triage" => Alone(sc)
WireInv == WireIs(Scene, query, mutation, wire)

\* Where answers overtake each other, pages have something to show, and none is
\* left while it loads.
LooseInv ==
    ~Scene.ordered => \A v \in Scene.views :
        query[v].data # NoData /\ (~query[v].on => query[v].fetch = "none")

\* What makes a page look again, or shows it the news.
Brings(mu, m, v) ==
    \/ m.kind = "event"
    \/ m.kind = "done" /\ v \in Hits(mu[m.of].what) \cup DOMAIN m.puts
WillCome(sc, mu, v) ==
    \E j \in sc.jobs : mu[j].pc = "sent" /\ \/ mu[j].what = "reverify" /\ v \in Hits("reverify")
                                            \/ mu[j].what = "triage" /\ v = "backlog"
Owes(sc, mu, w, v, k) ==
    \/ WillCome(sc, mu, v)
    \/ \E i \in 1..Len(w) : (sc.ordered => i > k) /\ Brings(mu, w[i], v)

\* What a page shows, what an answer or the reply to a mutation will make it
\* show, is true or is followed by something that brings the truth.
Looks(q) == ~q.on /\ (q.data = NoData \/ q.invalid \/ q.aged)
PageIs(v, r) ==
    query[v].fetch = "none" =>
        \/ query[v].failed \/ query[v].data[r] = truth[r] \/ Looks(query[v])
        \/ Owes(Scene, mutation, wire, v, 0)
AnswerIs(v, r) ==
    \A k \in 1..Len(wire) : AnswerTo(wire[k], v) =>
        \/ wire[k].data = NoData \/ wire[k].data[r] = truth[r]
        \/ Owes(Scene, mutation, wire, v, k)
PutIs(v, r) ==
    \A k \in 1..Len(wire) :
        wire[k].kind = "done" /\ v \in DOMAIN wire[k].puts \ Hits(mutation[wire[k].of].what) =>
            wire[k].puts[v][r] = truth[r] \/ Owes(Scene, mutation, wire, v, k)
PagesInv ==
    ~Alone(Scene) => \A v \in Scene.views : \A r \in Shows[v] \ unheard :
        PageIs(v, r) /\ AnswerIs(v, r) /\ PutIs(v, r)

\* A triage or a seed of the list with nobody else about.
\* The only request that may fail after its save is over by then.
Heard(v) == [r \in Shows[v] |-> IF r \in unheard THEN truth[r] - 1 ELSE truth[r]]
AloneInv ==
    Alone(Scene) =>
        /\ \A v \in Scene.views : /\ query[v].on /\ ~query[v].failed /\ query[v].fetch = "none"
                                  /\ v # "backlog" => query[v].data = Heard(v)
        /\ \A j \in Scene.jobs : mutation[j].what = "triage" /\ mutation[j].pc = "sent" =>
                mutation[j].undo = Heard("backlog")
        /\ "backlog" \in Scene.views =>
              \/ query["backlog"].data = Heard("backlog")
              \/ \E j \in Scene.jobs : mutation[j].pc \in {"sent", "served"}
        /\ \A k \in 1..Len(wire) : \E j \in Scene.jobs :
              /\ ReplyTo(wire[k], j)
              /\ wire[k].kind = "done" => wire[k].puts = [v \in {"backlog"} |-> Heard(v)]
              /\ wire[k].kind = "refused" /\ mutation[j].what = "triage" =>
                    mutation[j].undo = Heard("backlog")
              /\ wire[k].kind = "refused" /\ mutation[j].what = "seed" /\ "backlog" \in Scene.views =>
                    query["backlog"].data = Heard("backlog")
        /\ \A j \in Scene.jobs :
              mutation[j].what = "seed" /\ mutation[j].pc = "sent" /\ "backlog" \in Scene.views =>
                 query["backlog"].data = Heard("backlog")
        /\ \A r \in unheard : r \in Resources /\ truth[r] > 0
        /\ \A j \in Scene.jobs : mutation[j].pc \in {"idle", "sent"} => unheard = {}

WebInv == WebTypes /\ WireInv /\ LooseInv /\ PagesInv /\ AloneInv

-----------------------------------------------------------------------------
(***************************************************************************)
(* The wire: what is taken off it and put on it.                           *)
(***************************************************************************)

LEMMA MessageIs ==
    ASSUME NEW sc, NEW m \in Message(sc)
    PROVE  /\ m.kind \in {"fetch", "event", "done", "refused"}
           /\ m.kind = "fetch" => m.of \in sc.views /\ m.data \in {NoData} \cup SomeData
           /\ m.kind \in {"done", "refused"} => m.of \in sc.jobs
PROOF
  <1> DEFINE A == [kind : {"fetch"}, of : sc.views, data : {NoData} \cup SomeData]
             E == [kind : {"event"}]
             R == [kind : {"done", "refused"}, of : sc.jobs, puts : Puts]
  <1>1. m \in A \/ m \in E \/ m \in R
    BY DEF Message
  <1>2. CASE m \in A
    <2>1. m.kind = "fetch" /\ m.of \in sc.views /\ m.data \in {NoData} \cup SomeData
      BY <1>2
    <2> QED
      BY <2>1
  <1>3. CASE m \in E
    BY <1>3
  <1>4. CASE m \in R
    <2>1. m.kind \in {"done", "refused"} /\ m.of \in sc.jobs
      BY <1>4
    <2> QED
      BY <2>1
  <1> QED
    BY <1>1, <1>2, <1>3, <1>4

LEMMA WireMessages ==
    ASSUME NEW sc, NEW q, NEW mu, NEW w, WireIs(sc, q, mu, w)
    PROVE  /\ w \in Seq(Message(sc)) /\ Len(w) \in Nat /\ DOMAIN w = 1..Len(w)
           /\ \A k \in 1..Len(w) :
                /\ w[k] \in Message(sc)
                /\ w[k].kind \in {"fetch", "event", "done", "refused"}
                /\ w[k].kind = "fetch" => w[k].of \in sc.views
                /\ w[k].kind \in {"done", "refused"} => w[k].of \in sc.jobs
PROOF
  <1>1. w \in Seq(Message(sc))
    BY DEF WireIs
  <1>2. Len(w) \in Nat /\ DOMAIN w = 1..Len(w) /\ \A k \in 1..Len(w) : w[k] \in Message(sc)
    BY <1>1, LenProperties, ElementOfSeq
  <1> QED
    BY <1>1, <1>2, MessageIs

\* The requests that are answered stay as they are.
LEMMA WireOn ==
    ASSUME NEW sc, NEW q, NEW mu, NEW w, NEW p, NEW nu, WireIs(sc, q, mu, w),
           \A v \in sc.views : q[v].fetch = "served" => p[v].fetch = "served",
           \A j \in sc.jobs : mu[j].pc = "served" =>
                nu[j].pc = "served" /\ nu[j].what = mu[j].what
    PROVE  WireIs(sc, p, nu, w)
PROOF
  <1>1. \A k \in 1..Len(w) : \A v \in sc.views : AnswerTo(w[k], v) =>
            /\ p[v].fetch = "served" /\ w[k].data \in {NoData} \cup Data(v)
            /\ \A l \in 1..Len(w) : AnswerTo(w[l], v) => l = k
    BY DEF WireIs
  <1>2. \A k \in 1..Len(w) : \A j \in sc.jobs : ReplyTo(w[k], j) =>
            /\ nu[j].pc = "served"
            /\ \A l \in 1..Len(w) : ReplyTo(w[l], j) => l = k
            /\ DOMAIN w[k].puts \subseteq HookOf[nu[j].what].puts
            /\ \A v \in DOMAIN w[k].puts : w[k].puts[v] \in Data(v)
            /\ w[k].kind = "refused" /\ nu[j].what = "triage" => Alone(sc)
    BY DEF WireIs
  <1> QED
    BY <1>1, <1>2 DEF WireIs

LEMMA WireLeft ==
    ASSUME NEW sc, NEW q, NEW mu, NEW w, NEW p, NEW nu, NEW u, NEW g, NEW K \in SUBSET (1..Len(w)),
           WireIs(sc, q, mu, w), IsLeft(g, u, w, K), u \in Seq(Message(sc)),
           \A k \in K : \A v \in sc.views : AnswerTo(w[k], v) => p[v].fetch = q[v].fetch,
           \A k \in K : \A j \in sc.jobs : ReplyTo(w[k], j) =>
                nu[j].pc = mu[j].pc /\ nu[j].what = mu[j].what
    PROVE  WireIs(sc, p, nu, u)
PROOF
  <1>1. \A k \in 1..Len(u) : g[k] \in K /\ g[k] \in 1..Len(w) /\ u[k] = w[g[k]]
    BY DEF IsLeft
  <1>0. Len(u) \in Nat /\ \A k, l \in 1..Len(u) : k < l => g[k] < g[l]
    BY LenProperties DEF IsLeft
  <1>2. \A k, l \in 1..Len(u) : g[l] = g[k] => l = k
    <2> TAKE k, l \in 1..Len(u)
    <2>1. k < l \/ l < k \/ l = k
      OBVIOUS
    <2>2. g[k] \in Int /\ g[l] \in Int
      BY <1>1
    <2>3. k < l => g[k] < g[l]
      BY <1>0
    <2>4. l < k => g[l] < g[k]
      BY <1>0
    <2> QED
      BY <2>1, <2>2, <2>3, <2>4
  <1>3. ASSUME NEW k \in 1..Len(u), NEW v \in sc.views, AnswerTo(u[k], v)
        PROVE  /\ p[v].fetch = "served" /\ u[k].data \in {NoData} \cup Data(v)
               /\ \A l \in 1..Len(u) : AnswerTo(u[l], v) => l = k
    <2>1. g[k] \in K /\ g[k] \in 1..Len(w) /\ AnswerTo(w[g[k]], v)
      BY <1>1, <1>3
    <2>2. /\ q[v].fetch = "served" /\ w[g[k]].data \in {NoData} \cup Data(v)
          /\ \A l \in 1..Len(w) : AnswerTo(w[l], v) => l = g[k]
      BY <2>1 DEF WireIs
    <2> QED
      BY <1>1, <1>2, <2>1, <2>2
  <1>4. ASSUME NEW k \in 1..Len(u), NEW j \in sc.jobs, ReplyTo(u[k], j)
        PROVE  /\ nu[j].pc = "served"
               /\ \A l \in 1..Len(u) : ReplyTo(u[l], j) => l = k
               /\ DOMAIN u[k].puts \subseteq HookOf[nu[j].what].puts
               /\ \A v \in DOMAIN u[k].puts : u[k].puts[v] \in Data(v)
               /\ u[k].kind = "refused" /\ nu[j].what = "triage" => Alone(sc)
    <2>1. g[k] \in K /\ g[k] \in 1..Len(w) /\ ReplyTo(w[g[k]], j) /\ u[k] = w[g[k]]
      BY <1>1, <1>4
    <2>2. /\ mu[j].pc = "served"
          /\ \A l \in 1..Len(w) : ReplyTo(w[l], j) => l = g[k]
          /\ DOMAIN w[g[k]].puts \subseteq HookOf[mu[j].what].puts
          /\ \A v \in DOMAIN w[g[k]].puts : w[g[k]].puts[v] \in Data(v)
          /\ w[g[k]].kind = "refused" /\ mu[j].what = "triage" => Alone(sc)
      BY <2>1 DEF WireIs
    <2>3. nu[j].pc = mu[j].pc /\ nu[j].what = mu[j].what
      BY <2>1
    <2>4. \A l \in 1..Len(u) : ReplyTo(u[l], j) => l = k
      BY <1>1, <1>2, <2>2
    <2> QED
      BY <2>1, <2>2, <2>3, <2>4
  <1> QED
    BY <1>3, <1>4 DEF WireIs

LEMMA WireAppend ==
    ASSUME NEW sc, NEW q, NEW mu, NEW w, NEW m \in Message(sc), WireIs(sc, q, mu, w),
           \A v \in sc.views : AnswerTo(m, v) =>
                /\ q[v].fetch = "served" /\ m.data \in {NoData} \cup Data(v)
                /\ \A k \in 1..Len(w) : ~AnswerTo(w[k], v),
           \A j \in sc.jobs : ReplyTo(m, j) =>
                /\ mu[j].pc = "served"
                /\ \A k \in 1..Len(w) : ~ReplyTo(w[k], j)
                /\ DOMAIN m.puts \subseteq HookOf[mu[j].what].puts
                /\ \A v \in DOMAIN m.puts : m.puts[v] \in Data(v)
                /\ m.kind = "refused" /\ mu[j].what = "triage" => Alone(sc)
    PROVE  WireIs(sc, q, mu, Append(w, m))
PROOF
  <1> DEFINE u == Append(w, m)
             n == Len(w) + 1
  <1>1. w \in Seq(Message(sc)) /\ Len(w) \in Nat
    BY LenProperties DEF WireIs
  <1>2. /\ u \in Seq(Message(sc)) /\ Len(u) = n /\ u[n] = m
        /\ \A k \in 1..Len(w) : u[k] = w[k]
    BY <1>1, AppendProperties
  <1>3. \A k \in 1..n : k \in 1..Len(w) \/ k = n
    BY <1>1
  <1>4. \A k \in 1..Len(w) : k # n /\ k \in 1..n
    BY <1>1
  <1> HIDE DEF u, n
  <1>5. ASSUME NEW k \in 1..n, NEW v \in sc.views, AnswerTo(u[k], v)
        PROVE  /\ q[v].fetch = "served" /\ u[k].data \in {NoData} \cup Data(v)
               /\ \A l \in 1..n : AnswerTo(u[l], v) => l = k
    <2>1. CASE k = n
      BY <1>2, <1>3, <1>5, <2>1
    <2>2. CASE k \in 1..Len(w)
      <3>1. AnswerTo(w[k], v)
        BY <1>2, <1>5, <2>2
      <3>2. /\ q[v].fetch = "served" /\ w[k].data \in {NoData} \cup Data(v)
            /\ \A l \in 1..Len(w) : AnswerTo(w[l], v) => l = k
        BY <2>2, <3>1 DEF WireIs
      <3>3. ~AnswerTo(m, v)
        BY <2>2, <3>1
      <3> QED
        BY <1>2, <1>3, <2>2, <3>2, <3>3
    <2> QED
      BY <1>3, <2>1, <2>2
  <1>6. ASSUME NEW k \in 1..n, NEW j \in sc.jobs, ReplyTo(u[k], j)
        PROVE  /\ mu[j].pc = "served"
               /\ \A l \in 1..n : ReplyTo(u[l], j) => l = k
               /\ DOMAIN u[k].puts \subseteq HookOf[mu[j].what].puts
               /\ \A v \in DOMAIN u[k].puts : u[k].puts[v] \in Data(v)
               /\ u[k].kind = "refused" /\ mu[j].what = "triage" => Alone(sc)
    <2>1. CASE k = n
      <3>1. u[k] = m /\ ReplyTo(m, j)
        BY <1>2, <1>6, <2>1
      <3>2. \A l \in 1..n : ReplyTo(u[l], j) => l = k
        BY <1>2, <1>3, <3>1, <2>1
      <3> QED
        BY <3>1, <3>2
    <2>2. CASE k \in 1..Len(w)
      <3>1. ReplyTo(w[k], j) /\ u[k] = w[k]
        BY <1>2, <1>6, <2>2
      <3>2. /\ mu[j].pc = "served"
            /\ \A l \in 1..Len(w) : ReplyTo(w[l], j) => l = k
            /\ DOMAIN w[k].puts \subseteq HookOf[mu[j].what].puts
            /\ \A v \in DOMAIN w[k].puts : w[k].puts[v] \in Data(v)
            /\ w[k].kind = "refused" /\ mu[j].what = "triage" => Alone(sc)
        BY <2>2, <3>1 DEF WireIs
      <3>3. ~ReplyTo(m, j)
        BY <2>2, <3>1
      <3>4. \A l \in 1..n : ReplyTo(u[l], j) => l = k
        BY <1>2, <1>3, <3>2, <3>3
      <3> QED
        BY <3>1, <3>2, <3>4
    <2> QED
      BY <1>3, <2>1, <2>2
  <1>7. WireIs(sc, q, mu, u)
    BY <1>2, <1>5, <1>6 DEF WireIs
  <1> QED
    BY <1>7 DEF u

LEMMA EventAppend ==
    ASSUME NEW sc, NEW q, NEW mu, NEW w, WireIs(sc, q, mu, w)
    PROVE  WireIs(sc, q, mu, Append(w, [kind |-> "event"]))
PROOF
  <1> DEFINE m == [kind |-> "event"]
  <1>1. m \in Message(sc)
    BY DEF Message
  <1>2. m.kind = "event"
    OBVIOUS
  <1> HIDE DEF m
  <1>3. \A v : ~AnswerTo(m, v) /\ ~ReplyTo(m, v)
    BY <1>2 DEF AnswerTo, ReplyTo
  <1>4. WireIs(sc, q, mu, Append(w, m))
    BY <1>1, <1>3, WireAppend
  <1> QED
    BY <1>4 DEF m

Dropped(m, dropped) == m.kind = "fetch" /\ m.of \in dropped

LEMMA WithoutIs ==
    ASSUME NEW S, NEW w \in Seq(S), NEW dropped
    PROVE  /\ Without(w, dropped) \in Seq(S)
           /\ \E g : IsLeft(g, Without(w, dropped), w, {k \in 1..Len(w) : ~Dropped(w[k], dropped)})
PROOF
  <1> DEFINE K == {k \in 1..Len(w) : ~Dropped(w[k], dropped)}
  <1>1. DOMAIN w = 1..Len(w)
    BY LenProperties
  <1>2. Without(w, dropped) = Kept(w, K)
    <2>1. Without(w, dropped) =
            FlattenSeq([i \in DOMAIN w |-> IF ~(w[i].kind = "fetch" /\ w[i].of \in dropped) THEN <<w[i]>> ELSE <<>>])
      BY DEF Without, Those
    <2>2. \A i \in DOMAIN w : i \in K <=> ~(w[i].kind = "fetch" /\ w[i].of \in dropped)
      BY <1>1 DEF Dropped
    <2> HIDE DEF K
    <2>3. [i \in DOMAIN w |-> IF ~(w[i].kind = "fetch" /\ w[i].of \in dropped) THEN <<w[i]>> ELSE <<>>]
            = [i \in DOMAIN w |-> IF i \in K THEN <<w[i]>> ELSE <<>>]
      BY <2>2
    <2> QED
      BY <2>1, <2>3 DEF Kept
  <1>3. K \in SUBSET (1..Len(w))
    OBVIOUS
  <1> HIDE DEF K
  <1>4. Kept(w, K) \in Seq(S) /\ \E g : IsLeft(g, Kept(w, K), w, K)
    BY <1>3, KeptIs
  <1> QED
    BY <1>2, <1>4 DEF K

Unbroken(w) == Those(w, LAMBDA m : m.kind # "event")

LEMMA UnbrokenIs ==
    ASSUME NEW S, NEW w \in Seq(S)
    PROVE  /\ Unbroken(w) \in Seq(S)
           /\ \E g : IsLeft(g, Unbroken(w), w, {k \in 1..Len(w) : w[k].kind # "event"})
PROOF
  <1> DEFINE K == {k \in 1..Len(w) : w[k].kind # "event"}
  <1>1. DOMAIN w = 1..Len(w)
    BY LenProperties
  <1>2. Unbroken(w) = Kept(w, K)
    <2>1. Unbroken(w) =
            FlattenSeq([i \in DOMAIN w |-> IF w[i].kind # "event" THEN <<w[i]>> ELSE <<>>])
      BY DEF Unbroken, Those
    <2>2. \A i \in DOMAIN w : i \in K <=> w[i].kind # "event"
      BY <1>1
    <2> HIDE DEF K
    <2>3. [i \in DOMAIN w |-> IF w[i].kind # "event" THEN <<w[i]>> ELSE <<>>]
            = [i \in DOMAIN w |-> IF i \in K THEN <<w[i]>> ELSE <<>>]
      BY <2>2
    <2> QED
      BY <2>1, <2>3 DEF Kept
  <1>3. K \in SUBSET (1..Len(w))
    OBVIOUS
  <1> HIDE DEF K
  <1>4. Kept(w, K) \in Seq(S) /\ \E g : IsLeft(g, Kept(w, K), w, K)
    BY <1>3, KeptIs
  <1> QED
    BY <1>2, <1>4 DEF K

\* One message is taken, and the answers to the dropped fetches with it.
LEMMA TakenIs ==
    ASSUME NEW S, NEW w \in Seq(S), NEW i \in 1..Len(w), NEW dropped
    PROVE  /\ Without(RemoveAt(w, i), dropped) \in Seq(S)
           /\ \E g : IsLeft(g, Without(RemoveAt(w, i), dropped), w,
                            {k \in 1..Len(w) \ {i} : ~Dropped(w[k], dropped)})
PROOF
  <1> DEFINE b == RemoveAt(w, i)
             L == {k \in 1..Len(b) : ~Dropped(b[k], dropped)}
             K == {k \in 1..Len(w) \ {i} : ~Dropped(w[k], dropped)}
  <1>1. b \in Seq(S) /\ \E g : IsLeft(g, b, w, 1..Len(w) \ {i})
    BY RemovedIs
  <1> HIDE DEF b
  <1>2. PICK g : IsLeft(g, b, w, 1..Len(w) \ {i})
    BY <1>1
  <1>3. Without(b, dropped) \in Seq(S) /\ \E h : IsLeft(h, Without(b, dropped), b, L)
    BY <1>1, WithoutIs
  <1>4. PICK h : IsLeft(h, Without(b, dropped), b, L)
    BY <1>3
  <1>5. Through(g, L) = K
    <2>1. /\ \A k \in 1..Len(b) : g[k] \in 1..Len(w) \ {i} /\ b[k] = w[g[k]]
          /\ \A k \in 1..Len(w) \ {i} : \E l \in 1..Len(b) : g[l] = k
      BY <1>2 DEF IsLeft
    <2>2. \A l \in L : g[l] \in K
      BY <2>1
    <2>3. \A k \in K : \E l \in L : g[l] = k
      <3> TAKE k \in K
      <3>1. k \in 1..Len(w) \ {i} /\ ~Dropped(w[k], dropped)
        OBVIOUS
      <3>2. PICK l \in 1..Len(b) : g[l] = k
        BY <2>1, <3>1
      <3>3. l \in L
        BY <2>1, <3>1, <3>2
      <3> QED
        BY <3>2, <3>3
    <2> HIDE DEF K, L
    <2> QED
      BY <2>2, <2>3 DEF Through
  <1>6. 1..Len(w) \ {i} \in SUBSET (1..Len(w)) /\ L \in SUBSET (1..Len(b))
    OBVIOUS
  <1> DEFINE c == Without(b, dropped)
             M == 1..Len(w) \ {i}
  <1>7. c \in Seq(S) /\ IsLeft(h, c, b, L) /\ IsLeft(g, b, w, M) /\ M \in SUBSET (1..Len(w))
        /\ L \in SUBSET (1..Len(b))
    BY <1>2, <1>3, <1>4, <1>6
  <1> HIDE DEF c, K, L, M
  <1>8. \E e : IsLeft(e, c, w, Through(g, L))
    BY <1>1, <1>7, LeftOfLeft
  <1>9. \E e : IsLeft(e, c, w, K)
    BY <1>5, <1>8
  <1> QED
    BY <1>3, <1>9 DEF b, c, K

-----------------------------------------------------------------------------
(***************************************************************************)
(* What a page is owed, when messages come and go.                         *)
(***************************************************************************)

LEMMA SceneIs ==
    ASSUME browsed \in DOMAIN Browsed
    PROVE  /\ Scene.views \subseteq Queries /\ Scene.opening \subseteq Scene.views
           /\ Scene.mutations \subseteq DOMAIN RequestOf /\ Scene.elsewhere \subseteq Resources
           /\ Scene.ordered \in BOOLEAN /\ Scene.leaves \in BOOLEAN
           /\ Scene.fails \in BOOLEAN /\ Scene.breaks \in BOOLEAN
           /\ "triage" \in Scene.mutations => "backlog" \in Scene.views
PROOF
  BY WebAssumption DEF WebAssumption, Scene

LEMMA SceneIsOrderly ==
    ASSUME browsed \in DOMAIN Browsed, PagesAreOrderly
    PROVE  /\ Scene.ordered \/ Scene.opening = {}
           /\ Scene.ordered \/ Scene.mutations \cap Fills = {} \/ Alone(Scene)
           /\ Scene.fails /\ "triage" \in Scene.mutations => Alone(Scene)
           /\ "triage" \in Scene.mutations => "detail" \notin Scene.views
           /\ Scene.breaks => Scene.mutations \cap DOMAIN ProviderRequests = {}
PROOF
  BY DEF PagesAreOrderly, Scene

LEMMA DataIs ==
    ASSUME NEW v \in Queries, NEW t \in [Resources -> Nat]
    PROVE  /\ NoData \notin Data(v)
           /\ [r \in Shows[v] |-> t[r]] \in Data(v)
           /\ \A d \in Data(v) : \A r \in Shows[v] : d[r] \in Nat
PROOF
  <1>1. Shows[v] \subseteq Resources /\ Shows[v] # {}
    BY ShownIs
  <1>2. [r \in Shows[v] |-> t[r]] \in Data(v)
    BY <1>1 DEF Data
  <1>3. ASSUME NoData \in Data(v) PROVE FALSE
    <2>1. DOMAIN NoData = Shows[v]
      BY <1>3 DEF Data
    <2>2. NoData = <<>> /\ Len(NoData) = 0 /\ DOMAIN NoData = 1..0
      BY EmptySeq DEF NoData
    <2>3. 1..0 = {}
      OBVIOUS
    <2> QED
      BY <1>1, <2>1, <2>2, <2>3
  <1> QED
    BY <1>2, <1>3 DEF Data

\* What was heard of is what the server had, and has where nothing is unheard.
LEMMA HeardIs ==
    ASSUME NEW v \in Queries, truth \in [Resources -> Nat],
           \A r \in unheard : r \in Resources /\ truth[r] > 0
    PROVE  /\ Heard(v) \in Data(v) /\ Heard(v) # NoData
           /\ unheard = {} => Heard(v) = Fresh(v)
           /\ \A r \in Shows[v] \ unheard : Heard(v)[r] = truth[r]
PROOF
  <1> DEFINE t == [r \in Resources |-> IF r \in unheard THEN truth[r] - 1 ELSE truth[r]]
  <1>1. t \in [Resources -> Nat]
    OBVIOUS
  <1>2. Shows[v] \subseteq Resources
    BY ShownIs
  <1>3. Heard(v) = [r \in Shows[v] |-> t[r]]
    BY <1>2 DEF Heard
  <1> HIDE DEF t
  <1>4. Heard(v) \in Data(v) /\ NoData \notin Data(v)
    BY <1>1, <1>3, DataIs
  <1> QED
    BY <1>4 DEF Heard, Fresh

\* The reply to a mutation brings the same whatever else is answered.
LEMMA BringsOn ==
    ASSUME NEW mu, NEW nu, NEW m, NEW v, m.kind = "done" => nu[m.of].what = mu[m.of].what
    PROVE  Brings(mu, m, v) <=> Brings(nu, m, v)
PROOF
  BY DEF Brings

LEMMA OwesKept ==
    ASSUME NEW S, NEW sc, NEW mu, NEW nu, NEW w \in Seq(S), NEW u \in Seq(S),
           NEW K \in SUBSET (1..Len(w)), NEW g, IsLeft(g, u, w, K), NEW v, NEW l, NEW k,
           (k = 0 /\ l = 0) \/ (k \in 1..Len(u) /\ l = g[k]),
           WillCome(sc, mu, v) => WillCome(sc, nu, v),
           \A i \in K : Brings(mu, w[i], v) => Brings(nu, w[i], v),
           \A i \in 1..Len(w) : (sc.ordered => i > l) /\ Brings(mu, w[i], v) => i \in K,
           Owes(sc, mu, w, v, l)
    PROVE  Owes(sc, nu, u, v, k)
PROOF
  <1>1. CASE WillCome(sc, mu, v)
    BY <1>1 DEF Owes
  <1>2. CASE \E i \in 1..Len(w) : (sc.ordered => i > l) /\ Brings(mu, w[i], v)
    <2>1. PICK i \in 1..Len(w) : (sc.ordered => i > l) /\ Brings(mu, w[i], v)
      BY <1>2
    <2>2. i \in K /\ Brings(nu, w[i], v)
      BY <2>1
    <2>3. PICK n \in 1..Len(u) : g[n] = i
      BY <2>2 DEF IsLeft
    <2>4. u[n] = w[i]
      BY <2>3 DEF IsLeft
    <2>5. ASSUME sc.ordered PROVE n > k
      <3>0. i > l /\ i \in Nat /\ n \in Nat /\ n >= 1 /\ Len(u) \in Nat
        BY <2>1, <2>5, LenProperties
      <3>1. CASE k = 0
        BY <3>0, <3>1
      <3>2. CASE k \in 1..Len(u) /\ l = g[k]
        <4>1. k \in Nat /\ (n < k => g[n] < g[k]) /\ (n = k => g[n] = g[k])
          BY <3>2 DEF IsLeft
        <4>2. g[k] \in Nat
          BY <3>2 DEF IsLeft
        <4> QED
          BY <3>0, <3>2, <4>1, <4>2, <2>3
      <3> QED
        BY <3>1, <3>2
    <2> QED
      BY <2>2, <2>4, <2>5 DEF Owes
  <1> QED
    BY <1>1, <1>2 DEF Owes

\* u goes on where w ends.
Extends(u, w) == Len(w) <= Len(u) /\ \A i \in 1..Len(w) : u[i] = w[i]

LEMMA OwesMore ==
    ASSUME NEW S, NEW sc, NEW mu, NEW nu, NEW w \in Seq(S), NEW u \in Seq(S), Extends(u, w),
           NEW v, NEW k \in 0..Len(w),
           \/ WillCome(sc, mu, v) => WillCome(sc, nu, v)
           \/ \E n \in 1..Len(u) : n > Len(w) /\ Brings(nu, u[n], v),
           \A i \in 1..Len(w) : Brings(mu, w[i], v) => Brings(nu, w[i], v),
           Owes(sc, mu, w, v, k)
    PROVE  Owes(sc, nu, u, v, k)
PROOF
  <1>0. Len(w) \in Nat /\ Len(u) \in Nat
    BY LenProperties
  <1>1. ASSUME NEW n \in 1..Len(u), n > Len(w), Brings(nu, u[n], v) PROVE Owes(sc, nu, u, v, k)
    BY <1>0, <1>1 DEF Owes
  <1>2. CASE WillCome(sc, mu, v)
    BY <1>1, <1>2 DEF Owes
  <1>3. ASSUME NEW i \in 1..Len(w), sc.ordered => i > k, Brings(mu, w[i], v)
        PROVE  Owes(sc, nu, u, v, k)
    <2>1. i \in 1..Len(u) /\ u[i] = w[i] /\ Brings(nu, w[i], v)
      BY <1>0, <1>3 DEF Extends
    <2> QED
      BY <1>3, <2>1 DEF Owes
  <1> QED
    BY <1>2, <1>3 DEF Owes

LEMMA AppendExtends ==
    ASSUME NEW S, NEW w \in Seq(S), NEW m \in S
    PROVE  /\ Append(w, m) \in Seq(S) /\ Extends(Append(w, m), w)
           /\ Len(Append(w, m)) = Len(w) + 1 /\ Append(w, m)[Len(w) + 1] = m
PROOF
  <1>1. Len(w) \in Nat
    BY LenProperties
  <1> QED
    BY <1>1, AppendProperties DEF Extends

-----------------------------------------------------------------------------
(***************************************************************************)
(* Answers and replies under way, when messages come and go.               *)
(***************************************************************************)

\* The wire loses what does not concern v, or the first of those in order.
LEMMA PagesKept ==
    ASSUME WebTypes, WireInv, PagesInv, ~Alone(Scene), browsed' = browsed, truth' = truth,
           wire' \in Seq(Message(Scene)),
           NEW K \in SUBSET (1..Len(wire)), NEW g, IsLeft(g, wire', wire, K),
           \A i \in 1..Len(wire) : wire[i].kind = "done" =>
                mutation'[wire[i].of].what = mutation[wire[i].of].what,
           NEW v \in Scene.views, NEW r \in Shows[v] \ unheard,
           WillCome(Scene, mutation, v) => WillCome(Scene, mutation', v),
           \A i \in 1..Len(wire) : Brings(mutation, wire[i], v) => i \in K \/ (Scene.ordered /\ i = 1)
    PROVE  AnswerIs(v, r)' /\ PutIs(v, r)'
PROOF
  <1>0. Scene' = Scene
    BY DEF Scene
  <1>1. /\ wire \in Seq(Message(Scene))
        /\ \A i \in 1..Len(wire) : Brings(mutation, wire[i], v) => Brings(mutation', wire[i], v)
    BY BringsOn DEF WireInv, WireIs
  <1>2. AnswerIs(v, r) /\ PutIs(v, r)
    BY DEF PagesInv
  <1>3. ASSUME NEW k \in 1..Len(wire'), Owes(Scene, mutation, wire, v, g[k])
        PROVE  Owes(Scene, mutation', wire', v, k)
    <2>1. g[k] \in 1..Len(wire)
      BY DEF IsLeft
    <2>2. \A i \in 1..Len(wire) : (Scene.ordered => i > g[k]) /\ Brings(mutation, wire[i], v) => i \in K
      <3> TAKE i \in 1..Len(wire)
      <3>1. i = 1 => ~(i > g[k])
        BY <2>1
      <3> QED
        BY <3>1
    <2>3. \A i \in K : Brings(mutation, wire[i], v) => Brings(mutation', wire[i], v)
      BY <1>1
    <2> QED
      BY <1>1, <1>3, <2>2, <2>3, OwesKept
  <1>4. \A k \in 1..Len(wire') : g[k] \in 1..Len(wire) /\ wire'[k] = wire[g[k]]
    BY DEF IsLeft
  <1>5. AnswerIs(v, r)'
    <2>1. ASSUME NEW k \in 1..Len(wire'), AnswerTo(wire'[k], v)
          PROVE  \/ wire'[k].data = NoData \/ wire'[k].data[r] = truth'[r]
                 \/ Owes(Scene, mutation', wire', v, k)
      <3>1. AnswerTo(wire[g[k]], v) /\ g[k] \in 1..Len(wire) /\ wire'[k] = wire[g[k]]
        BY <1>4, <2>1
      <3>2. \/ wire[g[k]].data = NoData \/ wire[g[k]].data[r] = truth[r]
            \/ Owes(Scene, mutation, wire, v, g[k])
        BY <1>2, <3>1 DEF AnswerIs
      <3> QED
        BY <1>3, <3>1, <3>2
    <2> QED
      BY <1>0, <2>1 DEF AnswerIs, AnswerTo
  <1>6. PutIs(v, r)'
    <2>1. ASSUME NEW k \in 1..Len(wire'), wire'[k].kind = "done",
                 v \in DOMAIN wire'[k].puts \ Hits(mutation'[wire'[k].of].what)
          PROVE  wire'[k].puts[v][r] = truth'[r] \/ Owes(Scene, mutation', wire', v, k)
      <3>1. g[k] \in 1..Len(wire) /\ wire'[k] = wire[g[k]]
        BY <1>4
      <3>2. mutation'[wire[g[k]].of].what = mutation[wire[g[k]].of].what
        BY <2>1, <3>1
      <3>3. wire[g[k]].puts[v][r] = truth[r] \/ Owes(Scene, mutation, wire, v, g[k])
        BY <1>2, <2>1, <3>1, <3>2 DEF PutIs
      <3> QED
        BY <1>3, <3>1, <3>3
    <2> QED
      BY <1>0, <2>1 DEF PutIs
  <1> QED
    BY <1>5, <1>6

\* Nothing is lost; what comes is true, and so is what was unless news comes.
LEMMA PagesMore ==
    ASSUME WebTypes, WireInv, PagesInv, ~Alone(Scene), browsed' = browsed,
           wire' \in Seq(Message(Scene)), Extends(wire', wire),
           \A i \in 1..Len(wire) : wire[i].kind = "done" =>
                mutation'[wire[i].of].what = mutation[wire[i].of].what,
           NEW v \in Scene.views, NEW r \in Shows[v],
           \/ WillCome(Scene, mutation, v) => WillCome(Scene, mutation', v)
           \/ \E n \in 1..Len(wire') : n > Len(wire) /\ Brings(mutation', wire'[n], v),
           \/ r \notin unheard /\ truth'[r] = truth[r]
           \/ WillCome(Scene, mutation', v)
           \/ \E n \in 1..Len(wire') : n > Len(wire) /\ Brings(mutation', wire'[n], v),
           \A n \in 1..Len(wire') : n > Len(wire) =>
                /\ AnswerTo(wire'[n], v) => wire'[n].data = NoData \/ wire'[n].data[r] = truth'[r]
                /\ wire'[n].kind = "done" /\ v \in DOMAIN wire'[n].puts => wire'[n].puts[v][r] = truth'[r]
    PROVE  /\ AnswerIs(v, r)' /\ PutIs(v, r)'
           /\ query'[v] = query[v] => PageIs(v, r)'
PROOF
  <1>0. Scene' = Scene
    BY DEF Scene
  <1>1. /\ wire \in Seq(Message(Scene)) /\ Len(wire) \in Nat /\ Len(wire') \in Nat
        /\ \A i \in 1..Len(wire) : Brings(mutation, wire[i], v) => Brings(mutation', wire[i], v)
    <2>1. wire \in Seq(Message(Scene))
      BY DEF WireInv, WireIs
    <2> QED
      BY <2>1, BringsOn, LenProperties
  <1>2. ASSUME NEW k \in 0..Len(wire), Owes(Scene, mutation, wire, v, k)
        PROVE  Owes(Scene, mutation', wire', v, k)
    BY <1>1, <1>2, OwesMore
  <1>3. ASSUME NEW k \in 0..Len(wire) PROVE Owes(Scene, mutation', wire', v, k) \/ (r \notin unheard /\ truth'[r] = truth[r])
    <2>1. ASSUME NEW n \in 1..Len(wire'), n > Len(wire), Brings(mutation', wire'[n], v)
          PROVE  Owes(Scene, mutation', wire', v, k)
      BY <1>1, <2>1 DEF Owes
    <2>2. WillCome(Scene, mutation', v) => Owes(Scene, mutation', wire', v, k)
      BY DEF Owes
    <2> QED
      BY <2>1, <2>2
  <1>4. \A k \in 1..Len(wire') : (k \in 1..Len(wire) /\ wire'[k] = wire[k]) \/ k > Len(wire)
    BY <1>1 DEF Extends
  <1>5. r \notin unheard => PageIs(v, r) /\ AnswerIs(v, r) /\ PutIs(v, r)
    BY DEF PagesInv
  <1>6. AnswerIs(v, r)'
    <2>1. ASSUME NEW k \in 1..Len(wire'), AnswerTo(wire'[k], v)
          PROVE  \/ wire'[k].data = NoData \/ wire'[k].data[r] = truth'[r]
                 \/ Owes(Scene, mutation', wire', v, k)
      <3>1. CASE k > Len(wire)
        BY <2>1, <3>1
      <3>2. CASE k \in 1..Len(wire) /\ wire'[k] = wire[k]
        <4>1. k \in 0..Len(wire)
          BY <3>2
        <4>2. CASE r \notin unheard /\ truth'[r] = truth[r]
          <5>1. \/ wire[k].data = NoData \/ wire[k].data[r] = truth[r]
                \/ Owes(Scene, mutation, wire, v, k)
            BY <1>5, <2>1, <3>2, <4>2 DEF AnswerIs
          <5> QED
            BY <1>2, <3>2, <4>1, <4>2, <5>1
        <4> QED
          BY <1>3, <4>1, <4>2
      <3> QED
        BY <1>4, <3>1, <3>2
    <2> QED
      BY <1>0, <2>1 DEF AnswerIs, AnswerTo
  <1>7. PutIs(v, r)'
    <2>1. ASSUME NEW k \in 1..Len(wire'), wire'[k].kind = "done",
                 v \in DOMAIN wire'[k].puts \ Hits(mutation'[wire'[k].of].what)
          PROVE  wire'[k].puts[v][r] = truth'[r] \/ Owes(Scene, mutation', wire', v, k)
      <3>1. CASE k > Len(wire)
        BY <2>1, <3>1
      <3>2. CASE k \in 1..Len(wire) /\ wire'[k] = wire[k]
        <4>1. k \in 0..Len(wire)
          BY <3>2
        <4>2. CASE r \notin unheard /\ truth'[r] = truth[r]
          <5>0. mutation'[wire[k].of].what = mutation[wire[k].of].what
            BY <2>1, <3>2
          <5>1. wire[k].puts[v][r] = truth[r] \/ Owes(Scene, mutation, wire, v, k)
            BY <1>5, <2>1, <3>2, <4>2, <5>0 DEF PutIs
          <5> QED
            BY <1>2, <3>2, <4>1, <4>2, <5>1
        <4> QED
          BY <1>3, <4>1, <4>2
      <3> QED
        BY <1>4, <3>1, <3>2
    <2> QED
      BY <1>0, <2>1 DEF PutIs
  <1>8. ASSUME query'[v] = query[v] PROVE PageIs(v, r)'
    <2>0. 0 \in 0..Len(wire)
      BY <1>1
    <2>1. CASE Owes(Scene, mutation', wire', v, 0)
      BY <1>0, <2>1 DEF PageIs
    <2>2. CASE ~Owes(Scene, mutation', wire', v, 0)
      <3>1. r \notin unheard /\ truth'[r] = truth[r] /\ ~Owes(Scene, mutation, wire, v, 0)
        BY <1>2, <1>3, <2>0, <2>2
      <3>2. query[v].fetch = "none" =>
               query[v].failed \/ query[v].data[r] = truth[r] \/ Looks(query[v])
        BY <1>5, <3>1 DEF PageIs
      <3> QED
        BY <1>8, <3>1, <3>2 DEF PageIs, Looks
    <2> QED
      BY <2>1, <2>2
  <1> QED
    BY <1>6, <1>7, <1>8

-----------------------------------------------------------------------------
(***************************************************************************)
(* Opening and leaving a page.                                             *)
(***************************************************************************)

LEMMA WebTyped ==
    ASSUME WebTypes
    PROVE  /\ browsed \in DOMAIN Browsed
           /\ DOMAIN query = Scene.views /\ DOMAIN mutation = Scene.jobs
           /\ \A v \in Scene.views : v \in Queries /\ IsEntry(query[v], v)
           /\ \A j \in Scene.jobs : IsJob(Scene, mutation[j])
PROOF
  <1>1. browsed \in DOMAIN Browsed
    BY DEF WebTypes
  <1>2. Scene.views \subseteq Queries
    BY <1>1, SceneIs
  <1>3. DOMAIN query = Scene.views /\ DOMAIN mutation = Scene.jobs
    <2>1. query = [v \in Scene.views |-> query[v]] /\ mutation = [j \in Scene.jobs |-> mutation[j]]
      BY DEF WebTypes
    <2> DEFINE f == [v \in Scene.views |-> query[v]]
               h == [j \in Scene.jobs |-> mutation[j]]
    <2>2. DOMAIN f = Scene.views /\ DOMAIN h = Scene.jobs /\ query = f /\ mutation = h
      BY <2>1
    <2> HIDE DEF f, h
    <2> QED
      BY <2>2
  <1> QED
    BY <1>1, <1>2, <1>3 DEF WebTypes

\* One page changes.
LEMMA OneEntry ==
    ASSUME WebTypes, NEW v \in Scene.views, NEW p, IsEntry(p, v), query' = [query EXCEPT ![v] = p],
           UNCHANGED <<browsed, truth, connected>>, mutation' = mutation
    PROVE  /\ WebTypes' /\ query'[v] = p /\ \A u \in Scene.views : u # v => query'[u] = query[u]
PROOF
  <1>0. Scene' = Scene
    BY DEF Scene
  <1>1. DOMAIN query = Scene.views
    BY WebTyped
  <1>2. query' = [u \in Scene.views |-> IF u = v THEN p ELSE query[u]]
    BY <1>1
  <1>3. query'[v] = p /\ \A u \in Scene.views : u # v => query'[u] = query[u]
    BY <1>2
  <1>4. query' = [u \in Scene.views |-> query'[u]]
    BY <1>2
  <1>5. \A u \in Scene.views : IsEntry(query'[u], u)
    <2>1. \A u \in Scene.views : IsEntry(query[u], u)
      BY WebTyped
    <2> QED
      BY <1>3, <2>1
  <1>6. WebTypes'
    BY <1>0, <1>4, <1>5 DEF WebTypes
  <1> QED
    BY <1>3, <1>6

\* Messages and mutations stay, and so does what a page shows or that it looks.
LEMMA PageTurns ==
    ASSUME WebInv, ~Alone(Scene), UNCHANGED <<browsed, truth, mutation, wire, connected, unheard>>,
           NEW v \in Scene.views, WebTypes',
           \A u \in Scene.views : u # v => query'[u] = query[u],
           query[v].fetch = "served" => query'[v].fetch = "served",
           query'[v].data = query[v].data,
           query'[v].fetch = "none" =>
              /\ query[v].fetch = "none" /\ query'[v].failed = query[v].failed
              /\ Looks(query[v]) => Looks(query'[v]),
           ~Scene.ordered => (~query'[v].on => query'[v].fetch = "none")
    PROVE  WebInv'
PROOF
  <1>0. Scene' = Scene
    BY DEF Scene
  <1> USE DEF WebInv
  <1>1. WireInv'
    <2>1. \A u \in Scene.views : query[u].fetch = "served" => query'[u].fetch = "served"
      OBVIOUS
    <2>2. WireIs(Scene, query', mutation, wire)
      BY <2>1, WireOn DEF WireInv
    <2> QED
      BY <1>0, <2>2 DEF WireInv
  <1>2. LooseInv'
    BY <1>0 DEF LooseInv
  <1>3. ASSUME NEW u \in Scene.views, NEW r \in Shows[u] \ unheard
        PROVE  PageIs(u, r)' /\ AnswerIs(u, r)' /\ PutIs(u, r)'
    <2>1. PageIs(u, r) /\ AnswerIs(u, r) /\ PutIs(u, r)
      BY <1>3 DEF PagesInv
    <2>2. AnswerIs(u, r)' /\ PutIs(u, r)'
      BY <1>0, <2>1 DEF AnswerIs, PutIs, AnswerTo
    <2>3. CASE u # v
      <3>1. query'[u] = query[u]
        BY <2>3
      <3> QED
        BY <1>0, <2>1, <2>2, <3>1 DEF PageIs, Looks
    <2>4. CASE u = v
      BY <1>0, <2>1, <2>2, <2>4 DEF PageIs
    <2> QED
      BY <2>3, <2>4
  <1>4. PagesInv'
    BY <1>0, <1>3 DEF PagesInv
  <1>5. AloneInv'
    BY <1>0 DEF AloneInv
  <1> QED
    BY <1>1, <1>2, <1>4, <1>5

LEMMA NobodyLeaves ==
    ASSUME WebInv, NEW v \in Scene.views, ~query[v].on \/ query[v].fetch # "none"
    PROVE  ~Alone(Scene)
PROOF
  BY DEF WebInv, AloneInv

LEMMA MountKeeps ==
    ASSUME WebInv, NEW v \in DOMAIN query, Mount(v)
    PROVE  WebInv'
PROOF
  <1> DEFINE q == query[v]
             stale == q.data = NoData \/ q.invalid \/ q.aged \/ q.failed
             f == IF stale /\ q.fetch = "none" THEN "asked" ELSE q.fetch
             p == [q EXCEPT !.on = TRUE, !.fetch = f]
  <1>1. /\ v \in Scene.views /\ IsEntry(q, v) /\ WebTypes
    BY WebTyped DEF WebInv
  <1>2. ~q.on /\ query' = [query EXCEPT ![v] = p]
        /\ UNCHANGED <<browsed, truth, mutation, wire, connected, unheard>>
    BY DEF Mount
  <1>3. /\ IsEntry(p, v) /\ p.on = TRUE /\ p.data = q.data /\ p.failed = q.failed /\ p.fetch = f
        /\ p.invalid = q.invalid /\ p.aged = q.aged
    BY <1>1 DEF IsEntry
  <1> HIDE DEF p
  <1>4. WebTypes' /\ query'[v] = p /\ \A u \in Scene.views : u # v => query'[u] = query[u]
    BY <1>1, <1>2, <1>3, OneEntry
  <1>5. ~Alone(Scene)
    BY <1>1, <1>2, NobodyLeaves
  <1>6. q.fetch = "served" => p.fetch = "served"
    BY <1>3
  <1>7. p.fetch = "none" => q.fetch = "none" /\ (Looks(q) => Looks(p))
    BY <1>2, <1>3 DEF Looks
  <1> HIDE DEF f, stale
  <1> QED
    BY <1>1, <1>2, <1>3, <1>4, <1>5, <1>6, <1>7, PageTurns

LEMMA UnmountKeeps ==
    ASSUME WebInv, NEW v \in DOMAIN query, Unmount(v)
    PROVE  WebInv'
PROOF
  <1> DEFINE q == query[v]
             p == [q EXCEPT !.on = FALSE]
  <1>1. /\ v \in Scene.views /\ IsEntry(q, v) /\ WebTypes
    BY WebTyped DEF WebInv
  <1>2. /\ query' = [query EXCEPT ![v] = p] /\ (q.fetch = "none" \/ Scene.ordered)
        /\ UNCHANGED <<browsed, truth, mutation, wire, connected, unheard>>
    BY DEF Unmount
  <1>3. /\ IsEntry(p, v) /\ p.on = FALSE /\ p.data = q.data /\ p.failed = q.failed /\ p.fetch = q.fetch
        /\ p.invalid = q.invalid /\ p.aged = q.aged
    BY <1>1 DEF IsEntry
  <1> HIDE DEF p
  <1>4. WebTypes' /\ query'[v] = p /\ \A u \in Scene.views : u # v => query'[u] = query[u]
    BY <1>1, <1>2, <1>3, OneEntry
  <1>5. ~Alone(Scene)
    BY DEF Unmount, Alone
  <1>7. Looks(q) => Looks(p)
    BY <1>3 DEF Looks
  <1> QED
    BY <1>1, <1>2, <1>3, <1>4, <1>5, <1>7, PageTurns

LEMMA AgeKeeps ==
    ASSUME WebInv, NEW v \in DOMAIN query, Age(v)
    PROVE  WebInv'
PROOF
  <1> DEFINE q == query[v]
             p == [q EXCEPT !.aged = TRUE]
  <1>1. /\ v \in Scene.views /\ IsEntry(q, v) /\ WebTypes
    BY WebTyped DEF WebInv
  <1>2. /\ query' = [query EXCEPT ![v] = p] /\ ~q.on
        /\ UNCHANGED <<browsed, truth, mutation, wire, connected, unheard>>
    BY DEF Age
  <1>3. /\ IsEntry(p, v) /\ p.on = q.on /\ p.data = q.data /\ p.failed = q.failed /\ p.fetch = q.fetch
        /\ p.invalid = q.invalid /\ p.aged = TRUE
    BY <1>1 DEF IsEntry
  <1> HIDE DEF p
  <1>4. WebTypes' /\ query'[v] = p /\ \A u \in Scene.views : u # v => query'[u] = query[u]
    BY <1>1, <1>2, <1>3, OneEntry
  <1>5. ~Alone(Scene)
    BY <1>1, <1>2, NobodyLeaves
  <1>6. ~Scene.ordered => (~q.on => q.fetch = "none")
    BY <1>1 DEF WebInv, LooseInv
  <1>7. Looks(q) => Looks(p)
    BY <1>3 DEF Looks
  <1> QED
    BY <1>1, <1>2, <1>3, <1>4, <1>5, <1>6, <1>7, PageTurns

-----------------------------------------------------------------------------
(***************************************************************************)
(* Fetching.                                                               *)
(***************************************************************************)

LEMMA NoAnswerUnlessServed ==
    ASSUME WireInv, NEW v \in Scene.views, query[v].fetch # "served", NEW k \in 1..Len(wire)
    PROVE  ~AnswerTo(wire[k], v)
PROOF
  BY DEF WireInv, WireIs

LEMMA NoReplyUnlessServed ==
    ASSUME WireInv, NEW j \in Scene.jobs, mutation[j].pc # "served", NEW k \in 1..Len(wire)
    PROVE  ~ReplyTo(wire[k], j)
PROOF
  BY DEF WireInv, WireIs

LEMMA ServeFetchKeeps ==
    ASSUME WebInv, NEW v \in DOMAIN query, ServeFetch(v)
    PROVE  WebInv'
PROOF
  <1> DEFINE q == query[v]
             p == [q EXCEPT !.fetch = "served"]
  <1>1. /\ v \in Scene.views /\ v \in Queries /\ IsEntry(q, v) /\ WebTypes /\ WireInv /\ PagesInv
    BY WebTyped DEF WebInv
  <1>2. /\ q.fetch = "asked" /\ query' = [query EXCEPT ![v] = p]
        /\ UNCHANGED <<browsed, truth, mutation, connected, unheard>>
    BY DEF ServeFetch
  <1>3. PICK d \in {Fresh(v), NoData} : wire' = Append(wire, [kind |-> "fetch", of |-> v, data |-> d])
    BY DEF ServeFetch
  <1> DEFINE m == [kind |-> "fetch", of |-> v, data |-> d]
  <1>4. /\ IsEntry(p, v) /\ p.on = q.on /\ p.data = q.data /\ p.fetch = "served"
    BY <1>1 DEF IsEntry
  <1> HIDE DEF p
  <1>5. WebTypes' /\ query'[v] = p /\ \A u \in Scene.views : u # v => query'[u] = query[u]
    BY <1>1, <1>2, <1>4, OneEntry
  <1>6. ~Alone(Scene)
    BY <1>1, <1>2, NobodyLeaves
  <1>7. Scene' = Scene
    BY <1>2 DEF Scene
  <1>8. d \in {NoData} \cup Data(v)
    <2>1. truth \in [Resources -> Nat]
      BY <1>1 DEF WebTypes
    <2> QED
      BY <1>1, <2>1, DataIs DEF Fresh
  <1>9. m \in Message(Scene) /\ m.kind = "fetch" /\ m.of = v /\ m.data = d
    <2>1. d \in {NoData} \cup SomeData
      BY <1>1, <1>8 DEF SomeData
    <2> QED
      BY <1>1, <2>1 DEF Message
  <1>10. wire' = Append(wire, m)
    BY <1>3
  <1> HIDE DEF m
  <1>11. WireIs(Scene, query', mutation, Append(wire, m))
    <2>1. \A u \in Scene.views : query[u].fetch = "served" => query'[u].fetch = "served"
      BY <1>2, <1>4, <1>5
    <2>2. WireIs(Scene, query', mutation, wire)
      BY <1>1, <2>1, WireOn DEF WireInv
    <2>3. \A u \in Scene.views : AnswerTo(m, u) =>
                /\ query'[u].fetch = "served" /\ m.data \in {NoData} \cup Data(u)
                /\ \A k \in 1..Len(wire) : ~AnswerTo(wire[k], u)
      <3> SUFFICES ASSUME NEW u \in Scene.views, u = v
                   PROVE  /\ query'[u].fetch = "served" /\ m.data \in {NoData} \cup Data(u)
                          /\ \A k \in 1..Len(wire) : ~AnswerTo(wire[k], u)
        BY <1>9 DEF AnswerTo
      <3>1. query[u].fetch # "served"
        BY <1>2
      <3>2. \A k \in 1..Len(wire) : ~AnswerTo(wire[k], u)
        BY <1>1, <3>1, NoAnswerUnlessServed
      <3> QED
        BY <1>4, <1>5, <1>8, <1>9, <3>2
    <2>4. \A j : ~ReplyTo(m, j)
      BY <1>9 DEF ReplyTo
    <2> QED
      BY <1>9, <2>2, <2>3, <2>4, WireAppend
  <1>12. WireInv'
    BY <1>2, <1>7, <1>10, <1>11 DEF WireInv
  <1>13. LooseInv'
    <2>1. ~Scene.ordered => q.on
      BY <1>1, <1>2 DEF WebInv, LooseInv
    <2> QED
      BY <1>4, <1>5, <1>7, <2>1 DEF WebInv, LooseInv
  <1>14. ASSUME NEW u \in Scene.views, NEW r \in Shows[u] \ unheard
         PROVE  PageIs(u, r)' /\ AnswerIs(u, r)' /\ PutIs(u, r)'
    <2>0. wire \in Seq(Message(Scene)) /\ Len(wire) \in Nat
      BY <1>1, WireMessages DEF WireInv
    <2>1. /\ wire' \in Seq(Message(Scene)) /\ Extends(wire', wire)
          /\ Len(wire') = Len(wire) + 1 /\ wire'[Len(wire) + 1] = m
      BY <1>9, <1>10, <2>0, AppendExtends
    <2>2. \A n \in 1..Len(wire') : n > Len(wire) => wire'[n] = m
      <3>1. \A n \in 1..Len(wire') : n > Len(wire) => n = Len(wire) + 1
        BY <2>0, <2>1
      <3> QED
        BY <2>1, <3>1
    <2>3. /\ AnswerTo(m, u) => m.data = NoData \/ m.data[r] = truth'[r]
          /\ m.kind # "done"
      <3>1. u = v => d = NoData \/ d[r] = truth[r]
        BY DEF Fresh
      <3> QED
        BY <1>2, <1>9, <3>1 DEF AnswerTo
    <2>4. \A n \in 1..Len(wire') : n > Len(wire) =>
              /\ AnswerTo(wire'[n], u) => wire'[n].data = NoData \/ wire'[n].data[r] = truth'[r]
              /\ wire'[n].kind = "done" /\ u \in DOMAIN wire'[n].puts => wire'[n].puts[u][r] = truth'[r]
      BY <2>2, <2>3
    <2>5. AnswerIs(u, r)' /\ PutIs(u, r)' /\ (query'[u] = query[u] => PageIs(u, r)')
      BY <1>1, <1>2, <1>6, <2>1, <2>4, PagesMore
    <2>6. u = v => PageIs(u, r)'
      BY <1>4, <1>5 DEF PageIs
    <2> QED
      BY <1>5, <2>5, <2>6
  <1>15. PagesInv'
    BY <1>2, <1>7, <1>14 DEF PagesInv
  <1>16. AloneInv'
    BY <1>6, <1>7 DEF AloneInv
  <1> QED
    BY <1>5, <1>12, <1>13, <1>15, <1>16 DEF WebInv

LEMMA DeliverFetchKeeps ==
    ASSUME WebInv, NEW i \in DOMAIN wire, DeliverFetch(i)
    PROVE  WebInv'
PROOF
  <1> DEFINE v == wire[i].of
             d == wire[i].data
             q == query[v]
             full == [q EXCEPT !.data = d, !.invalid = FALSE, !.aged = FALSE, !.failed = FALSE]
             p == IF d = NoData THEN [[q EXCEPT !.fetch = "none"] EXCEPT !.failed = TRUE]
                                ELSE [full EXCEPT !.fetch = "none"]
  <1>0. /\ wire \in Seq(Message(Scene)) /\ Len(wire) \in Nat /\ i \in 1..Len(wire)
        /\ wire[i].kind = "fetch" /\ v \in Scene.views
        /\ \A k \in 1..Len(wire) : wire[k].kind \in {"done", "refused"} => wire[k].of \in Scene.jobs
    BY WireMessages DEF WebInv, WireInv, DeliverFetch
  <1>1. /\ v \in Queries /\ IsEntry(q, v) /\ WebTypes /\ WireInv /\ PagesInv /\ DOMAIN query = Scene.views
    BY <1>0, WebTyped DEF WebInv
  <1>2. /\ wire' = RemoveAt(wire, i) /\ UNCHANGED <<browsed, truth, mutation, connected, unheard>>
    BY DEF DeliverFetch
  <1>3. AnswerTo(wire[i], v)
    BY <1>0 DEF AnswerTo
  <1>4. /\ d \in {NoData} \cup Data(v)
        /\ \A l \in 1..Len(wire) : AnswerTo(wire[l], v) => l = i
    BY <1>0, <1>1, <1>3 DEF WireInv, WireIs
  <1>5. query' = [query EXCEPT ![v] = p]
    <2>1. CASE d = NoData
      <3>1. query' = [query EXCEPT ![v].fetch = "none", ![v].failed = TRUE]
        BY <2>1 DEF DeliverFetch
      <3>2. query' = [[query EXCEPT ![v].fetch = "none"] EXCEPT ![v].failed = TRUE]
        BY <3>1
      <3> QED
        BY <1>0, <1>1, <2>1, <3>2
    <2>2. CASE d # NoData
      <3>1. query' = [Filled(query, v, d) EXCEPT ![v].fetch = "none"]
        BY <2>2 DEF DeliverFetch
      <3>2. Filled(query, v, d) = [query EXCEPT ![v] = full]
        BY <1>0, <1>1 DEF Filled
      <3> HIDE DEF full
      <3>3. query' = [query EXCEPT ![v] = [full EXCEPT !.fetch = "none"]]
        BY <1>0, <1>1, <3>1, <3>2
      <3> QED
        BY <2>2, <3>3
    <2> QED
      BY <2>1, <2>2
  <1>6. /\ IsEntry(p, v) /\ p.on = q.on /\ p.fetch = "none"
        /\ d = NoData => p.data = q.data /\ p.failed
        /\ d # NoData => p.data = d
    <2>1. CASE d = NoData
      BY <1>1, <2>1 DEF IsEntry
    <2>2. CASE d # NoData
      BY <1>1, <1>4, <2>2 DEF IsEntry
    <2> QED
      BY <2>1, <2>2
  <1> HIDE DEF p
  <1>7. WebTypes' /\ query'[v] = p /\ \A u \in Scene.views : u # v => query'[u] = query[u]
    BY <1>0, <1>1, <1>2, <1>5, <1>6, OneEntry
  <1>8. ~Alone(Scene)
    <2>1. q.fetch = "served"
      BY <1>0, <1>1, <1>3 DEF WireInv, WireIs
    <2> QED
      BY <1>0, <2>1, NobodyLeaves
  <1>9. Scene' = Scene
    BY <1>2 DEF Scene
  <1> DEFINE K == 1..Len(wire) \ {i}
  <1>10. PICK g : wire' \in Seq(Message(Scene)) /\ IsLeft(g, wire', wire, K)
    BY <1>0, <1>2, RemovedIs
  <1>11. K \in SUBSET (1..Len(wire)) /\ \A k \in 1..Len(wire) : k \in K <=> k # i
    OBVIOUS
  <1> HIDE DEF K
  <1>12. WireInv'
    <2>1. \A k \in K : \A u \in Scene.views : AnswerTo(wire[k], u) => query'[u].fetch = query[u].fetch
      <3> SUFFICES ASSUME NEW k \in K, AnswerTo(wire[k], v) PROVE FALSE
        BY <1>7
      <3> QED
        BY <1>4, <1>11
    <2>2. WireIs(Scene, query', mutation, wire')
      BY <1>1, <1>10, <1>11, <2>1, WireLeft DEF WireInv
    <2> QED
      BY <1>2, <1>9, <2>2 DEF WireInv
  <1>13. LooseInv'
    <2>1. d \in Data(v) \/ p.data = q.data
      BY <1>4, <1>6
    <2>2. d \in Data(v) => d # NoData
      <3>1. truth \in [Resources -> Nat]
        BY <1>1 DEF WebTypes
      <3> QED
        BY <1>1, <3>1, DataIs
    <2> QED
      BY <1>6, <1>7, <1>9, <2>1, <2>2 DEF WebInv, LooseInv
  <1>14. ASSUME NEW u \in Scene.views, NEW r \in Shows[u] \ unheard
         PROVE  PageIs(u, r)' /\ AnswerIs(u, r)' /\ PutIs(u, r)'
    <2>1. \A n \in 1..Len(wire) : Brings(mutation, wire[n], u) => n \in K
      BY <1>0, <1>11 DEF Brings
    <2>2. AnswerIs(u, r)' /\ PutIs(u, r)'
      BY <1>1, <1>2, <1>8, <1>10, <1>11, <2>1, PagesKept
    <2>3. ASSUME NEW l \in 0..Len(wire), Owes(Scene, mutation, wire, u, l)
          PROVE  Owes(Scene, mutation, wire', u, 0)
      <3>1. CASE WillCome(Scene, mutation, u)
        BY <3>1 DEF Owes
      <3>2. ASSUME NEW n \in 1..Len(wire), Brings(mutation, wire[n], u)
            PROVE  Owes(Scene, mutation, wire', u, 0)
        <4>1. PICK k \in 1..Len(wire') : g[k] = n
          BY <1>10, <2>1, <3>2 DEF IsLeft
        <4>2. wire'[k] = wire[n] /\ k > 0
          BY <1>10, <4>1 DEF IsLeft
        <4> QED
          BY <3>2, <4>2 DEF Owes
      <3> QED
        BY <2>3, <3>1, <3>2 DEF Owes
    <2>4. PageIs(u, r) /\ AnswerIs(u, r)
      BY <1>1, <1>8 DEF PagesInv
    <2>5. CASE u # v
      <3>1. 0 \in 0..Len(wire) /\ query'[u] = query[u]
        BY <1>0, <1>7, <2>5
      <3>2. query[u].fetch = "none" =>
               \/ query[u].failed \/ query[u].data[r] = truth[r] \/ Looks(query[u])
               \/ Owes(Scene, mutation, wire', u, 0)
        BY <2>3, <2>4, <3>1 DEF PageIs
      <3>3. query'[u].fetch = "none" =>
               \/ query'[u].failed \/ query'[u].data[r] = truth'[r] \/ Looks(query'[u])
               \/ Owes(Scene', mutation', wire', u, 0)
        BY <1>2, <1>9, <3>1, <3>2
      <3> QED
        BY <2>2, <3>3 DEF PageIs, Looks
    <2>6. CASE u = v
      <3>1. d = NoData \/ d[r] = truth[r] \/ Owes(Scene, mutation, wire, v, i)
        BY <1>0, <1>3, <2>4, <2>6 DEF AnswerIs
      <3>2. i \in 0..Len(wire)
        BY <1>0
      <3>3. p.failed \/ p.data[r] = truth[r] \/ Owes(Scene, mutation, wire', u, 0)
        BY <1>6, <2>3, <2>6, <3>1, <3>2
      <3>4. \/ query'[u].failed \/ query'[u].data[r] = truth'[r]
            \/ Owes(Scene', mutation', wire', u, 0)
        BY <1>2, <1>7, <1>9, <2>6, <3>3
      <3> QED
        BY <2>2, <3>4 DEF PageIs
    <2> QED
      BY <2>2, <2>5, <2>6
  <1>15. PagesInv'
    BY <1>2, <1>9, <1>14 DEF PagesInv
  <1>16. AloneInv'
    BY <1>8, <1>9 DEF AloneInv
  <1> QED
    BY <1>7, <1>12, <1>13, <1>15, <1>16 DEF WebInv

-----------------------------------------------------------------------------
(***************************************************************************)
(* Asking for a change.                                                    *)
(***************************************************************************)

LEMMA OnePage ==
    ASSUME WebTypes, NEW v \in Scene.views, NEW p, IsEntry(p, v), query' = [query EXCEPT ![v] = p]
    PROVE  /\ query' = [u \in Scene.views |-> query'[u]]
           /\ \A u \in Scene.views : IsEntry(query'[u], u)
           /\ query'[v] = p /\ \A u \in Scene.views : u # v => query'[u] = query[u]
PROOF
  <1>1. DOMAIN query = Scene.views /\ \A u \in Scene.views : IsEntry(query[u], u)
    BY WebTyped
  <1>2. query' = [u \in Scene.views |-> IF u = v THEN p ELSE query[u]]
    BY <1>1
  <1>3. query'[v] = p /\ \A u \in Scene.views : u # v => query'[u] = query[u]
    BY <1>2
  <1> QED
    BY <1>1, <1>2, <1>3

LEMMA OneJob ==
    ASSUME WebTypes, NEW j \in Scene.jobs, NEW m, IsJob(Scene, m), mutation' = [mutation EXCEPT ![j] = m]
    PROVE  /\ mutation' = [i \in Scene.jobs |-> mutation'[i]]
           /\ \A i \in Scene.jobs : IsJob(Scene, mutation'[i])
           /\ mutation'[j] = m /\ \A i \in Scene.jobs : i # j => mutation'[i] = mutation[i]
PROOF
  <1>1. DOMAIN mutation = Scene.jobs /\ \A i \in Scene.jobs : IsJob(Scene, mutation[i])
    BY WebTyped
  <1>2. mutation' = [i \in Scene.jobs |-> IF i = j THEN m ELSE mutation[i]]
    BY <1>1
  <1>3. mutation'[j] = m /\ \A i \in Scene.jobs : i # j => mutation'[i] = mutation[i]
    BY <1>2
  <1> QED
    BY <1>1, <1>2, <1>3

\* What a triage drops.
LEMMA ProofPages ==
    \A v \in Queries : IsPrefix(Key.backlog, Key[v]) <=> v \in {"backlog", "detail"}
PROOF
  <1>1. ASSUME NEW v \in Queries, IsPrefix(Key.backlog, Key[v]) PROVE v \in {"backlog", "detail"}
    <2> DEFINE s == Key["backlog"]
               t == Key[v]
    <2>1. s = <<"requirements">> /\ Len(s) = 1 /\ s[1] = "requirements"
      BY DEF Key
    <2>2. SubSeq(s, 1, Len(s)) = SubSeq(t, 1, Len(s))
      BY <1>1 DEF IsPrefix
    <2> HIDE DEF s, t
    <2>3. SubSeq(s, 1, 1) = SubSeq(t, 1, 1)
      BY <2>1, <2>2
    <2>4. SubSeq(s, 1, 1) = [i \in 1..1 |-> s[i]] /\ SubSeq(t, 1, 1) = [i \in 1..1 |-> t[i]]
      OBVIOUS
    <2>5. [i \in 1..1 |-> s[i]] = [i \in 1..1 |-> t[i]]
      BY <2>3, <2>4
    <2>6. [i \in 1..1 |-> s[i]][1] = s[1] /\ [i \in 1..1 |-> t[i]][1] = t[1]
      OBVIOUS
    <2>7. t[1] = "requirements"
      BY <2>1, <2>5, <2>6
    <2>8. Key[v][1] = "requirements"
      BY <2>7 DEF t
    <2>9. /\ Key["artifact"] = <<"artifacts", "uuid">>
          /\ Key["listing"] = <<"projects", "slug", "collections", "prefix", "artifacts">>
          /\ Key["queue"] = <<"reviews", "queue">> /\ Key["report"] = <<"reports", "kind", "system">>
          /\ Key["config"] = <<"reports", "kind", "config">>
          /\ Key["pending"] = <<"projects", "slug", "suggestions", "links", "pending">>
          /\ Key["declined"] = <<"projects", "slug", "suggestions", "links", "declined">>
          /\ Key["providers"] = <<"llm", "providers">>
      BY DEF Key
    <2>10. /\ Key["artifact"][1] = "artifacts" /\ Key["listing"][1] = "projects"
           /\ Key["queue"][1] = "reviews" /\ Key["report"][1] = "reports" /\ Key["config"][1] = "reports"
           /\ Key["pending"][1] = "projects" /\ Key["declined"][1] = "projects"
           /\ Key["providers"][1] = "llm"
      BY <2>9
    <2> QED
      BY <2>8, <2>10, ShowsIs
  <1> QED
    BY <1>1, PrefixIs

\* A job that has nothing under way starts.
LEMMA Starts ==
    ASSUME WebInv, NEW j \in DOMAIN mutation, NEW what \in Scene.mutations, NEW undo,
           mutation[j] = NoMutation,
           mutation' = [mutation EXCEPT ![j] = [what |-> what, pc |-> "sent",
                            left |-> IF what = "reverify" THEN 2 ELSE 1, undo |-> undo]]
    PROVE  /\ mutation' = [i \in Scene.jobs |-> mutation'[i]]
           /\ \A i \in Scene.jobs : IsJob(Scene, mutation'[i])
           /\ j \in Scene.jobs /\ mutation[j].pc = "idle"
           /\ mutation'[j].pc = "sent" /\ mutation'[j].what = what /\ mutation'[j].undo = undo
           /\ \A i \in Scene.jobs : i # j => mutation'[i] = mutation[i]
           /\ \A i \in Scene.jobs : mutation[i].pc = "served" =>
                mutation'[i].pc = "served" /\ mutation'[i].what = mutation[i].what
           /\ \A v : WillCome(Scene, mutation, v) => WillCome(Scene, mutation', v)
           /\ \A i \in 1..Len(wire) : wire[i].kind = "done" =>
                mutation'[wire[i].of].what = mutation[wire[i].of].what
PROOF
  <1> DEFINE m == [what |-> what, pc |-> "sent", left |-> IF what = "reverify" THEN 2 ELSE 1, undo |-> undo]
  <1>1. WebTypes /\ WireInv /\ j \in Scene.jobs /\ DOMAIN mutation = Scene.jobs
    BY WebTyped DEF WebInv
  <1>2. mutation[j].pc = "idle"
    <2>1. NoMutation.pc = "idle"
      BY DEF NoMutation
    <2> QED
      BY <2>1
  <1>3. IsJob(Scene, m) /\ m.pc = "sent" /\ m.what = what /\ m.undo = undo
    BY DEF IsJob
  <1> HIDE DEF m
  <1>4. /\ mutation' = [i \in Scene.jobs |-> mutation'[i]]
        /\ \A i \in Scene.jobs : IsJob(Scene, mutation'[i])
        /\ mutation'[j] = m /\ \A i \in Scene.jobs : i # j => mutation'[i] = mutation[i]
    BY <1>1, <1>3, OneJob DEF m
  <1>5. \A i \in Scene.jobs : mutation[i].pc = "served" =>
            mutation'[i].pc = "served" /\ mutation'[i].what = mutation[i].what
    BY <1>2, <1>4
  <1>6. \A v : WillCome(Scene, mutation, v) => WillCome(Scene, mutation', v)
    BY <1>2, <1>4 DEF WillCome
  <1>7. ASSUME NEW i \in 1..Len(wire), wire[i].kind = "done"
        PROVE  mutation'[wire[i].of].what = mutation[wire[i].of].what
    <2>1. wire[i].of \in Scene.jobs
      BY <1>1, <1>7, WireMessages DEF WireInv
    <2>2. ReplyTo(wire[i], wire[i].of)
      BY <1>7 DEF ReplyTo
    <2>3. mutation[wire[i].of].pc = "served"
      BY <1>1, <2>1, <2>2, NoReplyUnlessServed
    <2> QED
      BY <1>5, <2>1, <2>3
  <1> QED
    BY <1>1, <1>2, <1>3, <1>4, <1>5, <1>6, <1>7

\* Where a triage or a seed is alone, it starts on a page that shows the truth.
LEMMA AloneStarts ==
    ASSUME WebInv, Alone(Scene), NEW j \in Scene.jobs, mutation[j].pc \in {"idle", "sent"}
    PROVE  /\ Len(wire) = 0 /\ (\A i \in Scene.jobs : i = j) /\ unheard = {}
           /\ mutation[j].pc # "sent" /\ "backlog" \in Scene.views =>
                query["backlog"].data = Heard("backlog")
PROOF
  <1>1. \A i \in Scene.jobs : i = j
    BY DEF Alone
  <1>2. WireInv /\ AloneInv
    BY DEF WebInv
  <1>3. /\ unheard = {}
        /\ mutation[j].pc # "sent" /\ "backlog" \in Scene.views =>
              query["backlog"].data = Heard("backlog")
    BY <1>1, <1>2 DEF AloneInv
  <1>4. ASSUME NEW k \in 1..Len(wire) PROVE FALSE
    <2>1. PICK i \in Scene.jobs : ReplyTo(wire[k], i)
      BY <1>2 DEF AloneInv
    <2>2. mutation[i].pc # "served"
      BY <1>1
    <2> QED
      BY <1>2, <2>1, <2>2, NoReplyUnlessServed
  <1>5. Len(wire) \in Nat
    BY <1>2, WireMessages DEF WireInv
  <1>6. Len(wire) = 0
    <2>1. Len(wire) # 0 => 1 \in 1..Len(wire)
      BY <1>5
    <2> QED
      BY <1>4, <2>1
  <1> QED
    BY <1>1, <1>3, <1>6

LEMMA MutateKeeps ==
    ASSUME WebInv, PagesAreOrderly, NEW j \in DOMAIN mutation, NEW what \in Scene.mutations, what # "triage",
           mutation[j] = NoMutation,
           mutation' = [mutation EXCEPT ![j] = [what |-> what, pc |-> "sent",
                            left |-> IF what = "reverify" THEN 2 ELSE 1, undo |-> NoData]],
           UNCHANGED <<query, wire, browsed, truth, connected, unheard>>
    PROVE  WebInv'
PROOF
  <1>0. Scene' = Scene
    BY DEF Scene
  <1>1. WebTypes /\ WireInv /\ PagesInv
    BY DEF WebInv
  <1>2. /\ mutation' = [i \in Scene.jobs |-> mutation'[i]]
        /\ \A i \in Scene.jobs : IsJob(Scene, mutation'[i])
        /\ j \in Scene.jobs /\ mutation[j].pc = "idle"
        /\ mutation'[j].pc = "sent" /\ mutation'[j].what = what
        /\ \A i \in Scene.jobs : i # j => mutation'[i] = mutation[i]
        /\ \A i \in Scene.jobs : mutation[i].pc = "served" =>
                mutation'[i].pc = "served" /\ mutation'[i].what = mutation[i].what
        /\ \A v : WillCome(Scene, mutation, v) => WillCome(Scene, mutation', v)
        /\ \A i \in 1..Len(wire) : wire[i].kind = "done" =>
                mutation'[wire[i].of].what = mutation[wire[i].of].what
    BY Starts
  <1>3. WebTypes'
    BY <1>0, <1>1, <1>2 DEF WebTypes
  <1>4. WireInv'
    <2>1. WireIs(Scene, query, mutation', wire)
      BY <1>1, <1>2, WireOn DEF WireInv
    <2> QED
      BY <1>0, <2>1 DEF WireInv
  <1>5. LooseInv'
    BY <1>0 DEF WebInv, LooseInv
  <1>6. ASSUME ~Alone(Scene), NEW u \in Scene.views, NEW r \in Shows[u] \ unheard
        PROVE  PageIs(u, r)' /\ AnswerIs(u, r)' /\ PutIs(u, r)'
    <2>1. wire \in Seq(Message(Scene)) /\ Len(wire) \in Nat
      BY <1>1, WireMessages DEF WireInv
    <2>2. wire' \in Seq(Message(Scene)) /\ Extends(wire', wire)
      BY <2>1 DEF Extends
    <2>3. \A n \in 1..Len(wire') : ~(n > Len(wire))
      BY <2>1
    <2> QED
      BY <1>1, <1>2, <1>6, <2>2, <2>3, PagesMore
  <1>7. PagesInv'
    BY <1>0, <1>6 DEF PagesInv
  <1>8. ASSUME Alone(Scene) PROVE AloneInv'
    <2>1. /\ Len(wire) = 0 /\ (\A i \in Scene.jobs : i = j) /\ unheard = {}
          /\ "backlog" \in Scene.views => query["backlog"].data = Heard("backlog")
      BY <1>2, <1>8, AloneStarts
    <2>2. \A v \in Scene.views : /\ query[v].on /\ ~query[v].failed /\ query[v].fetch = "none"
                                 /\ v # "backlog" => query[v].data = Heard(v)
      BY <1>8 DEF WebInv, AloneInv
    <2>3. \A v : Heard(v)' = Heard(v)
      BY DEF Heard
    <2>4. \A i \in Scene.jobs : mutation'[i].what = what
      BY <1>2, <2>1
    <2>5. \A k \in 1..Len(wire') : FALSE
      BY <2>1
    <2> QED
      BY <1>0, <2>1, <2>2, <2>3, <2>4, <2>5 DEF AloneInv
  <1>9. AloneInv'
    BY <1>0, <1>8 DEF AloneInv
  <1> QED
    BY <1>3, <1>4, <1>5, <1>7, <1>9 DEF WebInv

LEMMA TriageKeeps ==
    ASSUME WebInv, PagesAreOrderly, NEW j \in DOMAIN mutation, "triage" \in Scene.mutations,
           mutation[j] = NoMutation, query.backlog.on, query.backlog.data # NoData,
           mutation' = [mutation EXCEPT ![j] = [what |-> "triage", pc |-> "sent",
                            left |-> IF "triage" = "reverify" THEN 2 ELSE 1, undo |-> query.backlog.data]],
           Optimistic, UNCHANGED <<browsed, truth, connected, unheard>>
    PROVE  WebInv'
PROOF
  <1> DEFINE b == "backlog"
             q == query["backlog"]
             d == [q.data EXCEPT !.triage = Guess]
             dropped == Under({Key.backlog})
             idle == [q EXCEPT !.fetch = "none"]
             p == [idle EXCEPT !.data = d, !.invalid = FALSE, !.aged = FALSE, !.failed = FALSE]
             K == {k \in 1..Len(wire) : ~Dropped(wire[k], dropped)}
  <1>0. Scene' = Scene
    BY DEF Scene
  <1>1. /\ WebTypes /\ WireInv /\ PagesInv /\ browsed \in DOMAIN Browsed /\ DOMAIN query = Scene.views
        /\ \A v \in Scene.views : v \in Queries
    BY WebTyped DEF WebInv
  <1>2. b \in Scene.views /\ "detail" \notin Scene.views /\ b \in Queries /\ IsEntry(q, b)
    BY <1>1, SceneIs, SceneIsOrderly, WebTyped
  <1>3. dropped = {b}
    <2>1. \A v \in Scene.views : IsPrefix(Key.backlog, Key[v]) <=> v = b
      BY <1>1, <1>2, ProofPages
    <2> QED
      BY <1>1, <1>2, <2>1 DEF Under
  <1>4. query' = [query EXCEPT !["backlog"] = p]
    <2> DEFINE r == [v \in DOMAIN query |-> IF v \in dropped THEN [query[v] EXCEPT !.fetch = "none"]
                                                            ELSE query[v]]
    <2>1. query' = Filled(r, "backlog", d)
      BY DEF Optimistic
    <2>2. r = [query EXCEPT !["backlog"] = idle]
      BY <1>1, <1>2, <1>3
    <2>3. DOMAIN r = Scene.views /\ r["backlog"] = idle
      BY <1>1, <1>2, <2>2
    <2> HIDE DEF r, idle
    <2>4. query' = [r EXCEPT !["backlog"] = p]
      BY <1>2, <2>1, <2>3 DEF Filled
    <2> HIDE DEF p
    <2> QED
      BY <1>1, <1>2, <2>2, <2>4
  <1>5. d \in Data("backlog")
    <2>1. q.data \in [Shows["backlog"] -> Nat]
      BY <1>2 DEF IsEntry, Data
    <2>2. "triage" \in Shows["backlog"] /\ Guess \in Nat
      BY ShowsIs, WebAssumption DEF Guess, WebAssumption
    <2> QED
      BY <2>1, <2>2 DEF Data
  <1> HIDE DEF d
  <1>6. IsEntry(p, b) /\ p.on = q.on /\ p.fetch = "none" /\ p.data = d /\ ~p.failed
    BY <1>2, <1>5 DEF IsEntry
  <1> HIDE DEF p
  <1>7. /\ query' = [v \in Scene.views |-> query'[v]]
        /\ \A v \in Scene.views : IsEntry(query'[v], v)
        /\ query'["backlog"] = p /\ \A v \in Scene.views : v # "backlog" => query'[v] = query[v]
    BY <1>1, <1>2, <1>4, <1>6, OnePage
  <1>8. /\ mutation' = [i \in Scene.jobs |-> mutation'[i]]
        /\ \A i \in Scene.jobs : IsJob(Scene, mutation'[i])
        /\ j \in Scene.jobs /\ mutation[j].pc = "idle"
        /\ mutation'[j].pc = "sent" /\ mutation'[j].what = "triage" /\ mutation'[j].undo = q.data
        /\ \A i \in Scene.jobs : i # j => mutation'[i] = mutation[i]
        /\ \A i \in Scene.jobs : mutation[i].pc = "served" =>
                mutation'[i].pc = "served" /\ mutation'[i].what = mutation[i].what
        /\ \A v : WillCome(Scene, mutation, v) => WillCome(Scene, mutation', v)
        /\ \A i \in 1..Len(wire) : wire[i].kind = "done" =>
                mutation'[wire[i].of].what = mutation[wire[i].of].what
    BY Starts
  <1>9. WebTypes'
    BY <1>0, <1>1, <1>7, <1>8 DEF WebTypes
  <1>10. /\ wire \in Seq(Message(Scene)) /\ Len(wire) \in Nat
         /\ \A k \in 1..Len(wire) : wire[k].kind \in {"done", "refused"} => wire[k].of \in Scene.jobs
    BY <1>1, WireMessages DEF WireInv
  <1>11. PICK g : wire' \in Seq(Message(Scene)) /\ IsLeft(g, wire', wire, K)
    <2>1. wire' = Without(wire, dropped)
      BY DEF Optimistic
    <2> HIDE DEF dropped
    <2> QED
      BY <1>10, <2>1, WithoutIs
  <1>12. /\ K \in SUBSET (1..Len(wire))
         /\ \A k \in 1..Len(wire) : k \in K <=> ~AnswerTo(wire[k], "backlog")
    <2>1. \A m : Dropped(m, dropped) <=> AnswerTo(m, "backlog")
      BY <1>3 DEF Dropped, AnswerTo
    <2> QED
      BY <2>1
  <1> HIDE DEF K, dropped
  <1>13. WireInv'
    <2>1. \A k \in K : \A v \in Scene.views : AnswerTo(wire[k], v) => query'[v].fetch = query[v].fetch
      BY <1>7, <1>12
    <2>2. WireIs(Scene, query', mutation, wire')
      <3>1. WireIs(Scene, query, mutation, wire)
        BY <1>1 DEF WireInv
      <3>2. K \in SUBSET (1..Len(wire))
        BY <1>12
      <3> QED
        BY <1>11, <2>1, <3>1, <3>2, WireLeft
    <2>3. WireIs(Scene, query', mutation', wire')
      BY <1>8, <2>2, WireOn
    <2> QED
      BY <1>0, <2>3 DEF WireInv
  <1>14. LooseInv'
    <2>1. d # NoData
      <3>1. truth \in [Resources -> Nat]
        BY <1>1 DEF WebTypes
      <3> QED
        BY <1>2, <1>5, <3>1, DataIs
    <2> QED
      BY <1>0, <1>6, <1>7, <2>1 DEF WebInv, LooseInv
  <1>15. ASSUME ~Alone(Scene), NEW u \in Scene.views, NEW r \in Shows[u] \ unheard
         PROVE  PageIs(u, r)' /\ AnswerIs(u, r)' /\ PutIs(u, r)'
    <2>1. \A n \in 1..Len(wire) : Brings(mutation, wire[n], u) => n \in K
      BY <1>12 DEF Brings, AnswerTo
    <2>2. AnswerIs(u, r)' /\ PutIs(u, r)'
      BY <1>1, <1>8, <1>11, <1>12, <1>15, <2>1, PagesKept
    <2>3. CASE u = "backlog"
      <3>1. WillCome(Scene, mutation', "backlog")
        BY <1>8 DEF WillCome
      <3>2. Owes(Scene', mutation', wire', u, 0)
        BY <1>0, <2>3, <3>1 DEF Owes
      <3> QED
        BY <2>2, <3>2 DEF PageIs
    <2>4. CASE u # "backlog"
      <3>1. query'[u] = query[u] /\ PageIs(u, r)
        BY <1>1, <1>7, <1>15, <2>4 DEF PagesInv
      <3>2. ASSUME Owes(Scene, mutation, wire, u, 0) PROVE Owes(Scene, mutation', wire', u, 0)
        <4>1. \A n \in K : Brings(mutation, wire[n], u) => Brings(mutation', wire[n], u)
          <5> TAKE n \in K
          <5>1. wire[n].kind = "done" => mutation'[wire[n].of].what = mutation[wire[n].of].what
            BY <1>8, <1>12
          <5> QED
            BY <5>1, BringsOn
        <4> DEFINE z == 0
        <4>2. (z = 0 /\ z = 0) \/ (z \in 1..Len(wire') /\ z = g[z])
          OBVIOUS
        <4>3. Owes(Scene, mutation, wire, u, z)
          BY <3>2
        <4> HIDE DEF z
        <4>4. /\ WillCome(Scene, mutation, u) => WillCome(Scene, mutation', u)
              /\ wire \in Seq(Message(Scene)) /\ K \in SUBSET (1..Len(wire))
              /\ \A n \in 1..Len(wire) : (Scene.ordered => n > z) /\ Brings(mutation, wire[n], u) => n \in K
          BY <1>8, <1>10, <1>12, <2>1
        <4>5. Owes(Scene, mutation', wire', u, z)
          BY <1>11, <4>1, <4>2, <4>3, <4>4, OwesKept
        <4> QED
          BY <4>5 DEF z
      <3>3. query'[u].fetch = "none" =>
               \/ query'[u].failed \/ query'[u].data[r] = truth'[r] \/ Looks(query'[u])
               \/ Owes(Scene', mutation', wire', u, 0)
        BY <1>0, <3>1, <3>2 DEF PageIs
      <3> QED
        BY <2>2, <3>3 DEF PageIs, Looks
    <2> QED
      BY <2>3, <2>4
  <1>16. PagesInv'
    BY <1>0, <1>15 DEF PagesInv
  <1>17. ASSUME Alone(Scene) PROVE AloneInv'
    <2>1. /\ Len(wire) = 0 /\ (\A i \in Scene.jobs : i = j) /\ unheard = {}
          /\ "backlog" \in Scene.views => query["backlog"].data = Heard("backlog")
      BY <1>8, <1>17, AloneStarts
    <2>2. \A v \in Scene.views : /\ query[v].on /\ ~query[v].failed /\ query[v].fetch = "none"
                                 /\ v # "backlog" => query[v].data = Heard(v)
      BY <1>17 DEF WebInv, AloneInv
    <2>3. \A v : Heard(v)' = Heard(v)
      BY DEF Heard
    <2>4. /\ \A i \in Scene.jobs : mutation'[i].what = "triage" /\ mutation'[i].undo = Heard("backlog")
          /\ \E i \in Scene.jobs : mutation'[i].pc = "sent"
      BY <1>2, <1>8, <2>1
    <2>5. \A k \in 1..Len(wire') : FALSE
      <3>1. \A k \in 1..Len(wire') : g[k] \in 1..Len(wire)
        BY <1>11, <1>12 DEF IsLeft
      <3> QED
        BY <2>1, <3>1
    <2>6. \A v \in Scene.views : /\ query'[v].on /\ ~query'[v].failed /\ query'[v].fetch = "none"
                                 /\ v # "backlog" => query'[v].data = Heard(v)
      <3> TAKE v \in Scene.views
      <3>1. CASE v = "backlog"
        BY <1>2, <1>6, <1>7, <2>2, <3>1
      <3>2. CASE v # "backlog"
        BY <1>7, <2>2, <3>2
      <3> QED
        BY <3>1, <3>2
    <2> QED
      BY <1>0, <2>1, <2>3, <2>4, <2>5, <2>6 DEF AloneInv
  <1>18. AloneInv'
    BY <1>0, <1>17 DEF AloneInv
  <1> QED
    BY <1>9, <1>13, <1>14, <1>16, <1>18 DEF WebInv

LEMMA MutationKeeps ==
    ASSUME WebInv, PagesAreOrderly, NEW j \in DOMAIN mutation, Mutate(j)
    PROVE  WebInv'
PROOF
  <1>1. PICK what \in Scene.mutations :
            /\ mutation[j] = NoMutation
            /\ what = "triage" => query.backlog.on /\ query.backlog.data # NoData
            /\ mutation' = [mutation EXCEPT ![j] =
                    [what |-> what, pc |-> "sent", left |-> IF what = "reverify" THEN 2 ELSE 1,
                     undo |-> IF what = "triage" THEN query.backlog.data ELSE NoData]]
            /\ IF what = "triage" THEN Optimistic ELSE UNCHANGED <<query, wire>>
            /\ UNCHANGED <<browsed, truth, connected, unheard>>
    BY DEF Mutate
  <1>2. CASE what = "triage"
    <2>1. mutation' = [mutation EXCEPT ![j] =
                    [what |-> "triage", pc |-> "sent", left |-> IF "triage" = "reverify" THEN 2 ELSE 1,
                     undo |-> query.backlog.data]]
      BY <1>1, <1>2
    <2> QED
      BY <1>1, <1>2, <2>1, TriageKeeps
  <1>3. CASE what # "triage"
    <2>1. mutation' = [mutation EXCEPT ![j] =
                    [what |-> what, pc |-> "sent", left |-> IF what = "reverify" THEN 2 ELSE 1,
                     undo |-> NoData]]
      BY <1>1, <1>3
    <2>2. UNCHANGED <<query, wire, browsed, truth, connected, unheard>>
      BY <1>1, <1>3
    <2> QED
      BY <1>1, <1>3, <2>1, <2>2, MutateKeeps
  <1> QED
    BY <1>2, <1>3

-----------------------------------------------------------------------------
(***************************************************************************)
(* Doing it, or refusing to.                                               *)
(***************************************************************************)

LEMMA NothingPut == DOMAIN NoData = {}
PROOF
  <1>1. NoData = <<>> /\ Len(NoData) = 0 /\ DOMAIN NoData = 1..0 /\ 1..0 = {}
    BY EmptySeq DEF NoData
  <1> QED
    BY <1>1

\* One more request of a job is dealt with.
LEMMA Dealt ==
    ASSUME WebTypes, NEW j \in DOMAIN mutation, mutation[j].pc = "sent", mutation[j].left > 0,
           NEW pc, pc = IF mutation[j].left = 1 THEN "served" ELSE "sent",
           mutation' = [mutation EXCEPT ![j].left = mutation[j].left - 1, ![j].pc = pc]
    PROVE  /\ mutation' = [i \in Scene.jobs |-> mutation'[i]]
           /\ \A i \in Scene.jobs : IsJob(Scene, mutation'[i])
           /\ j \in Scene.jobs /\ mutation[j].what \in Scene.mutations
           /\ mutation'[j].pc = pc /\ mutation'[j].what = mutation[j].what
           /\ mutation'[j].undo = mutation[j].undo
           /\ \A i \in Scene.jobs : i # j => mutation'[i] = mutation[i]
           /\ mutation[j].left \in {1, 2} /\ (mutation[j].what # "reverify" => mutation[j].left = 1)
PROOF
  <1> DEFINE m == mutation[j]
             n == [[m EXCEPT !.left = m.left - 1] EXCEPT !.pc = pc]
  <1>1. j \in Scene.jobs /\ DOMAIN mutation = Scene.jobs /\ IsJob(Scene, m)
    BY WebTyped
  <1>2. mutation' = [mutation EXCEPT ![j] = n]
    <2>1. mutation' = [[mutation EXCEPT ![j].left = m.left - 1] EXCEPT ![j].pc = pc]
      OBVIOUS
    <2> QED
      BY <1>1, <2>1
  <1>3. /\ m.left \in {1, 2} /\ (m.what # "reverify" => m.left = 1) /\ m.what \in Scene.mutations
        /\ DOMAIN m = {"what", "pc", "undo", "left"}
    BY <1>1 DEF IsJob
  <1>4. /\ DOMAIN n = {"what", "pc", "undo", "left"} /\ n.pc = pc /\ n.what = m.what /\ n.undo = m.undo
        /\ n.left = m.left - 1
    BY <1>3
  <1> HIDE DEF n
  <1>5. IsJob(Scene, n)
    BY <1>3, <1>4 DEF IsJob
  <1>6. /\ mutation' = [i \in Scene.jobs |-> mutation'[i]]
        /\ \A i \in Scene.jobs : IsJob(Scene, mutation'[i])
        /\ mutation'[j] = n /\ \A i \in Scene.jobs : i # j => mutation'[i] = mutation[i]
    BY <1>1, <1>2, <1>5, OneJob
  <1> QED
    BY <1>1, <1>3, <1>4, <1>6

\* The replies that are there stay what they are.
LEMMA RepliesStay ==
    ASSUME WebTypes, WireInv, NEW j \in Scene.jobs, mutation[j].pc = "sent",
           mutation'[j].what = mutation[j].what,
           \A i \in Scene.jobs : i # j => mutation'[i] = mutation[i]
    PROVE  /\ \A i \in Scene.jobs : mutation[i].pc = "served" =>
                mutation'[i].pc = "served" /\ mutation'[i].what = mutation[i].what
           /\ \A i \in 1..Len(wire) : wire[i].kind = "done" =>
                mutation'[wire[i].of].what = mutation[wire[i].of].what
           /\ WireIs(Scene, query, mutation', wire)
PROOF
  <1>1. \A i \in Scene.jobs : mutation[i].pc = "served" =>
            mutation'[i].pc = "served" /\ mutation'[i].what = mutation[i].what
    OBVIOUS
  <1>2. \A i \in 1..Len(wire) : wire[i].kind = "done" =>
            mutation'[wire[i].of].what = mutation[wire[i].of].what
    <2>1. \A i \in 1..Len(wire) : wire[i].kind = "done" => wire[i].of \in Scene.jobs
      BY WireMessages DEF WireInv
    <2> QED
      BY <2>1
  <1>3. WireIs(Scene, query, mutation', wire)
    BY <1>1, WireOn DEF WireInv
  <1> QED
    BY <1>1, <1>2, <1>3

\* The answer to a mutation, behind the news of a published world.
LEMMA Replied ==
    ASSUME WebTypes, WireInv, NEW j \in Scene.jobs, mutation[j].pc = "sent",
           mutation'[j].pc = "served", mutation'[j].what = mutation[j].what,
           \A i \in Scene.jobs : i # j => mutation'[i] = mutation[i],
           NEW m \in Message(Scene), ReplyTo(m, j),
           DOMAIN m.puts \subseteq HookOf[mutation[j].what].puts,
           \A v \in DOMAIN m.puts : m.puts[v] \in Data(v),
           m.kind = "refused" /\ mutation[j].what = "triage" => Alone(Scene),
           NEW told, wire' = Append(Told(wire, told), m)
    PROVE  /\ WireIs(Scene, query, mutation', wire')
           /\ Extends(wire', wire) /\ Len(wire') > Len(wire) /\ wire'[Len(wire')] = m
           /\ Len(wire) \in Nat /\ Len(wire') \in Nat
           /\ \A n \in 1..Len(wire') : n > Len(wire) => wire'[n] = m \/ wire'[n].kind = "event"
           /\ IF told /\ connected
              THEN /\ Len(wire') = Len(wire) + 2
                   /\ wire'[Len(wire) + 1].kind = "event"
              ELSE Len(wire') = Len(wire) + 1
PROOF
  <1> DEFINE e == [kind |-> "event"]
             t == Told(wire, told)
             news == told /\ connected
  <1>0. wire \in Seq(Message(Scene)) /\ Len(wire) \in Nat
    BY WireMessages DEF WireInv
  <1>1. WireIs(Scene, query, mutation', wire)
    BY RepliesStay
  <1>2. e \in Message(Scene) /\ e.kind = "event"
    BY DEF Message
  <1>3. /\ WireIs(Scene, query, mutation', t) /\ t \in Seq(Message(Scene)) /\ Extends(t, wire)
        /\ Len(t) = IF news THEN Len(wire) + 1 ELSE Len(wire)
        /\ news => t[Len(wire) + 1] = e
    <2>1. CASE news
      <3>1. t = Append(wire, e)
        BY <2>1 DEF Told
      <3>2. WireIs(Scene, query, mutation', t)
        BY <1>1, <3>1, EventAppend
      <3> HIDE DEF e, t, news
      <3> QED
        BY <1>0, <1>2, <2>1, <3>1, <3>2, AppendExtends
    <2>2. CASE ~news
      <3>1. t = wire
        BY <2>2 DEF Told
      <3> HIDE DEF e, t, news
      <3> QED
        BY <1>0, <1>1, <2>2, <3>1 DEF Extends
    <2> QED
      BY <2>1, <2>2
  <1>4. wire' = Append(t, m)
    OBVIOUS
  <1> HIDE DEF e, t
  <1>5. /\ wire' \in Seq(Message(Scene)) /\ Extends(wire', t)
        /\ Len(wire') = Len(t) + 1 /\ wire'[Len(t) + 1] = m
    BY <1>3, <1>4, AppendExtends
  <1>6. \A k \in 1..Len(t) : \/ k \in 1..Len(wire) /\ t[k] = wire[k]
                             \/ k = Len(wire) + 1 /\ t[k] = e
    <2>1. \A k \in 1..Len(wire) : t[k] = wire[k]
      BY <1>3 DEF Extends
    <2> HIDE DEF news
    <2>2. CASE news
      <3>1. Len(t) = Len(wire) + 1 /\ t[Len(wire) + 1] = e
        BY <1>3, <2>2
      <3>2. \A k \in 1..Len(t) : k \in 1..Len(wire) \/ k = Len(wire) + 1
        BY <1>0, <3>1
      <3> QED
        BY <2>1, <3>1, <3>2
    <2>3. CASE ~news
      <3>1. Len(t) = Len(wire)
        BY <1>3, <2>3
      <3> QED
        BY <2>1, <3>1
    <2> QED
      BY <2>2, <2>3
  <1>7. WireIs(Scene, query, mutation', wire')
    <2>1. \A k \in 1..Len(t) : ~ReplyTo(t[k], j)
      <3>1. \A k \in 1..Len(wire) : ~ReplyTo(wire[k], j)
        BY NoReplyUnlessServed
      <3>2. ~ReplyTo(e, j)
        BY <1>2 DEF ReplyTo
      <3> QED
        BY <1>6, <3>1, <3>2
    <2>2. \A v : ~AnswerTo(m, v)
      BY DEF AnswerTo, ReplyTo
    <2>3. \A i \in Scene.jobs : ReplyTo(m, i) =>
                /\ mutation'[i].pc = "served"
                /\ \A k \in 1..Len(t) : ~ReplyTo(t[k], i)
                /\ DOMAIN m.puts \subseteq HookOf[mutation'[i].what].puts
                /\ \A v \in DOMAIN m.puts : m.puts[v] \in Data(v)
                /\ m.kind = "refused" /\ mutation'[i].what = "triage" => Alone(Scene)
      <3>1. \A i : ReplyTo(m, i) => i = j
        BY DEF ReplyTo
      <3> QED
        BY <2>1, <3>1
    <2>4. WireIs(Scene, query, mutation', Append(t, m))
      BY <1>3, <2>2, <2>3, WireAppend
    <2> QED
      BY <1>4, <2>4
  <1>8. Extends(wire', wire)
    BY <1>0, <1>3, <1>5, <1>6 DEF Extends
  <1>9. \A n \in 1..Len(wire') : n > Len(wire) => wire'[n] = m \/ wire'[n].kind = "event"
    <2> TAKE n \in 1..Len(wire')
    <2> HAVE n > Len(wire)
    <2>1. Len(t) \in Nat /\ (n = Len(t) + 1 \/ n \in 1..Len(t))
      BY <1>3, <1>5, LenProperties
    <2>2. ASSUME n \in 1..Len(t) PROVE wire'[n] = t[n] /\ t[n] = e
      <3>1. wire'[n] = t[n]
        BY <1>5, <2>2 DEF Extends
      <3>2. n \notin 1..Len(wire)
        BY <1>0
      <3> QED
        BY <1>6, <2>2, <3>1, <3>2
    <2> QED
      BY <1>2, <1>5, <2>1, <2>2
  <1>10. Len(t) \in Nat /\ Len(wire') \in Nat /\ Len(wire') > Len(wire) /\ wire'[Len(wire')] = m
    <2>1. Len(t) \in Nat
      BY <1>3, LenProperties
    <2> QED
      BY <1>0, <1>3, <1>5, <2>1
  <1>11. IF news THEN Len(wire') = Len(wire) + 2 /\ wire'[Len(wire) + 1].kind = "event"
                 ELSE Len(wire') = Len(wire) + 1
    <2>1. CASE news
      <3>1. Len(wire) + 1 \in 1..Len(t) /\ Len(t) = Len(wire) + 1
        BY <1>0, <1>3, <2>1
      <3>2. wire'[Len(wire) + 1] = t[Len(wire) + 1]
        BY <1>5, <3>1 DEF Extends
      <3>3. t[Len(wire) + 1] = e
        BY <1>3, <2>1
      <3>4. Len(wire') = Len(wire) + 2
        BY <1>0, <1>5, <3>1
      <3>5. wire'[Len(wire) + 1].kind = "event"
        BY <1>2, <3>2, <3>3
      <3> QED
        BY <2>1, <3>4, <3>5
    <2>2. CASE ~news
      BY <1>0, <1>3, <1>5, <2>2
    <2> QED
      BY <2>1, <2>2
  <1> QED
    BY <1>0, <1>7, <1>8, <1>9, <1>10, <1>11

\* What a request writes, and nothing else, is new.
LEMMA WrittenIs ==
    ASSUME WebTypes, NEW rs, truth' = Written(rs)
    PROVE  /\ truth' \in [Resources -> Nat]
           /\ \A s \in Resources : s \notin rs => truth'[s] = truth[s]
PROOF
  <1>1. truth \in [Resources -> Nat]
    BY DEF WebTypes
  <1>2. truth' = [s \in Resources |-> IF s \in rs THEN truth[s] + 1 ELSE truth[s]]
    BY DEF Written
  <1> QED
    BY <1>1, <1>2

\* A page that shows what a job writes will hear of it.
LEMMA WritesCovered ==
    ASSUME WebTypes, PagesAreOrderly, NEW what \in Scene.mutations, NEW v \in Scene.views,
           NEW r \in Shows[v], r \in RequestOf[what].writes
    PROVE  \/ v \in Hits(what) \cup HookOf[what].puts
           \/ RequestOf[what].told /\ connected
PROOF
  <1>1. browsed \in DOMAIN Browsed /\ v \in Queries /\ (connected \/ Scene.breaks)
    BY WebTyped DEF WebTypes
  <1>2. what \in DOMAIN RequestOf
    BY <1>1, SceneIs
  <1>3. RequestOf[what].writes \cap Shows[v] # {}
    OBVIOUS
  <1>4. what \in DOMAIN ProviderRequests => connected
    BY <1>1, SceneIsOrderly
  <1> QED
    BY <1>1, <1>2, <1>3, <1>4, Coverage

\* Reverifying writes verdicts without a word, and looks at both lists afterwards.
LEMMA ReverifyIs ==
    /\ RequestOf["reverify"].writes = {"verdicts"} /\ ~RequestOf["reverify"].told
    /\ HookOf["reverify"].puts = {}
    /\ "reverify" \notin Fills
PROOF
  <1>1. RequestOf["reverify"] = Asks({"verdicts"}, FALSE)
    BY RequestsAre
  <1>2. HookOf["reverify"] = Settles({Key.backlog}, {})
    BY HooksAre
  <1> QED
    BY <1>1, <1>2 DEF Asks, Settles, Fills

\* One artifact of a reverification is done; there is another one.
LEMMA ServeFirstKeeps ==
    ASSUME WebInv, PagesAreOrderly, NEW j \in DOMAIN mutation, ServeMutation(j), mutation[j].left # 1
    PROVE  WebInv'
PROOF
  <1> DEFINE what == mutation[j].what
  <1>0. Scene' = Scene
    BY DEF Scene, ServeMutation
  <1>1. WebTypes /\ WireInv /\ PagesInv
    BY DEF WebInv
  <1>2. /\ mutation[j].pc = "sent" /\ mutation[j].left > 0 /\ truth' = Written(RequestOf[what].writes)
        /\ mutation' = [mutation EXCEPT ![j].left = mutation[j].left - 1, ![j].pc = "sent"]
        /\ UNCHANGED <<browsed, query, connected, unheard>>
    BY DEF ServeMutation
  <1>3. /\ mutation' = [i \in Scene.jobs |-> mutation'[i]]
        /\ \A i \in Scene.jobs : IsJob(Scene, mutation'[i])
        /\ j \in Scene.jobs /\ what \in Scene.mutations
        /\ mutation'[j].pc = "sent" /\ mutation'[j].what = what
        /\ \A i \in Scene.jobs : i # j => mutation'[i] = mutation[i]
        /\ mutation[j].left = 2 /\ what = "reverify"
    BY <1>1, <1>2, Dealt
  <1>4. wire' = wire
    BY <1>3 DEF ServeMutation
  <1> HIDE DEF what
  <1>5. /\ truth' \in [Resources -> Nat]
        /\ \A s \in Resources : s \notin RequestOf[what].writes => truth'[s] = truth[s]
    BY <1>1, <1>2, WrittenIs
  <1>6. WebTypes'
    <2>1. query' = [v \in Scene.views |-> query'[v]] /\ \A v \in Scene.views : IsEntry(query'[v], v)
      BY <1>1, <1>2 DEF WebTypes
    <2> QED
      BY <1>0, <1>1, <1>2, <1>3, <1>5, <2>1 DEF WebTypes
  <1>7. /\ \A i \in 1..Len(wire) : wire[i].kind = "done" =>
                mutation'[wire[i].of].what = mutation[wire[i].of].what
        /\ WireIs(Scene, query, mutation', wire)
    BY <1>1, <1>2, <1>3, RepliesStay DEF what
  <1>8. WireInv'
    BY <1>0, <1>2, <1>4, <1>7 DEF WireInv
  <1>9. LooseInv'
    BY <1>0, <1>2 DEF WebInv, LooseInv
  <1>10. ASSUME ~Alone(Scene), NEW v \in Scene.views, NEW r \in Shows[v] \ unheard
         PROVE  PageIs(v, r)' /\ AnswerIs(v, r)' /\ PutIs(v, r)'
    <2>1. wire \in Seq(Message(Scene)) /\ Len(wire) \in Nat
      BY <1>1, WireMessages DEF WireInv
    <2>2. wire' \in Seq(Message(Scene)) /\ Extends(wire', wire)
      BY <1>4, <2>1 DEF Extends
    <2>3. \A n \in 1..Len(wire') : ~(n > Len(wire))
      BY <1>4, <2>1
    <2>4. WillCome(Scene, mutation, v) => WillCome(Scene, mutation', v)
      BY <1>2, <1>3 DEF WillCome, what
    <2>5. truth'[r] = truth[r] \/ WillCome(Scene, mutation', v)
      <3>1. CASE r \in RequestOf[what].writes
        <4>1. v \in Hits("reverify")
          BY <1>1, <1>3, <3>1, WritesCovered, ReverifyIs
        <4> QED
          BY <1>3, <4>1 DEF WillCome
      <3>2. CASE r \notin RequestOf[what].writes
        <4>1. r \in Resources
          BY <1>1, WebTyped, ShownIs
        <4> QED
          BY <1>5, <3>2, <4>1
      <3> QED
        BY <3>1, <3>2
    <2>6. browsed' = browsed /\ query' = query /\ r \in Shows[v] /\ r \notin unheard
      BY <1>2
    <2> QED
      BY <1>1, <1>7, <1>10, <2>2, <2>3, <2>4, <2>5, <2>6, PagesMore
  <1>11. PagesInv'
    BY <1>0, <1>2, <1>10 DEF PagesInv
  <1>12. AloneInv'
    <2>1. ~Alone(Scene)
      BY <1>3, ReverifyIs DEF Alone
    <2> QED
      BY <1>0, <2>1 DEF AloneInv
  <1> QED
    BY <1>6, <1>8, <1>9, <1>11, <1>12 DEF WebInv

\* What a triage or a seed asks for, and what its hook fills.
LEMMA FillsAre ==
    \A what \in Fills : /\ RequestOf[what].writes = {"triage"} /\ ~RequestOf[what].told
                        /\ HookOf[what].puts = {"backlog"}
PROOF
  <1>1. \A m \in {"triage", "seed"} : HookOf[m] = Settles({}, {"backlog"})
    BY HooksAre
  <1>2. \A m \in {"triage", "seed"} : RequestOf[m] = Asks({"triage"}, FALSE)
    BY RequestsAre
  <1> QED
    BY <1>1, <1>2 DEF Fills, Asks, Settles

\* The message that a mutation is done carries what its hook fills.
LEMMA DoneIs ==
    ASSUME WebTypes, truth' \in [Resources -> Nat], NEW j \in Scene.jobs,
           NEW what \in Scene.mutations,
           NEW m, m = [kind |-> "done", of |-> j,
                       puts |-> [v \in HookOf[what].puts |-> [s \in Shows[v] |-> truth'[s]]]]
    PROVE  /\ m \in Message(Scene) /\ m.kind = "done" /\ m.of = j /\ ReplyTo(m, j)
           /\ DOMAIN m.puts = HookOf[what].puts
           /\ \A v \in DOMAIN m.puts : /\ v \in Queries /\ m.puts[v] \in Data(v)
                                       /\ m.puts[v] = Fresh(v)'
                                       /\ \A s \in Shows[v] : m.puts[v][s] = truth'[s]
PROOF
  <1> DEFINE S == HookOf[what].puts
             P == [v \in S |-> [s \in Shows[v] |-> truth'[s]]]
  <1>1. S \in SUBSET Queries
    BY WebTyped, SceneIs, Coverage
  <1>2. \A v \in S : /\ v \in Queries /\ P[v] \in Data(v) /\ P[v] = Fresh(v)'
                     /\ \A s \in Shows[v] : P[v][s] = truth'[s]
    <2> TAKE v \in S
    <2>1. v \in Queries /\ P[v] = [s \in Shows[v] |-> truth'[s]]
      BY <1>1
    <2>2. [s \in Shows[v] |-> truth'[s]] \in Data(v)
      BY <2>1, DataIs
    <2> QED
      BY <2>1, <2>2 DEF Fresh
  <1>3. P \in [S -> SomeData]
    <2>1. \A v \in S : P[v] \in SomeData
      BY <1>2 DEF SomeData
    <2>2. P = [v \in S |-> P[v]]
      OBVIOUS
    <2> HIDE DEF P, S
    <2> QED
      BY <2>1, <2>2
  <1>4. P \in Puts /\ DOMAIN P = S /\ m.puts = P
    <2>1. DOMAIN P = S /\ m.puts = P
      OBVIOUS
    <2> HIDE DEF P, S
    <2> QED
      BY <1>1, <1>3, <2>1 DEF Puts
  <1> HIDE DEF P
  <1>5. m = [kind |-> "done", of |-> j, puts |-> P]
    BY DEF P
  <1>6. m \in Message(Scene)
    BY <1>4, <1>5 DEF Message
  <1>7. m.kind = "done" /\ m.of = j /\ ReplyTo(m, j)
    BY <1>5 DEF ReplyTo
  <1> QED
    BY <1>2, <1>4, <1>6, <1>7

\* The last request of a job is dealt with, and the answer sent.
LEMMA ServeLastKeeps ==
    ASSUME WebInv, PagesAreOrderly, NEW j \in DOMAIN mutation, ServeMutation(j), mutation[j].left = 1
    PROVE  WebInv'
PROOF
  <1> DEFINE what == mutation[j].what
             told == RequestOf[what].told
             m == [kind |-> "done", of |-> j,
                   puts |-> [v \in HookOf[what].puts |->
                                [s \in Shows[v] |-> Written(RequestOf[what].writes)[s]]]]
             L == Len(wire')
  <1>0. Scene' = Scene
    BY DEF Scene, ServeMutation
  <1>1. WebTypes /\ WireInv /\ PagesInv
    BY DEF WebInv
  <1>2. /\ mutation[j].pc = "sent" /\ mutation[j].left > 0 /\ truth' = Written(RequestOf[what].writes)
        /\ mutation' = [mutation EXCEPT ![j].left = mutation[j].left - 1, ![j].pc = "served"]
        /\ wire' = Append(Told(wire, told), m)
        /\ UNCHANGED <<browsed, query, connected, unheard>>
    BY DEF ServeMutation
  <1>3. /\ mutation' = [i \in Scene.jobs |-> mutation'[i]]
        /\ \A i \in Scene.jobs : IsJob(Scene, mutation'[i])
        /\ j \in Scene.jobs /\ what \in Scene.mutations
        /\ mutation'[j].pc = "served" /\ mutation'[j].what = what
        /\ \A i \in Scene.jobs : i # j => mutation'[i] = mutation[i]
    BY <1>1, <1>2, Dealt
  <1>4. /\ truth' \in [Resources -> Nat]
        /\ \A s \in Resources : s \notin RequestOf[what].writes => truth'[s] = truth[s]
    BY <1>1, <1>2, WrittenIs
  <1>5. /\ m \in Message(Scene) /\ m.kind = "done" /\ m.of = j /\ ReplyTo(m, j)
        /\ DOMAIN m.puts = HookOf[what].puts
        /\ \A v \in DOMAIN m.puts : /\ v \in Queries /\ m.puts[v] \in Data(v)
                                    /\ m.puts[v] = Fresh(v)'
                                    /\ \A s \in Shows[v] : m.puts[v][s] = truth'[s]
    <2>1. m = [kind |-> "done", of |-> j,
               puts |-> [v \in HookOf[what].puts |-> [s \in Shows[v] |-> truth'[s]]]]
      BY <1>2
    <2> HIDE DEF m, what
    <2> QED
      BY <1>1, <1>3, <1>4, <2>1, DoneIs
  <1> HIDE DEF m
  <1>6. /\ WireIs(Scene, query, mutation', wire')
        /\ Extends(wire', wire) /\ L > Len(wire) /\ wire'[L] = m
        /\ Len(wire) \in Nat /\ L \in Nat
        /\ \A n \in 1..L : n > Len(wire) => wire'[n] = m \/ wire'[n].kind = "event"
        /\ IF told /\ connected
           THEN L = Len(wire) + 2 /\ wire'[Len(wire) + 1].kind = "event"
           ELSE L = Len(wire) + 1
    <2>1. /\ \A v \in DOMAIN m.puts : m.puts[v] \in Data(v)
          /\ DOMAIN m.puts \subseteq HookOf[mutation[j].what].puts
          /\ m.kind = "refused" /\ mutation[j].what = "triage" => Alone(Scene)
      BY <1>5
    <2>2. wire' = Append(Told(wire, told), m) /\ mutation[j].pc = "sent"
      BY <1>2
    <2>3. mutation'[j].what = mutation[j].what
      BY <1>3
    <2> HIDE DEF told, what, L
    <2>4. m \in Message(Scene) /\ ReplyTo(m, j)
      BY <1>5
    <2>5. /\ WireIs(Scene, query, mutation', wire')
          /\ Extends(wire', wire) /\ Len(wire') > Len(wire) /\ wire'[Len(wire')] = m
          /\ Len(wire) \in Nat /\ Len(wire') \in Nat
          /\ \A n \in 1..Len(wire') : n > Len(wire) => wire'[n] = m \/ wire'[n].kind = "event"
          /\ IF told /\ connected
             THEN Len(wire') = Len(wire) + 2 /\ wire'[Len(wire) + 1].kind = "event"
             ELSE Len(wire') = Len(wire) + 1
      BY <1>1, <1>3, <2>1, <2>2, <2>3, <2>4, Replied
    <2> QED
      BY <2>5 DEF L
  <1> HIDE DEF L, what, told
  <1>7. WebTypes'
    <2>1. query' = [v \in Scene.views |-> query'[v]] /\ \A v \in Scene.views : IsEntry(query'[v], v)
      BY <1>1, <1>2 DEF WebTypes
    <2> QED
      BY <1>0, <1>1, <1>2, <1>3, <1>4, <2>1 DEF WebTypes
  <1>8. WireInv'
    BY <1>0, <1>2, <1>6 DEF WireInv
  <1>9. LooseInv'
    BY <1>0, <1>2 DEF WebInv, LooseInv
  <1>10. ASSUME ~Alone(Scene), NEW v \in Scene.views, NEW r \in Shows[v] \ unheard
         PROVE  PageIs(v, r)' /\ AnswerIs(v, r)' /\ PutIs(v, r)'
    <2>1. wire' \in Seq(Message(Scene)) /\ v \in Queries /\ r \in Resources
      BY <1>1, <1>6, WireMessages, WebTyped, ShownIs
    <2>2. L \in 1..L /\ L = Len(wire')
      BY <1>6 DEF L
    <2>3. v \in Hits(what) \cup HookOf[what].puts => Brings(mutation', wire'[L], v)
      BY <1>3, <1>5, <1>6 DEF Brings
    <2>4. \/ WillCome(Scene, mutation, v) => WillCome(Scene, mutation', v)
          \/ \E n \in 1..Len(wire') : n > Len(wire) /\ Brings(mutation', wire'[n], v)
      <3> SUFFICES ASSUME WillCome(Scene, mutation, v), ~WillCome(Scene, mutation', v)
                   PROVE  v \in Hits(what) \cup HookOf[what].puts
        BY <1>6, <2>2, <2>3
      <3>1. \/ what = "reverify" /\ v \in Hits("reverify")
            \/ what = "triage" /\ v = "backlog"
        BY <1>3 DEF WillCome, what
      <3>2. HookOf["triage"].puts = {"backlog"}
        BY FillsAre DEF Fills
      <3> QED
        BY <3>1, <3>2
    <2>5. \/ r \notin unheard /\ truth'[r] = truth[r]
          \/ WillCome(Scene, mutation', v)
          \/ \E n \in 1..Len(wire') : n > Len(wire) /\ Brings(mutation', wire'[n], v)
      <3>1. CASE r \in RequestOf[what].writes
        <4>1. v \in Hits(what) \cup HookOf[what].puts \/ (told /\ connected)
          <5>1. r \in Shows[v]
            OBVIOUS
          <5>2. v \in Hits(what) \cup HookOf[what].puts \/ (RequestOf[what].told /\ connected)
            BY <1>1, <1>3, <3>1, <5>1, WritesCovered
          <5> QED
            BY <5>2 DEF told
        <4>2. CASE v \in Hits(what) \cup HookOf[what].puts
          BY <1>6, <2>2, <2>3, <4>2
        <4>3. CASE told /\ connected
          <5>1. Len(wire) + 1 \in 1..Len(wire') /\ Len(wire) + 1 > Len(wire)
            BY <1>6, <2>2, <4>3
          <5>2. Brings(mutation', wire'[Len(wire) + 1], v)
            BY <1>6, <4>3 DEF Brings
          <5> QED
            BY <5>1, <5>2
        <4> QED
          BY <4>1, <4>2, <4>3
      <3>2. CASE r \notin RequestOf[what].writes
        BY <1>4, <2>1, <3>2
      <3> QED
        BY <3>1, <3>2
    <2>6. ASSUME NEW n \in 1..Len(wire'), n > Len(wire)
          PROVE  /\ AnswerTo(wire'[n], v) => wire'[n].data = NoData \/ wire'[n].data[r] = truth'[r]
                 /\ wire'[n].kind = "done" /\ v \in DOMAIN wire'[n].puts => wire'[n].puts[v][r] = truth'[r]
      <3>1. wire'[n] = m \/ wire'[n].kind = "event"
        BY <1>6, <2>2, <2>6
      <3>2. wire'[n].kind # "fetch"
        BY <1>5, <3>1
      <3>3. wire'[n].kind = "done" => wire'[n] = m
        BY <3>1
      <3> QED
        BY <1>5, <3>2, <3>3 DEF AnswerTo
    <2>7. browsed' = browsed /\ query' = query /\ r \in Shows[v] /\ Extends(wire', wire)
      BY <1>2, <1>6
    <2>8. \A i \in 1..Len(wire) : wire[i].kind = "done" =>
                mutation'[wire[i].of].what = mutation[wire[i].of].what
      BY <1>1, <1>2, <1>3, RepliesStay DEF what
    <2>9. AnswerIs(v, r)' /\ PutIs(v, r)' /\ (query'[v] = query[v] => PageIs(v, r)')
      BY <1>1, <1>10, <2>1, <2>4, <2>5, <2>6, <2>7, <2>8, PagesMore
    <2> QED
      BY <2>7, <2>9
  <1>11. PagesInv'
    BY <1>0, <1>2, <1>10 DEF PagesInv
  <1>12. ASSUME Alone(Scene) PROVE AloneInv'
    <2>1. what \in Fills
      BY <1>3, <1>12 DEF Alone
    <2>2. Len(wire) = 0 /\ (\A i \in Scene.jobs : i = j) /\ unheard = {} /\ unheard' = {}
      BY <1>1, <1>2, <1>3, <1>12, AloneStarts
    <2>3. /\ RequestOf[what].writes = {"triage"} /\ ~told /\ HookOf[what].puts = {"backlog"}
      BY <2>1, FillsAre DEF told
    <2>4. \A v \in Scene.views : /\ query[v].on /\ ~query[v].failed /\ query[v].fetch = "none"
                                 /\ v # "backlog" => query[v].data = Heard(v)
      BY <1>12 DEF WebInv, AloneInv
    <2>5. ASSUME NEW v \in Scene.views, v # "backlog" PROVE Heard(v)' = Heard(v)
      <3>1. v \in Queries /\ "triage" \notin Shows[v] /\ Shows[v] \subseteq Resources
        BY <1>1, <2>5, WebTyped, ShownIs
      <3>2. \A s \in Shows[v] : truth'[s] = truth[s]
        BY <1>4, <2>3, <3>1
      <3> QED
        BY <2>2, <3>2 DEF Heard
    <2>6. L = 1 /\ wire'[1] = m
      BY <1>6, <2>2, <2>3
    <2>7. m.puts = [v \in {"backlog"} |-> Heard(v)']
      <3>1. m.puts = [v \in HookOf[what].puts |-> [s \in Shows[v] |-> truth'[s]]]
        BY <1>2 DEF m, what
      <3> QED
        BY <2>2, <2>3, <3>1 DEF Heard
    <2>8. \A k \in 1..Len(wire') : \E i \in Scene.jobs :
              /\ ReplyTo(wire'[k], i)
              /\ wire'[k].kind = "done" => wire'[k].puts = [v \in {"backlog"} |-> Heard(v)']
              /\ wire'[k].kind # "refused"
      <3>1. \A k \in 1..Len(wire') : wire'[k] = m
        BY <2>6 DEF L
      <3> QED
        BY <1>3, <1>5, <2>7, <3>1
    <2>9. \A i \in Scene.jobs : mutation'[i].pc = "served"
      BY <1>3, <2>2
    <2>10. \A v \in Scene.views : /\ query'[v].on /\ ~query'[v].failed /\ query'[v].fetch = "none"
                                  /\ v # "backlog" => query'[v].data = Heard(v)'
      BY <1>2, <2>4, <2>5
    <2> QED
      BY <1>0, <1>3, <2>2, <2>8, <2>9, <2>10 DEF AloneInv
  <1>13. AloneInv'
    BY <1>0, <1>12 DEF AloneInv
  <1> QED
    BY <1>7, <1>8, <1>9, <1>11, <1>13 DEF WebInv

LEMMA ServeMutationKeeps ==
    ASSUME WebInv, PagesAreOrderly, NEW j \in DOMAIN mutation, ServeMutation(j)
    PROVE  WebInv'
PROOF
  BY ServeFirstKeeps, ServeLastKeeps

\* An error leaves nothing of a reverification behind, and of what fills the
\* list at most the buckets.
LEMMA LeftIs ==
    /\ LeftBy("reverify") = {}
    /\ \A what \in Fills : LeftBy(what) = {"triage"}
    /\ \A what : LeftBy(what) \subseteq Resources
PROOF
  <1>1. DOMAIN SavedBefore = {"triage", "seed", "verify", "draft", "accept", "reject", "reinstate"}
    BY DEF SavedBefore
  <1>2. /\ SavedBefore["triage"] = {"triage"} /\ SavedBefore["seed"] = {"triage"}
        /\ SavedBefore["verify"] = {"verdicts"} /\ SavedBefore["draft"] = {"drafts"}
        /\ SavedBefore["accept"] = {"pending"} /\ SavedBefore["reject"] = {"pending"}
        /\ SavedBefore["reinstate"] = {"declined"}
    BY DEF SavedBefore
  <1>3. {"triage", "verdicts", "drafts", "pending", "declined"} \subseteq Resources
    <2>1. \A v \in Queries : Shows[v] \subseteq Resources
      BY ShownIs
    <2> QED
      BY <2>1, ShowsIs
  <1>4. \A what : what \in DOMAIN SavedBefore \/ LeftBy(what) = {}
    BY DEF LeftBy
  <1>5. \A what \in DOMAIN SavedBefore : LeftBy(what) = SavedBefore[what]
    BY DEF LeftBy
  <1> HIDE DEF SavedBefore
  <1> QED
    BY <1>1, <1>2, <1>3, <1>4, <1>5 DEF Fills

\* One artifact of a reverification is refused; there is another one.
LEMMA RefuseFirstKeeps ==
    ASSUME WebInv, PagesAreOrderly, NEW j \in DOMAIN mutation, RefuseMutation(j),
           mutation[j].what = "reverify", mutation[j].left > 1
    PROVE  WebInv'
PROOF
  <1>0. Scene' = Scene
    BY DEF Scene, RefuseMutation
  <1>1. WebTypes /\ WireInv /\ PagesInv
    BY DEF WebInv
  <1>2. /\ mutation[j].pc = "sent" /\ mutation[j].left > 0
        /\ mutation' = [mutation EXCEPT ![j].left = mutation[j].left - 1, ![j].pc = "sent"]
        /\ UNCHANGED <<browsed, truth, query, connected, unheard>> /\ wire' = wire
    <2>1. truth' = Written({}) /\ unheard' = unheard \cup {}
      BY LeftIs DEF RefuseMutation
    <2>2. \A r : r \notin {}
      OBVIOUS
    <2>3. truth' = [r \in Resources |-> truth[r]] /\ truth = [r \in Resources |-> truth[r]]
      BY <1>1, <2>1 DEF Written, WebTypes
    <2> QED
      BY <2>1, <2>3 DEF RefuseMutation
  <1>3. /\ mutation' = [i \in Scene.jobs |-> mutation'[i]]
        /\ \A i \in Scene.jobs : IsJob(Scene, mutation'[i])
        /\ j \in Scene.jobs /\ mutation[j].what \in Scene.mutations
        /\ mutation'[j].pc = "sent" /\ mutation'[j].what = mutation[j].what
        /\ \A i \in Scene.jobs : i # j => mutation'[i] = mutation[i]
    <2>1. mutation[j].left # 1
      OBVIOUS
    <2> QED
      BY <1>1, <1>2, <2>1, Dealt
  <1>4. WebTypes'
    BY <1>0, <1>1, <1>2, <1>3 DEF WebTypes
  <1>5. /\ \A i \in 1..Len(wire) : wire[i].kind = "done" =>
                mutation'[wire[i].of].what = mutation[wire[i].of].what
        /\ WireIs(Scene, query, mutation', wire)
    BY <1>1, <1>2, <1>3, RepliesStay
  <1>6. WireInv'
    BY <1>0, <1>2, <1>5 DEF WireInv
  <1>7. LooseInv'
    BY <1>0, <1>2 DEF WebInv, LooseInv
  <1>8. ASSUME ~Alone(Scene), NEW v \in Scene.views, NEW r \in Shows[v] \ unheard
        PROVE  PageIs(v, r)' /\ AnswerIs(v, r)' /\ PutIs(v, r)'
    <2>1. wire \in Seq(Message(Scene)) /\ Len(wire) \in Nat
      BY <1>1, WireMessages DEF WireInv
    <2>2. wire' \in Seq(Message(Scene)) /\ Extends(wire', wire)
      BY <1>2, <2>1 DEF Extends
    <2>3. \A n \in 1..Len(wire') : ~(n > Len(wire))
      BY <1>2, <2>1
    <2>4. WillCome(Scene, mutation, v) => WillCome(Scene, mutation', v)
      BY <1>2, <1>3 DEF WillCome
    <2>5. browsed' = browsed /\ query' = query /\ r \in Shows[v] /\ r \notin unheard /\ truth' = truth
      BY <1>2
    <2> QED
      BY <1>1, <1>5, <1>8, <2>2, <2>3, <2>4, <2>5, PagesMore
  <1>9. PagesInv'
    BY <1>0, <1>2, <1>8 DEF PagesInv
  <1>10. AloneInv'
    <2>1. ~Alone(Scene)
      BY <1>3, ReverifyIs DEF Alone
    <2> QED
      BY <1>0, <2>1 DEF AloneInv
  <1> QED
    BY <1>4, <1>6, <1>7, <1>9, <1>10 DEF WebInv

\* The last request of a job is refused.
LEMMA RefuseLastKeeps ==
    ASSUME WebInv, PagesAreOrderly, NEW j \in DOMAIN mutation, RefuseMutation(j),
           ~(mutation[j].what = "reverify" /\ mutation[j].left > 1)
    PROVE  WebInv'
PROOF
  <1> DEFINE what == mutation[j].what
             kind == IF what = "reverify" THEN "done" ELSE "refused"
             m == [kind |-> kind, of |-> j, puts |-> NoData]
             L == Len(wire')
  <1>0. Scene' = Scene
    BY DEF Scene, RefuseMutation
  <1>1. WebTypes /\ WireInv /\ PagesInv
    BY DEF WebInv
  <1>2a. PICK left \in SUBSET LeftBy(what) : truth' = Written(left) /\ unheard' = unheard \cup left
    BY DEF RefuseMutation
  <1>2b. /\ truth' \in [Resources -> Nat]
         /\ \A s \in Resources : s \notin left => truth'[s] = truth[s]
         /\ \A s \in left : s \in Resources /\ truth'[s] = truth[s] + 1
    <2>1. left \subseteq Resources
      BY LeftIs
    <2> QED
      BY <1>1, <1>2a, <2>1, WrittenIs DEF Written
  <1>2. /\ mutation[j].pc = "sent" /\ mutation[j].left > 0 /\ (what = "triage" => Scene.fails)
        /\ mutation' = [mutation EXCEPT ![j].left = mutation[j].left - 1, ![j].pc = "served"]
        /\ wire' = Append(wire, m)
        /\ UNCHANGED <<browsed, query, connected>>
    BY DEF RefuseMutation
  <1> HIDE DEF kind
  <1>3. /\ mutation' = [i \in Scene.jobs |-> mutation'[i]]
        /\ \A i \in Scene.jobs : IsJob(Scene, mutation'[i])
        /\ j \in Scene.jobs /\ what \in Scene.mutations
        /\ mutation'[j].pc = "served" /\ mutation'[j].what = what /\ mutation'[j].undo = mutation[j].undo
        /\ \A i \in Scene.jobs : i # j => mutation'[i] = mutation[i]
    <2>1. mutation[j].left = 1
      <3>1. j \in Scene.jobs /\ IsJob(Scene, mutation[j])
        BY <1>1, WebTyped
      <3>2. mutation[j].left \in {1, 2} /\ (mutation[j].what # "reverify" => mutation[j].left = 1)
        BY <1>2, <3>1 DEF IsJob
      <3> QED
        BY <3>2
    <2> QED
      BY <1>1, <1>2, <2>1, Dealt
  <1>4. /\ m \in Message(Scene) /\ m.kind = kind /\ m.of = j /\ ReplyTo(m, j) /\ DOMAIN m.puts = {}
        /\ kind \in {"done", "refused"}
    <2>1. kind \in {"done", "refused"}
      BY DEF kind
    <2>2. NoData \in Puts
      BY DEF Puts
    <2>3. m.kind = kind /\ m.of = j /\ m.puts = NoData
      OBVIOUS
    <2>4. m \in Message(Scene)
      <3> HIDE DEF what
      <3> QED
        BY <1>3, <2>1, <2>2 DEF Message
    <2> HIDE DEF m
    <2> QED
      BY <2>1, <2>3, <2>4, NothingPut DEF ReplyTo
  <1> HIDE DEF m
  <1>5. what = "triage" => Alone(Scene)
    <2>1. browsed \in DOMAIN Browsed
      BY <1>1, WebTyped
    <2> QED
      BY <1>2, <1>3, <2>1, SceneIsOrderly
  <1>6. /\ WireIs(Scene, query, mutation', wire')
        /\ Extends(wire', wire) /\ L = Len(wire) + 1 /\ wire'[L] = m
        /\ Len(wire) \in Nat /\ L \in Nat
        /\ \A n \in 1..L : n > Len(wire) => wire'[n] = m \/ wire'[n].kind = "event"
    <2>1. /\ \A v \in DOMAIN m.puts : m.puts[v] \in Data(v)
          /\ DOMAIN m.puts \subseteq HookOf[mutation[j].what].puts
          /\ m.kind = "refused" /\ mutation[j].what = "triage" => Alone(Scene)
      BY <1>4, <1>5
    <2>2. wire' = Append(Told(wire, FALSE), m) /\ mutation[j].pc = "sent"
      BY <1>2 DEF Told
    <2>3. mutation'[j].what = mutation[j].what
      BY <1>3
    <2>4. m \in Message(Scene) /\ ReplyTo(m, j)
      BY <1>4
    <2> HIDE DEF what, L
    <2>5. /\ WireIs(Scene, query, mutation', wire')
          /\ Extends(wire', wire) /\ wire'[Len(wire')] = m
          /\ Len(wire) \in Nat /\ Len(wire') \in Nat
          /\ \A n \in 1..Len(wire') : n > Len(wire) => wire'[n] = m \/ wire'[n].kind = "event"
          /\ IF FALSE /\ connected
             THEN Len(wire') = Len(wire) + 2 /\ wire'[Len(wire) + 1].kind = "event"
             ELSE Len(wire') = Len(wire) + 1
      BY <1>1, <1>3, <2>1, <2>2, <2>3, <2>4, Replied
    <2> QED
      BY <2>5 DEF L
  <1> HIDE DEF L, what
  <1>7. WebTypes'
    BY <1>0, <1>1, <1>2, <1>2b, <1>3 DEF WebTypes
  <1>8. WireInv'
    BY <1>0, <1>2, <1>6 DEF WireInv
  <1>9. LooseInv'
    BY <1>0, <1>2 DEF WebInv, LooseInv
  <1>10. ASSUME ~Alone(Scene), NEW v \in Scene.views, NEW r \in Shows[v] \ unheard'
         PROVE  PageIs(v, r)' /\ AnswerIs(v, r)' /\ PutIs(v, r)'
    <2>1. wire' \in Seq(Message(Scene))
      BY <1>6, WireMessages
    <2>2. L \in 1..L /\ L = Len(wire') /\ L > Len(wire)
      BY <1>6 DEF L
    <2>3. \/ WillCome(Scene, mutation, v) => WillCome(Scene, mutation', v)
          \/ \E n \in 1..Len(wire') : n > Len(wire) /\ Brings(mutation', wire'[n], v)
      <3> SUFFICES ASSUME WillCome(Scene, mutation, v), ~WillCome(Scene, mutation', v)
                   PROVE  Brings(mutation', wire'[L], v)
        BY <2>2
      <3>1. \/ what = "reverify" /\ v \in Hits("reverify")
            \/ what = "triage" /\ v = "backlog"
        BY <1>3 DEF WillCome, what
      <3>2. what = "reverify" /\ v \in Hits("reverify")
        BY <1>5, <1>10, <3>1
      <3>3. m.kind = "done"
        BY <1>4, <3>2 DEF kind, what
      <3> QED
        BY <1>3, <1>4, <1>6, <3>2, <3>3 DEF Brings
    <2>4. ASSUME NEW n \in 1..Len(wire'), n > Len(wire)
          PROVE  /\ AnswerTo(wire'[n], v) => wire'[n].data = NoData \/ wire'[n].data[r] = truth'[r]
                 /\ wire'[n].kind = "done" /\ v \in DOMAIN wire'[n].puts => wire'[n].puts[v][r] = truth'[r]
      <3>1. wire'[n] = m \/ wire'[n].kind = "event"
        BY <1>6, <2>2, <2>4
      <3>2. wire'[n].kind # "fetch"
        BY <1>4, <3>1
      <3>3. wire'[n].kind = "done" => wire'[n] = m
        BY <3>1
      <3> QED
        BY <1>4, <3>2, <3>3 DEF AnswerTo
    <2>5. browsed' = browsed /\ query' = query /\ r \in Shows[v] /\ Extends(wire', wire)
      BY <1>2, <1>6
    <2>6. \A i \in 1..Len(wire) : wire[i].kind = "done" =>
                mutation'[wire[i].of].what = mutation[wire[i].of].what
      BY <1>1, <1>2, <1>3, RepliesStay DEF what
    <2>7. r \notin unheard /\ truth'[r] = truth[r]
      <3>1. v \in Queries /\ Shows[v] \subseteq Resources
        BY <1>1, WebTyped, ShownIs
      <3> QED
        BY <1>2a, <1>2b, <3>1
    <2>8. AnswerIs(v, r)' /\ PutIs(v, r)' /\ (query'[v] = query[v] => PageIs(v, r)')
      BY <1>1, <1>10, <2>1, <2>3, <2>4, <2>5, <2>6, <2>7, PagesMore
    <2> QED
      BY <2>5, <2>8
  <1>11. PagesInv'
    BY <1>0, <1>2, <1>10 DEF PagesInv
  <1>12. ASSUME Alone(Scene) PROVE AloneInv'
    <2>1. what \in Fills
      BY <1>3, <1>12 DEF Alone
    <2>2. Len(wire) = 0 /\ (\A i \in Scene.jobs : i = j) /\ unheard = {}
      BY <1>1, <1>2, <1>3, <1>12, AloneStarts
    <2>3. m.kind = "refused"
      BY <1>4, <2>1, ReverifyIs DEF kind, what
    <2>4. /\ \A v \in Scene.views : /\ query[v].on /\ ~query[v].failed /\ query[v].fetch = "none"
                                    /\ v # "backlog" => query[v].data = Heard(v)
          /\ what = "triage" => mutation[j].undo = Heard("backlog")
          /\ what = "seed" /\ "backlog" \in Scene.views => query["backlog"].data = Heard("backlog")
      <3>1. AloneInv /\ j \in Scene.jobs /\ mutation[j].pc = "sent"
        BY <1>2, <1>3 DEF WebInv
      <3> QED
        BY <1>12, <3>1 DEF AloneInv, what
    <2>5. \A v \in Queries : Heard(v)' = Heard(v)
      <3> TAKE v \in Queries
      <3>1. \A r \in Shows[v] : (IF r \in unheard' THEN truth'[r] - 1 ELSE truth'[r]) = truth[r]
        <4> TAKE r \in Shows[v]
        <4>1. r \in Resources /\ truth[r] \in Nat
          BY <1>1, ShownIs DEF WebTypes
        <4> QED
          BY <1>2a, <1>2b, <2>2, <4>1
      <3>2. Heard(v)' = [r \in Shows[v] |-> truth[r]]
        BY <3>1 DEF Heard
      <3>3. Heard(v) = [r \in Shows[v] |-> truth[r]]
        BY <2>2 DEF Heard
      <3> QED
        BY <3>2, <3>3
    <2>10. "backlog" \in Queries /\ \A v \in Scene.views : v \in Queries
      BY <1>1, WebTyped, ShowsIs
    <2>11. \A r \in unheard' : r \in Resources /\ truth'[r] > 0
      <3> TAKE r \in unheard'
      <3>1. r \in left /\ r \in Resources /\ truth'[r] = truth[r] + 1 /\ truth[r] \in Nat
        BY <1>1, <1>2a, <1>2b, <2>2 DEF WebTypes
      <3> QED
        BY <3>1
    <2>6. \A k \in 1..Len(wire') : wire'[k] = m
      <3>1. L = 1 /\ wire'[1] = m
        BY <1>6, <2>2
      <3> QED
        BY <3>1 DEF L
    <2>7. \A k \in 1..Len(wire') : \E i \in Scene.jobs :
              /\ ReplyTo(wire'[k], i) /\ wire'[k].kind # "done"
              /\ mutation'[i].what = "triage" => mutation'[i].undo = Heard("backlog")'
              /\ mutation'[i].what = "seed" /\ "backlog" \in Scene.views =>
                    query'["backlog"].data = Heard("backlog")'
      <3>1. /\ mutation'[j].what = "triage" => mutation'[j].undo = Heard("backlog")'
            /\ mutation'[j].what = "seed" /\ "backlog" \in Scene.views =>
                  query'["backlog"].data = Heard("backlog")'
        BY <1>2, <1>3, <2>4, <2>5, <2>10
      <3> QED
        BY <1>3, <1>4, <2>3, <2>6, <3>1
    <2>8. \A i \in Scene.jobs : mutation'[i].pc = "served"
      BY <1>3, <2>2
    <2>9. \A v \in Scene.views : /\ query'[v].on /\ ~query'[v].failed /\ query'[v].fetch = "none"
                                 /\ v # "backlog" => query'[v].data = Heard(v)'
      BY <1>2, <2>4, <2>5, <2>10
    <2> QED
      BY <1>0, <1>3, <2>7, <2>8, <2>9, <2>11 DEF AloneInv
  <1>13. AloneInv'
    BY <1>0, <1>12 DEF AloneInv
  <1> QED
    BY <1>7, <1>8, <1>9, <1>11, <1>13 DEF WebInv

LEMMA RefuseMutationKeeps ==
    ASSUME WebInv, PagesAreOrderly, NEW j \in DOMAIN mutation, RefuseMutation(j)
    PROVE  WebInv'
PROOF
  BY RefuseFirstKeeps, RefuseLastKeeps

-----------------------------------------------------------------------------
(***************************************************************************)
(* What makes the pages look again.                                        *)
(***************************************************************************)

\* An entry that is filled with d when f holds, and then invalidated when h does.
Restarts(q, h) == h /\ q.on /\ (q.data # NoData \/ q.fetch = "none")
Renewed(p, q, f, d, h) ==
    /\ p.on = q.on /\ p.data = IF f THEN d ELSE q.data
    /\ p.failed = (q.failed /\ ~f)
    /\ h => p.invalid
    /\ p.fetch = IF Restarts(q, h) THEN "asked" ELSE q.fetch
    /\ ~f /\ ~h => p = q

\* Filling and invalidating the entries of the cache.
LEMMA RenewedIs ==
    ASSUME WebTypes, NEW puts, NEW vs, \A v \in DOMAIN puts : puts[v] \in Data(v),
           NEW filled, query' = Invalidated(filled, vs),
           filled = [v \in DOMAIN query |->
                        IF v \in DOMAIN puts THEN Filled(query, v, puts[v])[v] ELSE query[v]]
    PROVE  /\ query' = [v \in Scene.views |-> query'[v]]
           /\ \A v \in Scene.views :
                /\ IsEntry(query'[v], v)
                /\ Renewed(query'[v], query[v], v \in DOMAIN puts, puts[v], v \in vs)
PROOF
  <1>1. DOMAIN query = Scene.views /\ \A v \in Scene.views : v \in Queries /\ IsEntry(query[v], v)
    BY WebTyped
  <1>2. DOMAIN filled = Scene.views
    BY <1>1
  <1>3. DOMAIN query' = Scene.views /\ query' = [v \in Scene.views |-> query'[v]]
    BY <1>2 DEF Invalidated
  <1>4. ASSUME NEW v \in Scene.views
        PROVE  /\ IsEntry(query'[v], v)
               /\ Renewed(query'[v], query[v], v \in DOMAIN puts, puts[v], v \in vs)
    <2> DEFINE q == query[v]
               h == v \in vs
               f == v \in DOMAIN puts
               s == filled[v]
               full == [q EXCEPT !.data = puts[v], !.invalid = FALSE, !.aged = FALSE, !.failed = FALSE]
               p == query'[v]
               again == v \in Restarted(vs)
    <2>1. /\ DOMAIN q = {"data", "invalid", "aged", "on", "fetch", "failed"}
          /\ q.data \in {NoData} \cup Data(v)
          /\ q.invalid \in BOOLEAN /\ q.aged \in BOOLEAN /\ q.on \in BOOLEAN /\ q.failed \in BOOLEAN
          /\ q.fetch \in {"none", "asked", "served"}
      BY <1>1 DEF IsEntry
    <2>2. h => (again <=> Restarts(q, h))
      BY DEF Restarted, Restarts
    <2>3. s = IF f THEN full ELSE q
      <3>1. s = IF f THEN Filled(query, v, puts[v])[v] ELSE q
        BY <1>1
      <3>2. Filled(query, v, puts[v])[v] = full
        BY <1>1 DEF Filled
      <3> HIDE DEF full
      <3> QED
        BY <3>1, <3>2
    <2>4. f => puts[v] \in Data(v)
      OBVIOUS
    <2>5. p = IF h THEN [s EXCEPT !.invalid = TRUE, !.fetch = IF again THEN "asked" ELSE @] ELSE s
      BY <1>2 DEF Invalidated
    <2> HIDE DEF f, h, again, s
    <2>6. /\ DOMAIN s = {"data", "invalid", "aged", "on", "fetch", "failed"}
          /\ s.data = IF f THEN puts[v] ELSE q.data
          /\ s.invalid \in BOOLEAN /\ s.aged \in BOOLEAN /\ s.on = q.on
          /\ s.failed = (q.failed /\ ~f)
          /\ s.fetch = q.fetch
      <3>1. CASE f
        BY <2>1, <2>3, <3>1
      <3>2. CASE ~f
        BY <2>1, <2>3, <3>2
      <3> QED
        BY <3>1, <3>2
    <2>7. /\ DOMAIN p = {"data", "invalid", "aged", "on", "fetch", "failed"}
          /\ p.data = s.data /\ p.aged = s.aged /\ p.on = s.on /\ p.failed = s.failed
          /\ p.invalid = (h \/ s.invalid)
          /\ p.fetch = IF Restarts(q, h) THEN "asked" ELSE s.fetch
      <3>1. CASE h
        <4>1. CASE again
          BY <2>2, <2>5, <2>6, <3>1, <4>1
        <4>2. CASE ~again
          BY <2>2, <2>5, <2>6, <3>1, <4>2
        <4> QED
          BY <4>1, <4>2
      <3>2. CASE ~h
        BY <2>5, <2>6, <3>2 DEF Restarts
      <3> QED
        BY <3>1, <3>2
    <2>8. ~f /\ ~h => p = q
      BY <2>3, <2>5
    <2> HIDE DEF p, q
    <2>9. IsEntry(p, v)
      BY <2>1, <2>4, <2>6, <2>7 DEF IsEntry
    <2>10. Renewed(p, q, f, puts[v], h)
      BY <2>6, <2>7, <2>8 DEF Renewed
    <2> QED
      BY <2>9, <2>10 DEF p, q, f, h
  <1> QED
    BY <1>3, <1>4

\* A message is taken that fills what it brings, and makes pages look again.
Left(i, vs) == {k \in 1..Len(wire) \ {i} : ~Dropped(wire[k], Restarted(vs))}
Taken(i, puts, vs) ==
    /\ \A v \in Scene.views : /\ IsEntry(query'[v], v)
                              /\ Renewed(query'[v], query[v], v \in DOMAIN puts, puts[v], v \in vs)
    /\ wire' = Without(RemoveAt(wire, i), Restarted(vs))
    /\ \A j \in Scene.jobs :
        IF ReplyTo(wire[i], j)
        THEN mutation'[j].pc = "over" /\ mutation'[j].what = mutation[j].what
        ELSE mutation'[j] = mutation[j]
    /\ UNCHANGED <<browsed, truth, connected, unheard>>

LEMMA TakenKeeps ==
    ASSUME WebInv, NEW i \in 1..Len(wire), NEW puts, NEW vs,
           \A v \in DOMAIN puts : puts[v] \in Data(v), Taken(i, puts, vs)
    PROVE  /\ wire' \in Seq(Message(Scene)) /\ \E g : IsLeft(g, wire', wire, Left(i, vs))
           /\ Left(i, vs) \in SUBSET (1..Len(wire))
           /\ \A k \in Left(i, vs) : \A v \in Scene.views :
                AnswerTo(wire[k], v) => ~Restarts(query[v], v \in vs)
           /\ \A k \in 1..Len(wire) : k \in Left(i, vs) \/ k = i \/ wire[k].kind = "fetch"
           /\ WireInv' /\ LooseInv'
PROOF
  <1>0. Scene' = Scene
    BY DEF Scene, Taken
  <1>1. /\ WebTypes /\ WireInv /\ DOMAIN query = Scene.views
        /\ \A v \in Scene.views : v \in Queries
    BY WebTyped DEF WebInv
  <1>2. PICK g : wire' \in Seq(Message(Scene)) /\ IsLeft(g, wire', wire, Left(i, vs))
    <2>1. wire \in Seq(Message(Scene))
      BY <1>1, WireMessages DEF WireInv
    <2>2. wire' = Without(RemoveAt(wire, i), Restarted(vs))
      BY DEF Taken
    <2> DEFINE dropped == Restarted(vs)
    <2>3. Left(i, vs) = {k \in 1..Len(wire) \ {i} : ~Dropped(wire[k], dropped)}
      BY DEF Left
    <2> HIDE DEF dropped
    <2>4. wire' = Without(RemoveAt(wire, i), dropped)
      BY <2>2 DEF dropped
    <2>5. /\ Without(RemoveAt(wire, i), dropped) \in Seq(Message(Scene))
          /\ \E g : IsLeft(g, Without(RemoveAt(wire, i), dropped), wire,
                          {k \in 1..Len(wire) \ {i} : ~Dropped(wire[k], dropped)})
      BY <2>1, TakenIs
    <2> QED
      BY <2>3, <2>4, <2>5
  <1>3. \A v \in Scene.views : v \in Restarted(vs) <=> Restarts(query[v], v \in vs)
    BY DEF Restarted, Restarts
  <1>4. \A k \in Left(i, vs) : k \in 1..Len(wire) /\ k # i /\ ~Dropped(wire[k], Restarted(vs))
    BY DEF Left
  <1>5. \A k \in 1..Len(wire) : k \in Left(i, vs) \/ k = i \/ wire[k].kind = "fetch"
    BY DEF Left, Dropped
  <1>6. \A k \in Left(i, vs) : \A v \in Scene.views :
            AnswerTo(wire[k], v) => ~Restarts(query[v], v \in vs)
    BY <1>3, <1>4 DEF Dropped, AnswerTo
  <1>7. Left(i, vs) \in SUBSET (1..Len(wire))
    BY <1>4
  <1>8. WireInv'
    <2>1. \A k \in Left(i, vs) : \A v \in Scene.views :
              AnswerTo(wire[k], v) => query'[v].fetch = query[v].fetch
      BY <1>6 DEF Taken, Renewed
    <2>2. ASSUME NEW k \in Left(i, vs), NEW j \in Scene.jobs, ReplyTo(wire[k], j)
          PROVE  mutation'[j].pc = mutation[j].pc /\ mutation'[j].what = mutation[j].what
      <3>1. k \in 1..Len(wire) /\ k # i
        BY <1>4
      <3>2. ~ReplyTo(wire[i], j)
        BY <1>1, <2>2, <3>1 DEF WireInv, WireIs
      <3>3. mutation'[j] = mutation[j]
        BY <3>2 DEF Taken
      <3> QED
        BY <3>3
    <2>3. WireIs(Scene, query, mutation, wire)
      BY <1>1 DEF WireInv
    <2>4. WireIs(Scene, query', mutation', wire')
      BY <1>2, <1>7, <2>1, <2>2, <2>3, WireLeft
    <2> QED
      BY <1>0, <2>4 DEF WireInv
  <1>9. LooseInv'
    <2> SUFFICES ASSUME ~Scene.ordered, NEW v \in Scene.views
                 PROVE  query'[v].data # NoData /\ (~query'[v].on => query'[v].fetch = "none")
      BY <1>0 DEF LooseInv
    <2>1. query[v].data # NoData /\ (~query[v].on => query[v].fetch = "none")
      BY DEF WebInv, LooseInv
    <2>2. v \in DOMAIN puts => puts[v] # NoData
      <3>1. truth \in [Resources -> Nat]
        BY <1>1 DEF WebTypes
      <3> QED
        BY <1>1, <3>1, DataIs
    <2>3. Renewed(query'[v], query[v], v \in DOMAIN puts, puts[v], v \in vs)
      BY DEF Taken
    <2> QED
      BY <2>1, <2>2, <2>3 DEF Renewed, Restarts
  <1> QED
    BY <1>2, <1>5, <1>6, <1>7, <1>8, <1>9

\* What is still to come after a message that brings v nothing, or that is behind.
LEMMA StillOwes ==
    ASSUME NEW sc, NEW mu, NEW nu, NEW w, NEW u, NEW g, NEW K, IsLeft(g, u, w, K), NEW v, NEW i, NEW l,
           Owes(sc, mu, w, v, l), WillCome(sc, mu, v) => WillCome(sc, nu, v),
           \A k \in 1..Len(w) : (sc.ordered => k > l) /\ Brings(mu, w[k], v) => k \in K,
           \A k \in 1..Len(w) : w[k].kind = "done" => nu[w[k].of].what = mu[w[k].of].what
    PROVE  Owes(sc, nu, u, v, 0)
PROOF
  <1>1. CASE WillCome(sc, mu, v)
    BY <1>1 DEF Owes
  <1>2. CASE ~WillCome(sc, mu, v)
    <2>1. PICK n \in 1..Len(w) : (sc.ordered => n > l) /\ Brings(mu, w[n], v)
      BY <1>2 DEF Owes
    <2>2. n \in K
      BY <2>1
    <2>3. PICK k \in 1..Len(u) : g[k] = n
      BY <2>2 DEF IsLeft
    <2>4. u[k] = w[n] /\ k > 0
      BY <2>3 DEF IsLeft
    <2>5. Brings(nu, u[k], v)
      BY <2>1, <2>4, BringsOn
    <2> QED
      BY <2>4, <2>5 DEF Owes
  <1> QED
    BY <1>1, <1>2

\* What the pages show after that.
LEMMA TakenShows ==
    ASSUME WebInv, PagesAreOrderly, ~Alone(Scene), NEW i \in 1..Len(wire), Scene.ordered => i = 1,
           NEW puts, NEW vs, \A v \in DOMAIN puts : puts[v] \in Data(v), Taken(i, puts, vs),
           \A v \in Scene.views : Brings(mutation, wire[i], v) <=> v \in vs \/ v \in DOMAIN puts,
           \A v \in Scene.views : v \in DOMAIN puts /\ v \notin vs =>
                /\ Scene.ordered /\ wire[i].kind = "done" /\ puts = wire[i].puts
                /\ v \notin Hits(mutation[wire[i].of].what)
    PROVE  PagesInv'
PROOF
  <1>0. /\ Scene' = Scene
        /\ browsed' = browsed /\ truth' = truth /\ unheard' = unheard
    BY DEF Scene, Taken
  <1>1. /\ WebTypes /\ WireInv /\ PagesInv /\ Len(wire) \in Nat
        /\ \A k \in 1..Len(wire) : /\ wire[k].kind \in {"fetch", "event", "done", "refused"}
                                   /\ wire[k].kind \in {"done", "refused"} => wire[k].of \in Scene.jobs
    BY WireMessages DEF WebInv, WireInv
  <1>2. /\ wire' \in Seq(Message(Scene)) /\ \E g : IsLeft(g, wire', wire, Left(i, vs))
        /\ Left(i, vs) \in SUBSET (1..Len(wire))
        /\ \A k \in Left(i, vs) : \A v \in Scene.views :
              AnswerTo(wire[k], v) => ~Restarts(query[v], v \in vs)
        /\ \A k \in 1..Len(wire) : k \in Left(i, vs) \/ k = i \/ wire[k].kind = "fetch"
    BY TakenKeeps
  <1>3. PICK g : IsLeft(g, wire', wire, Left(i, vs))
    BY <1>2
  <1>4. \A k \in 1..Len(wire) : wire[k].kind = "done" =>
            mutation'[wire[k].of].what = mutation[wire[k].of].what
    BY <1>1 DEF Taken
  <1>5. \A v : WillCome(Scene, mutation, v) => WillCome(Scene, mutation', v)
    <2>1. \A j \in Scene.jobs : ReplyTo(wire[i], j) => mutation[j].pc # "sent"
      BY <1>1 DEF WireInv, WireIs
    <2>2. \A j \in Scene.jobs : mutation[j].pc = "sent" => mutation'[j] = mutation[j]
      BY <2>1 DEF Taken
    <2> QED
      BY <2>2 DEF WillCome
  <1>6. SUFFICES ASSUME NEW v \in Scene.views, NEW r \in Shows[v] \ unheard
                 PROVE  PageIs(v, r)' /\ AnswerIs(v, r)' /\ PutIs(v, r)'
    BY <1>0 DEF PagesInv
  <1> DEFINE q == query[v]
             p == query'[v]
  <1>7. /\ Renewed(p, q, v \in DOMAIN puts, puts[v], v \in vs)
        /\ PageIs(v, r) /\ AnswerIs(v, r) /\ PutIs(v, r)
    BY <1>1 DEF PagesInv, Taken
  <1>8. \A k \in 1..Len(wire) : Brings(mutation, wire[k], v) => k \in Left(i, vs) \/ k = i
    BY <1>2 DEF Brings
  <1>9. Scene.ordered \/ ~Brings(mutation, wire[i], v) => AnswerIs(v, r)' /\ PutIs(v, r)'
    <2> HAVE Scene.ordered \/ ~Brings(mutation, wire[i], v)
    <2>1. \A k \in 1..Len(wire) : Brings(mutation, wire[k], v) =>
              k \in Left(i, vs) \/ (Scene.ordered /\ k = 1)
      BY <1>8
    <2> QED
      BY <1>0, <1>1, <1>2, <1>3, <1>4, <1>5, <2>1, PagesKept
  \* Nothing that was asked before answers a page that looks again.
  <1>10. ASSUME \A k \in Left(i, vs) : ~AnswerTo(wire[k], v) PROVE AnswerIs(v, r)'
    <2>1. \A k \in 1..Len(wire') : g[k] \in Left(i, vs) /\ wire'[k] = wire[g[k]]
      BY <1>3 DEF IsLeft
    <2>2. \A k \in 1..Len(wire') : ~AnswerTo(wire'[k], v)
      BY <1>10, <2>1
    <2> QED
      BY <2>2 DEF AnswerIs
  <1>11. CASE v \in vs
    <2>1. Brings(mutation, wire[i], v)
      BY <1>11
    <2>2. PageIs(v, r)'
      <3> SUFFICES ASSUME p.fetch = "none" PROVE Looks(p)
        BY DEF PageIs
      <3>1. ~Restarts(q, v \in vs) /\ q.fetch = "none" /\ p.on = q.on /\ p.invalid
        BY <1>7, <1>11 DEF Renewed
      <3> QED
        BY <1>11, <3>1 DEF Restarts, Looks
    <2>3. CASE Scene.ordered
      BY <1>9, <2>2, <2>3
    <2>4. CASE ~Scene.ordered
      <3>1. ASSUME NEW k \in Left(i, vs) PROVE ~AnswerTo(wire[k], v)
        <4>1. q.data # NoData /\ (~q.on => q.fetch = "none")
          BY <2>4 DEF WebInv, LooseInv
        <4>2. AnswerTo(wire[k], v) => q.fetch = "served" /\ ~Restarts(q, v \in vs)
          BY <1>1, <1>2 DEF WireInv, WireIs
        <4> QED
          BY <1>11, <4>1, <4>2 DEF Restarts
      <3>2. PutIs(v, r)'
        <4>1. \A what \in Scene.mutations : what \notin Fills
          BY <1>1, <2>4, WebTyped, SceneIsOrderly
        <4>2. ASSUME NEW k \in 1..Len(wire'), wire'[k].kind = "done",
                     v \in DOMAIN wire'[k].puts
              PROVE  v \in Hits(mutation'[wire'[k].of].what)
          <5> DEFINE n == g[k]
                     j == wire[n].of
          <5>1. n \in 1..Len(wire) /\ wire'[k] = wire[n]
            BY <1>2, <1>3 DEF IsLeft
          <5> HIDE DEF n
          <5>2. j \in Scene.jobs /\ ReplyTo(wire[n], j) /\ mutation'[j].what = mutation[j].what
            BY <1>1, <1>4, <4>2, <5>1 DEF ReplyTo
          <5>3. mutation[j].pc = "served" /\ v \in HookOf[mutation[j].what].puts
            BY <1>1, <4>2, <5>1, <5>2 DEF WireInv, WireIs
          <5>4. mutation[j].what \in Scene.mutations
            BY <1>1, <5>2, <5>3, WebTyped DEF IsJob
          <5>5. v \in Hits(mutation[j].what)
            <6>1. mutation[j].what \in DOMAIN RequestOf /\ mutation[j].what \notin Fills
              BY <1>1, <4>1, <5>4, WebTyped, SceneIs
            <6> QED
              BY <5>3, <6>1, Coverage
          <5> QED
            BY <5>1, <5>2, <5>5
        <4> QED
          BY <4>2 DEF PutIs
      <3> QED
        BY <1>10, <2>2, <3>1, <3>2
    <2> QED
      BY <2>3, <2>4
  <1>12. CASE v \notin vs
    <2>1. p.fetch = q.fetch /\ p.on = q.on
      BY <1>7, <1>12 DEF Renewed, Restarts
    <2>2. AnswerIs(v, r)' /\ PutIs(v, r)'
      BY <1>9, <1>12
    <2>3. ASSUME NEW l, Owes(Scene, mutation, wire, v, l),
                 ~Brings(mutation, wire[i], v) \/ (Scene.ordered /\ l = i)
          PROVE  Owes(Scene', mutation', wire', v, 0)
      <3>1. \A k \in 1..Len(wire) : (Scene.ordered => k > l) /\ Brings(mutation, wire[k], v) => k \in Left(i, vs)
        BY <1>8, <2>3
      <3>2. Owes(Scene, mutation', wire', v, 0)
        BY <1>3, <1>4, <1>5, <2>3, <3>1, StillOwes
      <3> QED
        BY <1>0, <3>2
    <2>4. CASE v \in DOMAIN puts
      <3>1. /\ Scene.ordered /\ wire[i].kind = "done" /\ puts = wire[i].puts
            /\ v \notin Hits(mutation[wire[i].of].what)
        BY <1>12, <2>4
      <3>2. puts[v][r] = truth[r] \/ Owes(Scene, mutation, wire, v, i)
        BY <1>7, <2>4, <3>1 DEF PutIs
      <3>3. p.data = puts[v]
        BY <1>7, <2>4 DEF Renewed
      <3>4. p.data[r] = truth'[r] \/ Owes(Scene', mutation', wire', v, 0)
        BY <1>0, <2>3, <3>1, <3>2, <3>3
      <3>5. PageIs(v, r)'
        BY <3>4 DEF PageIs
      <3> QED
        BY <2>2, <3>5
    <2>5. CASE v \notin DOMAIN puts
      <3>1. p = q /\ ~Brings(mutation, wire[i], v)
        BY <1>7, <1>12, <2>5 DEF Renewed
      <3>2. q.fetch = "none" =>
                \/ q.failed \/ q.data[r] = truth[r] \/ Looks(q)
                \/ Owes(Scene', mutation', wire', v, 0)
        BY <1>7, <2>3, <3>1 DEF PageIs
      <3>3. p.fetch = "none" =>
                \/ p.failed \/ p.data[r] = truth'[r] \/ Looks(p)
                \/ Owes(Scene', mutation', wire', v, 0)
        BY <1>0, <3>1, <3>2
      <3>4. PageIs(v, r)'
        BY <3>3 DEF PageIs, Looks
      <3> QED
        BY <2>2, <3>4
    <2> QED
      BY <2>4, <2>5
  <1> QED
    BY <1>11, <1>12

\* A reply has been taken: its job is over.
LEMMA JobOver ==
    ASSUME WebTypes, WireInv, NEW i \in 1..Len(wire), wire[i].kind \in {"done", "refused"},
           mutation' = [mutation EXCEPT ![wire[i].of].pc = "over"]
    PROVE  /\ wire[i].of \in Scene.jobs /\ ReplyTo(wire[i], wire[i].of)
           /\ mutation[wire[i].of].what \in Scene.mutations
           /\ mutation' = [j \in Scene.jobs |-> mutation'[j]]
           /\ \A j \in Scene.jobs : IsJob(Scene, mutation'[j])
           /\ \A j \in Scene.jobs :
                IF ReplyTo(wire[i], j)
                THEN mutation'[j].pc = "over" /\ mutation'[j].what = mutation[j].what
                ELSE mutation'[j] = mutation[j]
PROOF
  <1> DEFINE j == wire[i].of
             m == [mutation[j] EXCEPT !.pc = "over"]
  <1>1. j \in Scene.jobs /\ ReplyTo(wire[i], j) /\ \A k : ReplyTo(wire[i], k) => k = j
    BY WireMessages DEF WireInv, ReplyTo
  <1>2. DOMAIN mutation = Scene.jobs /\ IsJob(Scene, mutation[j])
    BY <1>1, WebTyped
  <1>3. mutation[j].pc = "served"
    BY <1>1 DEF WireInv, WireIs
  <1>4. mutation' = [mutation EXCEPT ![j] = m]
    BY <1>1, <1>2
  <1>5. DOMAIN m = {"what", "pc", "undo", "left"} /\ m.pc = "over" /\ m.what = mutation[j].what
    BY <1>2 DEF IsJob
  <1>6. mutation[j].what \in Scene.mutations
    BY <1>2, <1>3 DEF IsJob
  <1> HIDE DEF m
  <1>7. IsJob(Scene, m)
    BY <1>5, <1>6 DEF IsJob
  <1> HIDE DEF j
  <1>8. /\ mutation' = [k \in Scene.jobs |-> mutation'[k]]
        /\ \A k \in Scene.jobs : IsJob(Scene, mutation'[k])
        /\ mutation'[j] = m /\ \A k \in Scene.jobs : k # j => mutation'[k] = mutation[k]
    BY <1>1, <1>4, <1>7, OneJob
  <1>9. \A k \in Scene.jobs : IF ReplyTo(wire[i], k)
                              THEN mutation'[k].pc = "over" /\ mutation'[k].what = mutation[k].what
                              ELSE mutation'[k] = mutation[k]
    BY <1>1, <1>5, <1>8
  <1> QED
    BY <1>1, <1>6, <1>8, <1>9 DEF j

\* What an invalidation hits.
LEMMA UnderIs ==
    ASSUME WebTypes, NEW what
    PROVE  \A v \in Scene.views : v \in Under(HookOf[what].invalidates) <=> v \in Hits(what)
PROOF
  BY WebTyped DEF Under, Hits

\* Where a triage or a seed is alone, its reply is the only message.
LEMMA OnlyReply ==
    ASSUME WireInv, AloneInv, Alone(Scene), NEW i \in 1..Len(wire), NEW k \in 1..Len(wire)
    PROVE  k = i
PROOF
  <1>1. PICK j \in Scene.jobs : ReplyTo(wire[i], j)
    BY DEF AloneInv
  <1>2. PICK l \in Scene.jobs : ReplyTo(wire[k], l)
    BY DEF AloneInv
  <1>3. ReplyTo(wire[k], j)
    BY <1>1, <1>2 DEF Alone
  <1> QED
    BY <1>1, <1>3 DEF WireInv, WireIs

LEMMA DeliverMutationKeeps ==
    ASSUME WebInv, PagesAreOrderly, NEW i \in DOMAIN wire, DeliverMutation(i)
    PROVE  WebInv'
PROOF
  <1> DEFINE j == wire[i].of
             what == mutation[j].what
             puts == wire[i].puts
             vs == Under(HookOf[what].invalidates)
             filled == [v \in DOMAIN query |->
                           IF v \in DOMAIN puts THEN Filled(query, v, puts[v])[v] ELSE query[v]]
  <1>0. /\ Scene' = Scene /\ UNCHANGED <<browsed, truth, connected, unheard>>
        /\ i \in 1..Len(wire) /\ wire[i].kind = "done" /\ (Scene.ordered => i = 1)
        /\ wire' = Without(RemoveAt(wire, i), Restarted(vs)) /\ query' = Invalidated(filled, vs)
        /\ mutation' = [mutation EXCEPT ![wire[i].of].pc = "over"]
    BY WireMessages DEF Scene, DeliverMutation, Arrives, WebInv, WireInv
  <1> HIDE DEF filled
  <1>1. /\ WebTypes /\ WireInv /\ browsed \in DOMAIN Browsed
        /\ \A v \in Scene.views : v \in Queries
    BY WebTyped DEF WebInv
  <1>2. /\ j \in Scene.jobs /\ ReplyTo(wire[i], j) /\ what \in Scene.mutations
        /\ mutation' = [k \in Scene.jobs |-> mutation'[k]]
        /\ \A k \in Scene.jobs : IsJob(Scene, mutation'[k])
        /\ \A k \in Scene.jobs : IF ReplyTo(wire[i], k)
                                 THEN mutation'[k].pc = "over" /\ mutation'[k].what = mutation[k].what
                                 ELSE mutation'[k] = mutation[k]
    BY <1>0, <1>1, JobOver
  <1>3. /\ DOMAIN puts \subseteq HookOf[what].puts
        /\ \A v \in DOMAIN puts : puts[v] \in Data(v)
    BY <1>0, <1>1, <1>2 DEF WireInv, WireIs
  <1>4. \A v \in Scene.views : v \in vs <=> v \in Hits(what)
    BY <1>1, UnderIs
  <1> HIDE DEF vs
  <1>5. /\ query' = [v \in Scene.views |-> query'[v]]
        /\ \A v \in Scene.views :
                /\ IsEntry(query'[v], v)
                /\ Renewed(query'[v], query[v], v \in DOMAIN puts, puts[v], v \in vs)
    <2>1. filled = [v \in DOMAIN query |->
                        IF v \in DOMAIN puts THEN Filled(query, v, puts[v])[v] ELSE query[v]]
      BY DEF filled
    <2> HIDE DEF puts
    <2> QED
      BY <1>0, <1>1, <1>3, <2>1, RenewedIs
  <1>6. Taken(i, puts, vs)
    BY <1>0, <1>2, <1>5 DEF Taken
  <1> HIDE DEF puts
  <1>7. WebTypes'
    BY <1>0, <1>1, <1>2, <1>5 DEF WebTypes
  <1>8. /\ wire' \in Seq(Message(Scene)) /\ \E g : IsLeft(g, wire', wire, Left(i, vs))
        /\ WireInv' /\ LooseInv'
    BY <1>0, <1>3, <1>6, TakenKeeps
  <1>9. ASSUME ~Alone(Scene) PROVE PagesInv'
    <2>1. \A v \in Scene.views : Brings(mutation, wire[i], v) <=> v \in vs \/ v \in DOMAIN puts
      BY <1>0, <1>4 DEF Brings, puts
    <2>2. \A v \in Scene.views : v \in DOMAIN puts /\ v \notin vs =>
                /\ Scene.ordered /\ wire[i].kind = "done" /\ puts = wire[i].puts
                /\ v \notin Hits(mutation[wire[i].of].what)
      <3> SUFFICES ASSUME NEW v \in Scene.views, v \in DOMAIN puts, v \notin Hits(what)
                   PROVE  Scene.ordered
        BY <1>0, <1>4 DEF puts
      <3>1. what \in DOMAIN RequestOf
        BY <1>1, <1>2, SceneIs
      <3>2. what \in Fills
        BY <1>3, <3>1, Coverage
      <3> QED
        BY <1>1, <1>2, <1>9, <3>2, SceneIsOrderly
    <2> QED
      BY <1>0, <1>3, <1>6, <1>9, <2>1, <2>2, TakenShows
  <1>10. PagesInv'
    BY <1>0, <1>9 DEF PagesInv
  <1>11. ASSUME Alone(Scene) PROVE AloneInv'
    <2>1. AloneInv /\ what \in Fills /\ \A k \in Scene.jobs : k = j
      BY <1>2, <1>11 DEF WebInv, Alone
    <2>2. puts = [v \in {"backlog"} |-> Heard(v)]
      BY <1>0, <1>11, <2>1 DEF AloneInv, puts
    <2>3. \A v \in Scene.views : v \notin vs
      BY <1>4, <2>1, HitsIs
    <2>4. \A v : Heard(v)' = Heard(v)
      BY <1>0 DEF Heard
    <2>5. \A v \in Scene.views :
             /\ query'[v].on /\ ~query'[v].failed /\ query'[v].fetch = "none"
             /\ query'[v].data = Heard(v)'
      <3> TAKE v \in Scene.views
      <3>1. /\ query[v].on /\ ~query[v].failed /\ query[v].fetch = "none"
            /\ v # "backlog" => query[v].data = Heard(v)
        BY <1>11, <2>1 DEF AloneInv
      <3>2. Renewed(query'[v], query[v], v \in DOMAIN puts, puts[v], v \in vs) /\ v \notin vs
        BY <1>5, <2>3
      <3>3. DOMAIN puts = {"backlog"} /\ puts["backlog"] = Heard("backlog")
        BY <2>2
      <3> QED
        BY <2>4, <3>1, <3>2, <3>3 DEF Renewed, Restarts
    <2>6. \A k \in 1..Len(wire') : FALSE
      <3>1. PICK g : IsLeft(g, wire', wire, Left(i, vs))
        BY <1>8
      <3>2. \A k \in 1..Len(wire') : g[k] \in 1..Len(wire) /\ g[k] # i
        BY <3>1 DEF IsLeft, Left
      <3> QED
        BY <1>0, <1>1, <1>11, <2>1, <3>2, OnlyReply
    <2>7. \A k \in Scene.jobs : mutation'[k].pc = "over"
      BY <1>2, <2>1
    <2>8. \A r \in unheard' : r \in Resources /\ truth'[r] > 0
      BY <1>0, <1>11, <2>1 DEF AloneInv
    <2> QED
      BY <1>0, <2>5, <2>6, <2>7, <2>8 DEF AloneInv
  <1>12. AloneInv'
    BY <1>0, <1>11 DEF AloneInv
  <1> QED
    BY <1>7, <1>8, <1>10, <1>12 DEF WebInv

LEMMA DeliverEventKeeps ==
    ASSUME WebInv, PagesAreOrderly, NEW i \in DOMAIN wire, DeliverEvent(i)
    PROVE  WebInv'
PROOF
  <1> DEFINE vs == DOMAIN query
  <1>0. /\ Scene' = Scene /\ UNCHANGED <<browsed, truth, mutation, connected, unheard>>
        /\ i \in 1..Len(wire) /\ wire[i].kind = "event" /\ (Scene.ordered => i = 1)
        /\ wire' = Without(RemoveAt(wire, i), Restarted(vs)) /\ query' = Invalidated(query, vs)
    BY WireMessages DEF Scene, DeliverEvent, Arrives, WebInv, WireInv
  <1>1. /\ WebTypes /\ WireInv /\ DOMAIN query = Scene.views
        /\ \A v \in Scene.views : v \in Queries
    BY WebTyped DEF WebInv
  <1>2. \A v \in Scene.views : v \in vs
    BY <1>1
  <1> HIDE DEF vs
  <1>3. DOMAIN NoData = {}
    BY NothingPut
  <1>4. /\ query' = [v \in Scene.views |-> query'[v]]
        /\ \A v \in Scene.views :
                /\ IsEntry(query'[v], v)
                /\ Renewed(query'[v], query[v], v \in DOMAIN NoData, NoData[v], v \in vs)
    <2>1. query = [v \in DOMAIN query |->
                        IF v \in DOMAIN NoData THEN Filled(query, v, NoData[v])[v] ELSE query[v]]
      <3>1. query = [v \in DOMAIN query |-> query[v]]
        BY <1>1 DEF WebTypes
      <3> QED
        BY <1>3, <3>1
    <2>2. \A v \in DOMAIN NoData : NoData[v] \in Data(v)
      BY <1>3
    <2> QED
      BY <1>0, <1>1, <2>1, <2>2, RenewedIs
  <1>5. Taken(i, NoData, vs)
    <2>1. \A j : ~ReplyTo(wire[i], j)
      BY <1>0 DEF ReplyTo
    <2> QED
      BY <1>0, <1>4, <2>1 DEF Taken
  <1>6. \A v \in DOMAIN NoData : NoData[v] \in Data(v)
    BY <1>3
  <1>7. WebTypes'
    BY <1>0, <1>1, <1>4 DEF WebTypes
  <1>8. WireInv' /\ LooseInv'
    BY <1>0, <1>5, <1>6, TakenKeeps
  <1>9. ~Alone(Scene)
    <2> SUFFICES ASSUME Alone(Scene) PROVE FALSE
      OBVIOUS
    <2>1. \E j \in Scene.jobs : ReplyTo(wire[i], j)
      BY <1>0 DEF WebInv, AloneInv
    <2> QED
      BY <1>0, <2>1 DEF ReplyTo
  <1>10. PagesInv'
    <2>1. \A v \in Scene.views : Brings(mutation, wire[i], v) <=> v \in vs \/ v \in DOMAIN NoData
      BY <1>0, <1>2 DEF Brings
    <2> QED
      BY <1>0, <1>2, <1>5, <1>6, <1>9, <2>1, TakenShows
  <1>11. AloneInv'
    BY <1>0, <1>9 DEF AloneInv
  <1> QED
    BY <1>7, <1>8, <1>10, <1>11 DEF WebInv

\* onError: a triage puts back what the page showed before, where it is alone.
LEMMA DeliverRefusalKeeps ==
    ASSUME WebInv, NEW i \in DOMAIN wire, DeliverRefusal(i)
    PROVE  WebInv'
PROOF
  <1> DEFINE j == wire[i].of
             K == 1..Len(wire) \ {i}
  <1>0. /\ Scene' = Scene /\ UNCHANGED <<browsed, truth, connected, unheard>>
        /\ i \in 1..Len(wire) /\ wire[i].kind = "refused" /\ (Scene.ordered => i = 1)
        /\ wire' = RemoveAt(wire, i)
        /\ mutation' = [mutation EXCEPT ![wire[i].of].pc = "over"]
        /\ query' = IF mutation[j].what = "triage" THEN Filled(query, "backlog", mutation[j].undo) ELSE query
    BY WireMessages DEF Scene, DeliverRefusal, Arrives, WebInv, WireInv
  <1>1. /\ WebTypes /\ WireInv /\ PagesInv /\ browsed \in DOMAIN Browsed /\ DOMAIN query = Scene.views
        /\ \A v \in Scene.views : v \in Queries /\ IsEntry(query[v], v)
        /\ wire \in Seq(Message(Scene)) /\ Len(wire) \in Nat
    BY WebTyped, WireMessages DEF WebInv, WireInv
  <1>2. /\ j \in Scene.jobs /\ ReplyTo(wire[i], j) /\ mutation[j].what \in Scene.mutations
        /\ mutation' = [k \in Scene.jobs |-> mutation'[k]]
        /\ \A k \in Scene.jobs : IsJob(Scene, mutation'[k])
        /\ \A k \in Scene.jobs : IF ReplyTo(wire[i], k)
                                 THEN mutation'[k].pc = "over" /\ mutation'[k].what = mutation[k].what
                                 ELSE mutation'[k] = mutation[k]
    BY <1>0, <1>1, JobOver
  <1>3. mutation[j].what = "triage" => Alone(Scene) /\ "backlog" \in Scene.views
    BY <1>0, <1>1, <1>2, SceneIs DEF WireInv, WireIs
  <1> HIDE DEF j
  <1>4. Alone(Scene) /\ mutation[j].what = "triage" => mutation[j].undo = Heard("backlog")
    <2>1. AloneInv /\ \A k \in Scene.jobs : ReplyTo(wire[i], k) => k = j
      BY DEF WebInv, ReplyTo, j
    <2> QED
      BY <1>0, <2>1 DEF AloneInv
  <1>5. /\ Alone(Scene) => Heard("backlog") \in Data("backlog") /\ Heard("backlog") # NoData
        /\ \A v : Heard(v)' = Heard(v)
    <2>1. truth \in [Resources -> Nat] /\ "backlog" \in Queries
      BY <1>1, ShowsIs DEF WebTypes
    <2>2. Alone(Scene) => \A r \in unheard : r \in Resources /\ truth[r] > 0
      BY DEF WebInv, AloneInv
    <2>3. \A v : Heard(v)' = Heard(v)
      BY <1>0 DEF Heard
    <2> QED
      BY <2>1, <2>2, <2>3, HeardIs
  <1>6. /\ query' = [v \in Scene.views |-> query'[v]]
        /\ \A v \in Scene.views : /\ IsEntry(query'[v], v)
                                  /\ query'[v].on = query[v].on /\ query'[v].fetch = query[v].fetch
                                  /\ v # "backlog" \/ mutation[j].what # "triage" => query'[v] = query[v]
        /\ mutation[j].what = "triage" =>
                query'["backlog"].data = Heard("backlog") /\ ~query'["backlog"].failed
    <2>1. CASE mutation[j].what = "triage"
      <3> DEFINE b == "backlog"
                 q == query[b]
                 p == [q EXCEPT !.data = mutation[j].undo, !.invalid = FALSE, !.aged = FALSE, !.failed = FALSE]
      <3>1. b \in Scene.views /\ IsEntry(q, b) /\ mutation[j].undo = Heard(b)
        BY <1>1, <1>3, <1>4, <2>1
      <3>2. query' = [query EXCEPT ![b] = p]
        BY <1>0, <1>1, <2>1, <3>1 DEF Filled
      <3>3. /\ IsEntry(p, b) /\ p.on = q.on /\ p.fetch = q.fetch /\ p.data = Heard(b) /\ ~p.failed
        BY <1>3, <1>5, <2>1, <3>1 DEF IsEntry
      <3> HIDE DEF p
      <3>4. /\ query' = [u \in Scene.views |-> query'[u]]
            /\ \A u \in Scene.views : IsEntry(query'[u], u)
            /\ query'[b] = p /\ \A u \in Scene.views : u # b => query'[u] = query[u]
        BY <1>1, <3>1, <3>2, <3>3, OnePage
      <3>5. \A v \in Scene.views : query'[v].on = query[v].on /\ query'[v].fetch = query[v].fetch
        <4> TAKE v \in Scene.views
        <4>1. CASE v = b
          BY <3>3, <3>4, <4>1
        <4>2. CASE v # b
          BY <3>4, <4>2
        <4> QED
          BY <4>1, <4>2
      <3> QED
        BY <2>1, <3>3, <3>4, <3>5
    <2>2. CASE mutation[j].what # "triage"
      BY <1>0, <1>1, <2>2 DEF WebTypes, j
    <2> QED
      BY <2>1, <2>2
  <1>7. WebTypes'
    BY <1>0, <1>1, <1>2, <1>6 DEF WebTypes
  <1>8. PICK g : wire' \in Seq(Message(Scene)) /\ IsLeft(g, wire', wire, K)
    BY <1>0, <1>1, RemovedIs
  <1>9. K \in SUBSET (1..Len(wire)) /\ \A k \in 1..Len(wire) : k \in K <=> k # i
    OBVIOUS
  <1> HIDE DEF K
  <1>10. WireInv'
    <2>1. ASSUME NEW k \in K, NEW l \in Scene.jobs, ReplyTo(wire[k], l)
          PROVE  mutation'[l].pc = mutation[l].pc /\ mutation'[l].what = mutation[l].what
      <3>1. k \in 1..Len(wire) /\ k # i
        BY <1>9
      <3>2. ~ReplyTo(wire[i], l)
        BY <1>0, <1>1, <2>1, <3>1 DEF WireInv, WireIs
      <3> QED
        BY <1>2, <3>2
    <2>2. \A k \in K : \A v \in Scene.views : AnswerTo(wire[k], v) => query'[v].fetch = query[v].fetch
      BY <1>6
    <2>3. WireIs(Scene, query, mutation, wire)
      BY <1>1 DEF WireInv
    <2>4. WireIs(Scene, query', mutation', wire')
      BY <1>8, <1>9, <2>1, <2>2, <2>3, WireLeft
    <2> QED
      BY <1>0, <2>4 DEF WireInv
  <1>11. LooseInv'
    <2>1. mutation[j].what = "triage" => Heard("backlog") # NoData
      BY <1>3, <1>5
    <2>2. \A v \in Scene.views : query'[v].data = query[v].data \/ query'[v].data # NoData
      <3> TAKE v \in Scene.views
      <3>1. CASE v = "backlog" /\ mutation[j].what = "triage"
        BY <1>6, <2>1, <3>1
      <3>2. CASE ~(v = "backlog" /\ mutation[j].what = "triage")
        BY <1>6, <3>2
      <3> QED
        BY <3>1, <3>2
    <2> QED
      BY <1>0, <1>6, <2>2 DEF WebInv, LooseInv
  <1>12. ASSUME ~Alone(Scene), NEW v \in Scene.views, NEW r \in Shows[v] \ unheard
         PROVE  PageIs(v, r)' /\ AnswerIs(v, r)' /\ PutIs(v, r)'
    <2>1. \A n \in 1..Len(wire) : Brings(mutation, wire[n], v) => n \in K
      BY <1>0, <1>9 DEF Brings
    <2>2. \A k \in 1..Len(wire) : wire[k].kind = "done" =>
              mutation'[wire[k].of].what = mutation[wire[k].of].what
      <3>1. \A k \in 1..Len(wire) : wire[k].kind = "done" => wire[k].of \in Scene.jobs
        BY <1>1, WireMessages DEF WireInv
      <3> QED
        BY <1>2, <3>1
    <2>3. WillCome(Scene, mutation, v) => WillCome(Scene, mutation', v)
      <3>1. \A k \in Scene.jobs : ReplyTo(wire[i], k) => mutation[k].pc # "sent"
        BY <1>0, <1>1 DEF WireInv, WireIs
      <3>2. \A k \in Scene.jobs : mutation[k].pc = "sent" => mutation'[k] = mutation[k]
        BY <1>2, <3>1
      <3> QED
        BY <3>2 DEF WillCome
    <2>4. AnswerIs(v, r)' /\ PutIs(v, r)'
      BY <1>0, <1>1, <1>8, <1>9, <1>12, <2>1, <2>2, <2>3, PagesKept
    <2>5. query'[v] = query[v] /\ PageIs(v, r)
      BY <1>1, <1>3, <1>6, <1>12 DEF PagesInv
    <2>6. Owes(Scene, mutation, wire, v, 0) => Owes(Scene', mutation', wire', v, 0)
      <3> DEFINE z == 0
      <3> HIDE DEF z
      <3>1. \A k \in 1..Len(wire) : (Scene.ordered => k > z) /\ Brings(mutation, wire[k], v) => k \in K
        BY <2>1
      <3>2. Owes(Scene, mutation, wire, v, z) => Owes(Scene, mutation', wire', v, 0)
        BY <1>8, <2>2, <2>3, <3>1, StillOwes
      <3> QED
        BY <1>0, <3>2 DEF z
    <2>7. query'[v].fetch = "none" =>
              \/ query'[v].failed \/ query'[v].data[r] = truth'[r] \/ Looks(query'[v])
              \/ Owes(Scene', mutation', wire', v, 0)
      BY <1>0, <2>5, <2>6 DEF PageIs
    <2> QED
      BY <2>4, <2>7 DEF PageIs, Looks
  <1>13. PagesInv'
    BY <1>0, <1>12 DEF PagesInv
  <1>14. ASSUME Alone(Scene) PROVE AloneInv'
    <2>1. AloneInv /\ mutation[j].what \in Fills /\ \A k \in Scene.jobs : k = j
      BY <1>2, <1>14 DEF WebInv, Alone, j
    <2>2. \A v \in Scene.views : /\ query[v].on /\ ~query[v].failed /\ query[v].fetch = "none"
                                 /\ v # "backlog" => query[v].data = Heard(v)
      BY <1>14, <2>1 DEF AloneInv
    <2>3. mutation[j].what # "triage" /\ "backlog" \in Scene.views => query["backlog"].data = Heard("backlog")
      <3>1. PICK k \in Scene.jobs :
                wire[i].kind = "refused" /\ mutation[k].what = "seed" /\ "backlog" \in Scene.views =>
                    query["backlog"].data = Heard("backlog")
        BY <1>0, <1>14, <2>1 DEF AloneInv
      <3>2. mutation[k].what = mutation[j].what
        BY <2>1
      <3> QED
        BY <1>0, <2>1, <3>1, <3>2 DEF Fills
    <2>4. \A v \in Scene.views : /\ query'[v].on /\ ~query'[v].failed /\ query'[v].fetch = "none"
                                 /\ query'[v].data = Heard(v)'
      <3> TAKE v \in Scene.views
      <3>1. CASE v = "backlog" /\ mutation[j].what = "triage"
        BY <1>5, <1>6, <2>2, <3>1
      <3>2. CASE ~(v = "backlog" /\ mutation[j].what = "triage")
        BY <1>5, <1>6, <2>2, <2>3, <3>2
      <3> QED
        BY <3>1, <3>2
    <2>5. \A k \in 1..Len(wire') : FALSE
      <3>1. \A k \in 1..Len(wire') : g[k] \in 1..Len(wire) /\ g[k] # i
        BY <1>8, <1>9 DEF IsLeft
      <3> QED
        BY <1>0, <1>1, <1>14, <2>1, <3>1, OnlyReply
    <2>6. \A k \in Scene.jobs : mutation'[k].pc = "over"
      BY <1>2, <2>1 DEF j
    <2>7. \A r \in unheard' : r \in Resources /\ truth'[r] > 0
      BY <1>0, <1>14, <2>1 DEF AloneInv
    <2> QED
      BY <1>0, <2>4, <2>5, <2>6, <2>7 DEF AloneInv
  <1>15. AloneInv'
    BY <1>0, <1>14 DEF AloneInv
  <1> QED
    BY <1>7, <1>10, <1>11, <1>13, <1>15 DEF WebInv

-----------------------------------------------------------------------------
(***************************************************************************)
(* What others do.                                                         *)
(***************************************************************************)

LEMMA ElsewhereKeeps ==
    ASSUME WebInv, Elsewhere
    PROVE  WebInv'
PROOF
  <1> DEFINE e == [kind |-> "event"]
  <1>0. PICK o \in Scene.elsewhere :
            /\ truth' = Written({o}) /\ wire' = Told(wire, o = "world")
            /\ unheard' = IF o # "world" \/ ~connected THEN unheard \cup {o} ELSE {}
            /\ UNCHANGED <<browsed, query, mutation, connected>>
    BY DEF Elsewhere
  <1>1. /\ WebTypes /\ WireInv /\ PagesInv /\ browsed \in DOMAIN Browsed /\ Scene' = Scene
        /\ \A v \in Scene.views : v \in Queries
        /\ wire \in Seq(Message(Scene)) /\ Len(wire) \in Nat
    BY <1>0, WebTyped, WireMessages DEF WebInv, WireInv, Scene
  <1>2. /\ truth' \in [Resources -> Nat]
        /\ \A s \in Resources : s # o => truth'[s] = truth[s]
    <2> DEFINE rs == {o}
    <2>1. truth' = Written(rs)
      BY <1>0
    <2> HIDE DEF rs
    <2>2. truth' \in [Resources -> Nat] /\ \A s \in Resources : s \notin rs => truth'[s] = truth[s]
      BY <1>1, <2>1, WrittenIs
    <2> QED
      BY <2>2 DEF rs
  <1>3. WebTypes'
    BY <1>0, <1>1, <1>2 DEF WebTypes
  <1>4. LooseInv'
    BY <1>0, <1>1 DEF WebInv, LooseInv
  <1>5. ~Alone(Scene)
    BY DEF Alone
  <1>6. e \in Message(Scene) /\ e.kind = "event"
    BY DEF Message
  <1>7. \A i \in 1..Len(wire) : wire[i].kind = "done" =>
            mutation'[wire[i].of].what = mutation[wire[i].of].what
    BY <1>0
  <1>8. CASE o = "world" /\ connected
    <2>1. wire' = Append(wire, e) /\ unheard' = {}
      BY <1>0, <1>8 DEF Told
    <2> HIDE DEF e
    <2>2. /\ wire' \in Seq(Message(Scene)) /\ Extends(wire', wire)
          /\ Len(wire') = Len(wire) + 1 /\ wire'[Len(wire) + 1] = e
      BY <1>1, <1>6, <2>1, AppendExtends
    <2>3. WireInv'
      <3>1. WireIs(Scene, query, mutation, wire')
        BY <1>1, <2>1, EventAppend DEF WireInv, e
      <3> QED
        BY <1>0, <1>1, <3>1 DEF WireInv
    <2>4. ASSUME NEW v \in Scene.views, NEW r \in Shows[v]
          PROVE  PageIs(v, r)' /\ AnswerIs(v, r)' /\ PutIs(v, r)'
      <3>1. Brings(mutation', wire'[Len(wire) + 1], v)
        BY <1>6, <2>2 DEF Brings
      <3>2. \E n \in 1..Len(wire') : n > Len(wire) /\ Brings(mutation', wire'[n], v)
        BY <1>1, <2>2, <3>1
      <3>3. ASSUME NEW n \in 1..Len(wire'), n > Len(wire)
            PROVE  ~AnswerTo(wire'[n], v) /\ wire'[n].kind # "done"
        <4>1. n = Len(wire) + 1
          BY <1>1, <2>2, <3>3
        <4> QED
          BY <1>6, <2>2, <4>1 DEF AnswerTo
      <3>4. browsed' = browsed /\ query'[v] = query[v]
        BY <1>0
      <3>5. AnswerIs(v, r)' /\ PutIs(v, r)' /\ (query'[v] = query[v] => PageIs(v, r)')
        BY <1>1, <1>5, <1>7, <2>2, <3>2, <3>3, <3>4, PagesMore
      <3> QED
        BY <3>4, <3>5
    <2>5. PagesInv'
      BY <1>1, <2>4 DEF PagesInv
    <2>6. AloneInv'
      BY <1>1, <1>5 DEF AloneInv
    <2> QED
      BY <1>3, <1>4, <2>3, <2>5, <2>6 DEF WebInv
  <1>9. CASE ~(o = "world" /\ connected)
    <2>1. wire' = wire /\ unheard' = unheard \cup {o}
      BY <1>0, <1>9 DEF Told
    <2>2. WireInv'
      BY <1>0, <1>1, <2>1 DEF WireInv
    <2>3. ASSUME NEW v \in Scene.views, NEW r \in Shows[v], r \notin unheard, r # o
          PROVE  PageIs(v, r)' /\ AnswerIs(v, r)' /\ PutIs(v, r)'
      <3>1. wire' \in Seq(Message(Scene)) /\ Extends(wire', wire)
        BY <1>1, <2>1 DEF Extends
      <3>2. \A n \in 1..Len(wire') : ~(n > Len(wire))
        BY <1>1, <2>1
      <3>3. browsed' = browsed /\ query'[v] = query[v] /\ mutation' = mutation
        BY <1>0
      <3>4. truth'[r] = truth[r]
        BY <1>1, <1>2, <2>3, ShownIs
      <3>5. AnswerIs(v, r)' /\ PutIs(v, r)' /\ (query'[v] = query[v] => PageIs(v, r)')
        BY <1>1, <1>5, <1>7, <2>3, <3>1, <3>2, <3>3, <3>4, PagesMore
      <3> QED
        BY <3>3, <3>5
    <2>4. PagesInv'
      BY <1>1, <2>1, <2>3 DEF PagesInv
    <2>5. AloneInv'
      BY <1>1, <1>5 DEF AloneInv
    <2> QED
      BY <1>3, <1>4, <2>2, <2>4, <2>5 DEF WebInv
  <1> QED
    BY <1>8, <1>9

LEMMA DisconnectKeeps ==
    ASSUME WebInv, Disconnect
    PROVE  WebInv'
PROOF
  <1> DEFINE K == {k \in 1..Len(wire) : wire[k].kind # "event"}
  <1>0. /\ Scene' = Scene /\ Scene.breaks /\ connected' = FALSE /\ wire' = Unbroken(wire)
        /\ unheard' = (IF wire' = wire THEN unheard ELSE Resources)
        /\ UNCHANGED <<browsed, truth, query, mutation>>
    BY DEF Disconnect, Scene, Unbroken
  <1>1. /\ WebTypes /\ WireInv /\ PagesInv /\ AloneInv /\ wire \in Seq(Message(Scene))
        /\ \A v \in Scene.views : v \in Queries
    BY WebTyped, WireMessages DEF WebInv, WireInv
  <1>2. WebTypes' /\ LooseInv'
    BY <1>0 DEF WebInv, WebTypes, LooseInv
  <1>3. PICK g : wire' \in Seq(Message(Scene)) /\ IsLeft(g, wire', wire, K)
    BY <1>0, <1>1, UnbrokenIs
  <1>4. K \in SUBSET (1..Len(wire))
    OBVIOUS
  <1> HIDE DEF K
  <1>5. WireInv'
    <2>1. WireIs(Scene, query, mutation, wire')
      BY <1>1, <1>3, <1>4, WireLeft DEF WireInv
    <2> QED
      BY <1>0, <2>1 DEF WireInv
  <1>6. PagesInv'
    <2>1. CASE wire' = wire
      <3>1. \A v, r : PageIs(v, r)' <=> PageIs(v, r)
        BY <1>0, <2>1 DEF PageIs, Looks
      <3>2. \A v, r : AnswerIs(v, r)' <=> AnswerIs(v, r)
        BY <1>0, <2>1 DEF AnswerIs
      <3>3. \A v, r : PutIs(v, r)' <=> PutIs(v, r)
        BY <1>0, <2>1 DEF PutIs
      <3> QED
        BY <1>0, <1>1, <2>1, <3>1, <3>2, <3>3 DEF PagesInv
    <2>2. CASE wire' # wire
      <3>1. unheard' = Resources
        BY <1>0, <2>2
      <3>2. \A v \in Scene.views : Shows[v] \ Resources = {}
        BY <1>1, ShownIs
      <3> QED
        BY <1>0, <3>1, <3>2 DEF PagesInv
    <2> QED
      BY <2>1, <2>2
  <1>7. AloneInv'
    <2> SUFFICES ASSUME Alone(Scene) PROVE AloneInv'
      BY <1>0 DEF AloneInv
    <2>1. \A k \in 1..Len(wire) : wire[k].kind # "event" /\ \A l \in 1..Len(wire) : k = l
      BY <1>1, OnlyReply DEF AloneInv, ReplyTo
    <2>2. \A k \in 1..Len(wire') : g[k] \in 1..Len(wire) /\ wire'[k] = wire[g[k]]
      BY <1>3, <1>4 DEF IsLeft
    <2>3. \A k, l \in 1..Len(wire') : k = l
      <3> SUFFICES ASSUME NEW k \in 1..Len(wire'), NEW l \in 1..Len(wire'), k < l PROVE FALSE
        BY LenProperties
      <3>1. g[k] < g[l] /\ g[k] = g[l] /\ g[k] \in Nat
        BY <1>3, <2>1, <2>2 DEF IsLeft
      <3> QED
        BY <3>1
    <2>4. \A k \in 1..Len(wire) : \E l \in 1..Len(wire') : g[l] = k
      <3>1. \A k \in 1..Len(wire) : k \in K
        BY <2>1 DEF K
      <3> QED
        BY <1>3, <3>1 DEF IsLeft
    <2>5. Len(wire) = Len(wire') /\ \A k \in 1..Len(wire) : wire'[k] = wire[k]
      <3>1. Len(wire) \in Nat /\ Len(wire') \in Nat
        BY <1>1, <1>3, LenProperties
      <3>2. Len(wire) <= 1 /\ Len(wire') <= 1
        <4>1. Len(wire) > 1 => 1 \in 1..Len(wire) /\ 2 \in 1..Len(wire)
          BY <3>1
        <4>2. Len(wire') > 1 => 1 \in 1..Len(wire') /\ 2 \in 1..Len(wire')
          BY <3>1
        <4> QED
          BY <2>1, <2>3, <3>1, <4>1, <4>2
      <3>3. Len(wire) = 1 <=> Len(wire') = 1
        <4>1. Len(wire) = 1 => 1 \in 1..Len(wire)
          BY <3>1
        <4>2. Len(wire') = 1 => 1 \in 1..Len(wire')
          BY <3>1
        <4>3. Len(wire) = 1 => \E l \in 1..Len(wire') : TRUE
          BY <2>4, <4>1
        <4>4. Len(wire') = 1 => \E l \in 1..Len(wire) : TRUE
          BY <2>2, <4>2
        <4> QED
          BY <3>1, <3>2, <4>3, <4>4
      <3>4. Len(wire) = Len(wire')
        <4>1. \A x, y \in Nat : x <= 1 /\ y <= 1 /\ (x = 1 <=> y = 1) => x = y
          OBVIOUS
        <4> QED
          BY <3>1, <3>2, <3>3, <4>1
      <3>5. \A k \in 1..Len(wire') : g[k] = k
        BY <2>1, <2>2, <3>4
      <3> QED
        BY <2>2, <3>4, <3>5
    <2>6. wire' = wire
      BY <1>1, <1>3, <2>5, SeqEqual
    <2>7. unheard' = unheard
      BY <1>0, <2>6
    <2>8. \A v : Heard(v)' = Heard(v)
      BY <1>0, <2>7 DEF Heard
    <2>9. [v \in {"backlog"} |-> Heard(v)'] = [v \in {"backlog"} |-> Heard(v)]
      BY <2>8
    <2> QED
      BY <1>0, <1>1, <2>6, <2>7, <2>8, <2>9 DEF AloneInv
  <1> QED
    BY <1>2, <1>5, <1>6, <1>7 DEF WebInv

LEMMA NothingKeeps ==
    ASSUME WebInv, UNCHANGED <<browsed, truth, query, mutation, wire, unheard>>,
           connected' = connected \/ connected' = TRUE
    PROVE  WebInv'
PROOF
  <1>1. Scene' = Scene
    BY DEF Scene
  <1>2. WebTypes' /\ LooseInv' /\ WireInv'
    BY <1>1 DEF WebInv, WebTypes, LooseInv, WireInv
  <1>3. /\ \A v, r : PageIs(v, r)' <=> PageIs(v, r)
        /\ \A v, r : AnswerIs(v, r)' <=> AnswerIs(v, r)
        /\ \A v, r : PutIs(v, r)' <=> PutIs(v, r)
    BY <1>1 DEF PageIs, Looks, AnswerIs, PutIs
  <1>4. PagesInv'
    BY <1>1, <1>3 DEF WebInv, PagesInv
  <1>5. AloneInv'
    <2>1. \A v : Heard(v)' = Heard(v)
      BY DEF Heard
    <2>2. [v \in {"backlog"} |-> Heard(v)'] = [v \in {"backlog"} |-> Heard(v)]
      BY <2>1
    <2> QED
      BY <1>1, <2>1, <2>2 DEF WebInv, AloneInv
  <1> QED
    BY <1>2, <1>4, <1>5 DEF WebInv

-----------------------------------------------------------------------------
(***************************************************************************)
(* Theorems.                                                               *)
(***************************************************************************)

LEMMA WebStarts ==
    ASSUME PagesAreOrderly, WebInit
    PROVE  WebInv
PROOF
  <1> DEFINE data(v) == IF v \in Scene.opening THEN NoData ELSE Fresh(v)
  <1>1. /\ browsed \in DOMAIN Browsed /\ wire = <<>> /\ connected = TRUE /\ unheard = {}
        /\ truth = [r \in Resources |-> 0]
        /\ query = [v \in Scene.views |-> Entry(data(v), TRUE)]
        /\ mutation = [j \in Scene.jobs |-> NoMutation]
    BY DEF WebInit
  <1>2. /\ Scene.views \subseteq Queries /\ Scene.opening \subseteq Scene.views
        /\ (Scene.ordered \/ Scene.opening = {})
    BY <1>1, SceneIs, SceneIsOrderly
  <1>3. truth \in [Resources -> Nat]
    BY <1>1
  <1>4. ASSUME NEW v \in Scene.views
        PROVE  /\ IsEntry(query[v], v) /\ query[v].on /\ ~query[v].failed
               /\ IF v \in Scene.opening THEN query[v].fetch = "asked"
                  ELSE query[v].data = Fresh(v) /\ query[v].data # NoData /\ query[v].fetch = "none"
    <2>1. Fresh(v) \in Data(v) /\ Fresh(v) # NoData
      BY <1>2, <1>3, DataIs DEF Fresh
    <2>2. data(v) \in {NoData} \cup Data(v)
      BY <2>1
    <2>3. query[v] = Entry(data(v), TRUE)
      BY <1>1
    <2>4. /\ DOMAIN query[v] = {"data", "invalid", "aged", "on", "fetch", "failed"}
          /\ query[v].data = data(v) /\ query[v].invalid = FALSE /\ query[v].aged = FALSE
          /\ query[v].on = TRUE /\ query[v].failed = FALSE
          /\ query[v].fetch = IF data(v) = NoData THEN "asked" ELSE "none"
      <3> HIDE DEF data
      <3> QED
        BY <2>3 DEF Entry
    <2>5. IsEntry(query[v], v)
      BY <2>2, <2>4 DEF IsEntry
    <2> QED
      BY <2>1, <2>4, <2>5
  <1> HIDE DEF data
  <1>5. \A j \in Scene.jobs : IsJob(Scene, mutation[j]) /\ mutation[j].pc = "idle"
    <2>1. DOMAIN NoMutation = {"what", "pc", "undo", "left"} /\ NoMutation.pc = "idle"
      BY DEF NoMutation
    <2> QED
      BY <1>1, <2>1 DEF IsJob
  <1>6. WebTypes
    <2>1. query = [v \in Scene.views |-> query[v]]
      BY <1>1
    <2>2. mutation = [j \in Scene.jobs |-> mutation[j]]
      BY <1>1
    <2> QED
      BY <1>1, <1>3, <1>4, <1>5, <2>1, <2>2 DEF WebTypes
  <1>7. wire \in Seq(Message(Scene)) /\ Len(wire) = 0
    BY <1>1, EmptySeq
  <1>8. \A k : k \notin 1..Len(wire)
    BY <1>7
  <1>9. WireInv
    BY <1>7, <1>8 DEF WireInv, WireIs
  <1>10. LooseInv
    BY <1>2, <1>4 DEF LooseInv
  <1>11. PagesInv
    <2>1. ASSUME NEW v \in Scene.views, NEW r \in Shows[v], query[v].fetch = "none"
          PROVE  query[v].data[r] = truth[r]
      BY <1>4, <2>1 DEF Fresh
    <2>2. \A v \in Scene.views : \A r \in Shows[v] : PageIs(v, r)
      BY <2>1 DEF PageIs
    <2>3. \A v, r : AnswerIs(v, r) /\ PutIs(v, r)
      BY <1>8 DEF AnswerIs, PutIs
    <2> QED
      BY <2>2, <2>3 DEF PagesInv
  <1>12. AloneInv
    <2>1. Alone(Scene) => \A v \in Scene.views : v \notin Scene.opening
      BY DEF Alone
    <2>2. \A v : Heard(v) = Fresh(v)
      BY <1>1 DEF Heard, Fresh
    <2> QED
      BY <1>1, <1>4, <1>5, <1>8, <2>1, <2>2 DEF AloneInv
  <1> QED
    BY <1>6, <1>9, <1>10, <1>11, <1>12 DEF WebInv

LEMMA WebSteps ==
    ASSUME PagesAreOrderly, WebInv, [WebNext]_webVars
    PROVE  WebInv'
PROOF
  <1>1. CASE \E v \in DOMAIN query : Mount(v) \/ Unmount(v) \/ Age(v) \/ ServeFetch(v)
    BY <1>1, MountKeeps, UnmountKeeps, AgeKeeps, ServeFetchKeeps
  <1>2. CASE \E j \in DOMAIN mutation : Mutate(j) \/ ServeMutation(j) \/ RefuseMutation(j)
    BY <1>2, MutationKeeps, ServeMutationKeeps, RefuseMutationKeeps
  <1>3. CASE \E i \in DOMAIN wire : DeliverFetch(i) \/ DeliverMutation(i) \/ DeliverRefusal(i)
                                    \/ DeliverEvent(i)
    BY <1>3, DeliverFetchKeeps, DeliverMutationKeeps, DeliverRefusalKeeps, DeliverEventKeeps
  <1>4. CASE Elsewhere
    BY <1>4, ElsewhereKeeps
  <1>5. CASE Disconnect
    BY <1>5, DisconnectKeeps
  <1>6. CASE Reconnect
    BY <1>6, NothingKeeps DEF Reconnect
  <1>7. CASE UNCHANGED webVars
    BY <1>7, NothingKeeps DEF webVars
  <1> QED
    BY <1>1, <1>2, <1>3, <1>4, <1>5, <1>6, <1>7 DEF WebNext

\* What the invariant says when nothing is on its way.
LEMMA QuietPages ==
    ASSUME WebInv
    PROVE  PagesShowTheTruth
PROOF
  <1> SUFFICES ASSUME Quiet, NEW v \in Scene.views, query[v].on, ~query[v].failed,
                      NEW r \in Shows[v] \ unheard
               PROVE  query[v].data[r] = truth[r]
    BY WebTyped DEF PagesShowTheTruth, WebInv
  <1>1. /\ wire = <<>> /\ Len(wire) = 0 /\ query[v].fetch = "none"
        /\ \A j \in Scene.jobs : mutation[j].pc \in {"idle", "over"}
    BY WebTyped DEF Quiet, WebInv
  <1>2. CASE ~Alone(Scene)
    <2>1. PageIs(v, r)
      BY <1>2 DEF WebInv, PagesInv
    <2>2. ~Owes(Scene, mutation, wire, v, 0)
      BY <1>1 DEF Owes, WillCome
    <2> QED
      BY <1>1, <2>1, <2>2 DEF PageIs, Looks
  <1>3. CASE Alone(Scene)
    <2>1. query[v].data = Heard(v)
      BY <1>1, <1>3 DEF WebInv, AloneInv
    <2> QED
      BY <2>1 DEF Heard
  <1> QED
    BY <1>2, <1>3

\* The invariant of the pages holds through any requests, answers, changes
\* elsewhere and broken streams (queries.ts, useServerEvents.ts).
THEOREM TheCacheIsOrderly ==
    ASSUME PagesAreOrderly
    PROVE  WebSpec => []WebInv
PROOF
  <1>1. WebInit => WebInv
    BY WebStarts
  <1>2. WebInv /\ [WebNext]_webVars => WebInv'
    BY WebSteps
  <1> QED
    BY <1>1, <1>2, PTL DEF WebSpec

\* When the traffic is over every open page shows what the server has, but for
\* what changed without a word to this browser: for any pages, jobs and
\* number of changes, where the pages are orderly (queries.ts).
THEOREM ThePagesShowTheTruth ==
    ASSUME PagesAreOrderly
    PROVE  WebSpec => []PagesShowTheTruth
PROOF
  <1>1. WebInv => PagesShowTheTruth
    BY QuietPages
  <1> QED
    BY <1>1, TheCacheIsOrderly, PTL
=============================================================================
