--------------------------- MODULE DoorstopProofs ---------------------------
(***************************************************************************)
(* Proofs about the doorstop importer, for any trees a source may become,  *)
(* any project there is before, any number of imports at a time and any    *)
(* number of them begun: what is planned, in which order it is written,    *)
(* and that an answered import stands, item by item and link by link.      *)
(***************************************************************************)
EXTENDS Doorstop, FiniteSetTheorems, SequenceTheorems, WellFoundedInduction, TLAPS

-----------------------------------------------------------------------------
(***************************************************************************)
(* FlattenSeq.  It is a recursive function, so what it gives is proved by  *)
(* induction over the numbers: of those a claim is false of there would be *)
(* a least one.                                                            *)
(***************************************************************************)

LEMMA LeastOne == ASSUME NEW S \in SUBSET Nat, S # {} PROVE \E n \in S : \A m \in S : n <= m
PROOF
  <1> DEFINE R == {ss \in Nat \X Nat : ss[1] < ss[2]}
  <1>1. IsWellFoundedOn(R, Nat)
    <2>1. R = OpToRel(<, Nat)
      BY DEF OpToRel
    <2> QED
      BY <2>1, NatLessThanWellFounded
  <1> HIDE DEF R
  <1>2. PICK n \in S : \A m \in S : <<m, n>> \notin R
    BY <1>1, WFMin, Zenon
  <1>3. \A m \in S : <<m, n>> \in Nat \X Nat /\ (m < n => <<m, n>> \in R)
    BY DEF R
  <1>4. \A m \in S : m \in Nat /\ n \in Nat /\ ~(m < n)
    BY <1>2, <1>3
  <1>5. \A m \in S : n <= m
    BY <1>4
  <1> QED
    BY <1>5

\* Induction, with the set of the numbers a claim holds of in hand.
LEMMA ByInduction ==
    ASSUME NEW S \in SUBSET Nat, 0 \in S, \A k \in S : k + 1 \in S
    PROVE  S = Nat
PROOF
  <1> SUFFICES ASSUME S # Nat PROVE FALSE
    OBVIOUS
  <1> DEFINE out == Nat \ S
  <1>1. out \in SUBSET Nat /\ out # {}
    OBVIOUS
  <1>2. PICK n \in out : \A m \in out : n <= m
    <2> HIDE DEF out
    <2> QED
      BY <1>1, LeastOne
  <1>3. n \in Nat /\ n # 0 /\ n \notin S
    BY <1>2
  <1>4. n - 1 \in Nat /\ (n - 1) + 1 = n /\ ~(n <= n - 1)
    BY <1>3
  <1>5. n - 1 \in S
    BY <1>2, <1>4
  <1> QED
    BY <1>3, <1>4, <1>5

IsFlat(f, s, n) == f = [i \in 1..n |-> IF i = 1 THEN s[i] ELSE f[i - 1] \o s[i]]

LEMMA FlatAt ==
    ASSUME NEW f, NEW s, NEW n \in Nat, IsFlat(f, s, n)
    PROVE  \A i \in 1..n : f[i] = IF i = 1 THEN s[i] ELSE f[i - 1] \o s[i]
PROOF
  <1> DEFINE g(i) == IF i = 1 THEN s[i] ELSE f[i - 1] \o s[i]
  <1>1. f = [i \in 1..n |-> g(i)]
    BY DEF IsFlat
  <1> HIDE DEF g
  <1>2. \A i \in 1..n : f[i] = g(i)
    BY <1>1
  <1> QED
    BY <1>2 DEF g

LEMMA FlatExists ==
    ASSUME NEW s
    PROVE  \A n \in Nat : \E f : IsFlat(f, s, n)
PROOF
  <1> DEFINE S == {n \in Nat : \E f : IsFlat(f, s, n)}
  <1>1. 0 \in S
    <2>1. \A i \in 1..0 : FALSE
      OBVIOUS
    <2> DEFINE f == [i \in {} |-> 0]
    <2>2. IsFlat(f, s, 0)
      BY <2>1 DEF IsFlat
    <2> QED
      BY <2>2
  <1>2. ASSUME NEW n \in S PROVE n + 1 \in S
    <2>0. n \in Nat
      BY <1>2
    <2>1. PICK f : IsFlat(f, s, n)
      BY <1>2
    <2> DEFINE step(h, i) == IF i = 1 THEN s[i] ELSE h[i - 1] \o s[i]
               g == [i \in 1..n + 1 |-> IF i <= n THEN f[i] ELSE step(f, i)]
    <2>2. \A i \in 1..n : g[i] = f[i]
      OBVIOUS
    <2>3. g[n + 1] = step(f, n + 1) /\ g = [i \in 1..n + 1 |-> g[i]]
      OBVIOUS
    <2>4. \A i \in 1..n : f[i] = step(f, i)
      BY <2>1, FlatAt
    <2>5. ASSUME NEW i \in 1..n + 1 PROVE g[i] = step(g, i)
      <3>1. CASE i = 1
        <4>1. n >= 1 \/ n = 0
          OBVIOUS
        <4>2. g[1] = s[1]
          <5>1. CASE n = 0
            BY <2>3, <5>1
          <5>2. CASE n >= 1
            <6>1. 1 \in 1..n
              BY <5>2
            <6> QED
              BY <2>2, <2>4, <6>1
          <5> QED
            BY <4>1, <5>1, <5>2
        <4> HIDE DEF g
        <4> QED
          BY <3>1, <4>2
      <3>2. CASE i # 1
        <4>1. i - 1 \in 1..n
          BY <3>2
        <4>2. g[i - 1] = f[i - 1]
          BY <2>2, <4>1
        <4>3. g[i] = f[i - 1] \o s[i]
          <5>1. CASE i \in 1..n
            <6> HIDE DEF g
            <6> QED
              BY <2>2, <2>4, <3>2, <5>1
          <5>2. CASE i = n + 1
            <6> HIDE DEF g
            <6> QED
              BY <2>3, <3>2, <5>2
          <5>3. i \in 1..n \/ i = n + 1
            BY <2>0
          <5> HIDE DEF g
          <5> QED
            BY <5>1, <5>2, <5>3
        <4> HIDE DEF g
        <4> QED
          BY <3>2, <4>2, <4>3
      <3> QED
        BY <3>1, <3>2
    <2> HIDE DEF g
    <2>6. [i \in 1..n + 1 |-> g[i]] = [i \in 1..n + 1 |-> step(g, i)]
      <3> HIDE DEF step
      <3> QED
        BY <2>5
    <2>7. IsFlat(g, s, n + 1)
      BY <2>3, <2>6 DEF IsFlat
    <2> QED
      BY <2>7
  <1>3. S \in SUBSET Nat
    OBVIOUS
  <1> HIDE DEF S
  <1>4. S = Nat
    BY <1>1, <1>2, <1>3, ByInduction
  <1> QED
    BY <1>4 DEF S

LEMMA FlatIs ==
    ASSUME NEW s, Len(s) \in Nat, Len(s) # 0
    PROVE  \E f : IsFlat(f, s, Len(s)) /\ FlattenSeq(s) = f[Len(s)]
PROOF
  <1> DEFINE g == CHOOSE h : IsFlat(h, s, Len(s))
  <1>1. IsFlat(g, s, Len(s))
    BY FlatExists
  <1>2. FlattenSeq(s) = g[Len(s)]
    BY DEF FlattenSeq, IsFlat
  <1> QED
    BY <1>1, <1>2

\* The sequences of s follow each other in t, that of d behind position off[d - 1].
LaidOut(t, s, n, off) ==
    /\ off \in [0..n -> Nat] /\ off[0] = 0 /\ off[n] = Len(t)
    /\ \A d \in 1..n : /\ off[d] = off[d - 1] + Len(s[d])
                       /\ \A j \in 1..Len(s[d]) : off[d - 1] + j \in 1..Len(t) /\ t[off[d - 1] + j] = s[d][j]
    /\ \A i \in 1..Len(t) : \E d \in 1..n : \E j \in 1..Len(s[d]) : i = off[d - 1] + j

LEMMA LaidOutMore ==
    ASSUME NEW X, NEW s \in Seq(Seq(X)), NEW n \in Nat, n + 1 <= Len(s),
           NEW t \in Seq(X), NEW off, LaidOut(t, s, n, off)
    PROVE  /\ t \o s[n + 1] \in Seq(X)
           /\ \E more : LaidOut(t \o s[n + 1], s, n + 1, more)
PROOF
  <1> DEFINE e == s[n + 1]
             u == t \o e
             more == [d \in 0..n + 1 |-> IF d <= n THEN off[d] ELSE off[n] + Len(e)]
  <1>1. n + 1 \in 1..Len(s) /\ e \in Seq(X) /\ Len(e) \in Nat /\ Len(t) \in Nat
    BY LenProperties
  <1>2. /\ u \in Seq(X) /\ Len(u) = Len(t) + Len(e)
        /\ \A i \in 1..Len(t) + Len(e) : u[i] = IF i <= Len(t) THEN t[i] ELSE e[i - Len(t)]
    <2> HIDE DEF e
    <2> QED
      BY <1>1, ConcatProperties
  <1>3. \A d \in 1..n : s[d] \in Seq(X) /\ Len(s[d]) \in Nat
    <2>1. \A d \in 1..n : d \in 1..Len(s)
      BY <1>1
    <2>2. \A d \in 1..Len(s) : s[d] \in Seq(X)
      BY ElementOfSeq
    <2> QED
      BY <2>1, <2>2
  <1>4. /\ off \in [0..n -> Nat] /\ off[0] = 0 /\ off[n] = Len(t)
        /\ \A d \in 1..n : /\ off[d] = off[d - 1] + Len(s[d])
                           /\ \A j \in 1..Len(s[d]) : off[d - 1] + j \in 1..Len(t) /\ t[off[d - 1] + j] = s[d][j]
        /\ \A i \in 1..Len(t) : \E d \in 1..n : \E j \in 1..Len(s[d]) : i = off[d - 1] + j
    BY DEF LaidOut
  <1>5. /\ more \in [0..n + 1 -> Nat] /\ more[n + 1] = Len(t) + Len(e)
        /\ \A d \in 0..n : more[d] = off[d]
    <2> HIDE DEF e
    <2> QED
      BY <1>1, <1>4
  <1> HIDE DEF u, more, e
  <1>6. ASSUME NEW d \in 1..n + 1
        PROVE  /\ more[d] = more[d - 1] + Len(s[d])
               /\ \A j \in 1..Len(s[d]) : more[d - 1] + j \in 1..Len(u) /\ u[more[d - 1] + j] = s[d][j]
    <2>1. CASE d \in 1..n
      <3>1. d \in 0..n /\ d - 1 \in 0..n
        BY <2>1
      <3>2. more[d] = off[d] /\ more[d - 1] = off[d - 1]
        BY <1>5, <3>1
      <3>3. ASSUME NEW j \in 1..Len(s[d])
            PROVE  more[d - 1] + j \in 1..Len(u) /\ u[more[d - 1] + j] = s[d][j]
        <4>1. off[d - 1] + j \in 1..Len(t) /\ t[off[d - 1] + j] = s[d][j]
          BY <1>4, <2>1
        <4> DEFINE i == off[d - 1] + j
        <4>2. i \in 1..Len(t) + Len(e) /\ i <= Len(t)
          BY <1>1, <4>1
        <4> HIDE DEF i
        <4>3. u[i] = t[i]
          BY <1>2, <4>2
        <4> QED
          BY <1>2, <3>2, <4>1, <4>2, <4>3 DEF i
      <3> QED
        BY <1>4, <2>1, <3>2, <3>3
    <2>2. CASE d = n + 1
      <3>1. more[d - 1] = Len(t) /\ s[d] = e /\ more[d] = Len(t) + Len(e)
        BY <1>4, <1>5, <2>2 DEF e
      <3>2. ASSUME NEW j \in 1..Len(e)
            PROVE  Len(t) + j \in 1..Len(u) /\ u[Len(t) + j] = e[j]
        <4> DEFINE i == Len(t) + j
        <4>1. i \in 1..Len(t) + Len(e) /\ ~(i <= Len(t)) /\ i - Len(t) = j
          BY <1>1
        <4> HIDE DEF i
        <4> QED
          BY <1>2, <4>1 DEF i
      <3> QED
        BY <3>1, <3>2
    <2> QED
      BY <2>1, <2>2
  <1>7. ASSUME NEW i \in 1..Len(u)
        PROVE  \E d \in 1..n + 1 : \E j \in 1..Len(s[d]) : i = more[d - 1] + j
    <2>1. CASE i <= Len(t)
      <3>1. i \in 1..Len(t)
        BY <1>1, <2>1
      <3>2. PICK d \in 1..n : \E j \in 1..Len(s[d]) : i = off[d - 1] + j
        BY <1>4, <3>1
      <3>3. d \in 1..n + 1 /\ d - 1 \in 0..n
        OBVIOUS
      <3> QED
        BY <1>5, <3>2, <3>3
    <2>2. CASE ~(i <= Len(t))
      <3>1. i - Len(t) \in 1..Len(e) /\ i = Len(t) + (i - Len(t))
        BY <1>1, <1>2, <2>2
      <3>2. n + 1 \in 1..n + 1 /\ (n + 1) - 1 = n /\ n \in 0..n
        OBVIOUS
      <3>3. more[(n + 1) - 1] = Len(t) /\ s[n + 1] = e
        BY <1>4, <1>5, <3>2 DEF e
      <3> QED
        BY <3>1, <3>2, <3>3
    <2> QED
      BY <2>1, <2>2
  <1>8. 0 \in 0..n /\ more[0] = 0
    BY <1>4, <1>5
  <1>9. LaidOut(u, s, n + 1, more)
    BY <1>2, <1>5, <1>6, <1>7, <1>8 DEF LaidOut
  <1> QED
    BY <1>2, <1>9 DEF u, e

LEMMA Flattened ==
    ASSUME NEW X, NEW s \in Seq(Seq(X))
    PROVE  /\ FlattenSeq(s) \in Seq(X)
           /\ \E off : LaidOut(FlattenSeq(s), s, Len(s), off)
PROOF
  <1>1. Len(s) \in Nat /\ \A d \in 1..Len(s) : s[d] \in Seq(X) /\ Len(s[d]) \in Nat
    BY LenProperties, ElementOfSeq
  <1>2. LaidOut(<<>>, s, 0, [d \in 0..0 |-> 0])
    <2>1. /\ \A d \in 1..0 : FALSE
          /\ Len(<<>>) = 0 /\ 0 \in 0..0
      OBVIOUS
    <2> QED
      BY <2>1 DEF LaidOut
  <1>3. CASE Len(s) = 0
    <2>1. s = <<>> /\ FlattenSeq(s) = s
      BY <1>3, EmptySeq DEF FlattenSeq
    <2>2. s \in Seq(X)
      BY <2>1
    <2> QED
      BY <1>2, <1>3, <2>1, <2>2
  <1>4. CASE Len(s) # 0
    <2>1. PICK f : IsFlat(f, s, Len(s)) /\ FlattenSeq(s) = f[Len(s)]
      BY <1>1, <1>4, FlatIs
    <2>2. \A i \in 1..Len(s) : f[i] = IF i = 1 THEN s[i] ELSE f[i - 1] \o s[i]
      BY <1>1, <2>1, FlatAt
    <2> DEFINE good(k) == f[k] \in Seq(X) /\ \E off : LaidOut(f[k], s, k, off)
               S == {k \in Nat : k + 1 <= Len(s) => good(k + 1)}
    <2>3. 0 \in S
      <3>1. 1 \in 1..Len(s)
        BY <1>1, <1>4
      <3>2. f[1] = s[1] /\ s[1] \in Seq(X)
        BY <1>1, <2>2, <3>1
      <3>3. <<>> \in Seq(X) /\ <<>> \o s[1] = s[1]
        BY <3>2, ConcatEmptySeq, EmptySeq
      <3>4. \E more : LaidOut(<<>> \o s[0 + 1], s, 0 + 1, more)
        <4>1. PICK off : LaidOut(<<>>, s, 0, off)
          BY <1>2
        <4>2. 0 \in Nat /\ 0 + 1 <= Len(s)
          BY <3>1
        <4> QED
          BY <3>3, <4>1, <4>2, LaidOutMore
      <3>5. good(1)
        BY <3>2, <3>3, <3>4
      <3> QED
        BY <3>5
    <2>4. ASSUME NEW k \in S PROVE k + 1 \in S
      <3> SUFFICES ASSUME k + 2 <= Len(s) PROVE good(k + 2)
        BY <1>1, <2>4
      <3>1. good(k + 1)
        BY <1>1, <2>4
      <3>2. PICK off : LaidOut(f[k + 1], s, k + 1, off)
        BY <3>1
      <3>3. k + 2 \in 1..Len(s) /\ k + 2 # 1 /\ (k + 2) - 1 = k + 1 /\ (k + 1) + 1 = k + 2 /\ k + 1 \in Nat
        BY <1>1, <2>4
      <3>4. f[k + 2] = f[k + 1] \o s[k + 2]
        BY <2>2, <3>3
      <3> HIDE DEF S
      <3>5. /\ f[k + 1] \o s[(k + 1) + 1] \in Seq(X)
            /\ \E more : LaidOut(f[k + 1] \o s[(k + 1) + 1], s, (k + 1) + 1, more)
        BY <3>1, <3>2, <3>3, LaidOutMore
      <3> QED
        BY <3>3, <3>4, <3>5
    <2>5. S \in SUBSET Nat
      OBVIOUS
    <2> HIDE DEF S
    <2>6. S = Nat
      BY <2>3, <2>4, <2>5, ByInduction
    <2>7. Len(s) - 1 \in Nat /\ (Len(s) - 1) + 1 = Len(s)
      BY <1>1, <1>4
    <2>8. good(Len(s))
      <3> HIDE DEF good
      <3>1. Len(s) - 1 \in S
        BY <2>6, <2>7
      <3>2. (Len(s) - 1) + 1 <= Len(s) => good((Len(s) - 1) + 1)
        BY <3>1 DEF S
      <3> QED
        BY <1>1, <2>7, <3>2
    <2> QED
      BY <2>1, <2>8
  <1> QED
    BY <1>3, <1>4

-----------------------------------------------------------------------------
(***************************************************************************)
(* What is planned: an artifact for each item that fits its document, and  *)
(* a companion behind it if the item has a URL.                            *)
(***************************************************************************)

LEMMA TreeIs ==
    ASSUME NEW t \in Seq(Document)
    PROVE  /\ Len(t) \in Nat /\ DOMAIN t = 1..Len(t)
           /\ \A d \in DOMAIN t :
                /\ t[d] \in Document /\ t[d].prefix \in Collections
                /\ t[d].items \in Seq(Item) /\ Len(t[d].items) \in Nat
                /\ DOMAIN t[d].items = 1..Len(t[d].items)
                /\ \A a \in DOMAIN t[d].items : <<d, a>> \in Positions(t) /\ ItemAt(t, <<d, a>>) = t[d].items[a]
           /\ \A p \in Positions(t) :
                /\ p = <<p[1], p[2]>> /\ p[1] \in DOMAIN t /\ p[2] \in DOMAIN t[p[1]].items
                /\ ItemAt(t, p) \in Item
PROOF
  <1>1. Len(t) \in Nat /\ DOMAIN t = 1..Len(t) /\ \A d \in DOMAIN t : t[d] \in Document
    BY LenProperties, ElementOfSeq
  <1>2. ASSUME NEW d \in DOMAIN t
        PROVE  /\ t[d].prefix \in Collections /\ t[d].items \in Seq(Item) /\ Len(t[d].items) \in Nat
               /\ DOMAIN t[d].items = 1..Len(t[d].items)
               /\ \A a \in DOMAIN t[d].items : t[d].items[a] \in Item
    <2>1. t[d].prefix \in Collections /\ t[d].items \in Seq(Item)
      BY <1>1 DEF Document
    <2> DEFINE items == t[d].items
    <2> HIDE DEF items
    <2>2. items \in Seq(Item) => /\ Len(items) \in Nat /\ DOMAIN items = 1..Len(items)
                                 /\ \A a \in DOMAIN items : items[a] \in Item
      BY LenProperties, ElementOfSeq
    <2> QED
      BY <2>1, <2>2 DEF items
  <1>3. \A p : p \in Positions(t) <=>
            \E d \in DOMAIN t : \E a \in DOMAIN t[d].items : p = <<d, a>>
    BY DEF Positions
  <1> QED
    BY <1>1, <1>2, <1>3 DEF ItemAt

LEMMA IdIs == ASSUME NEW n, NEW kind, NEW p, NEW k
              PROVE  /\ Id(n, kind, p, k)[1] = n /\ Id(n, kind, p, k)[2] = kind
                     /\ Id(n, kind, p, k)[3] = p /\ Id(n, kind, p, k)[4] = k
  BY DEF Id

LEMMA IndexDomain ==
    ASSUME NEW t, NEW n, NEW d
    PROVE  DOMAIN Index(t, n, d) = {u \in Uids : Listed(t, u) # {}}
  BY DEF Index

LEMMA IndexOne ==
    ASSUME NEW t, NEW n, NEW d, NEW u \in DOMAIN Index(t, n, d), NEW p, Listed(t, u) = {p}
    PROVE  Index(t, n, d)[u] = Id(n, "item", p, 0)
PROOF
  <1> DEFINE last(S) == CHOOSE r \in S : \A q \in S : q = r \/ Later(r, q)
  <1>1. Index(t, n, d) = [v \in {v \in Uids : Listed(t, v) # {}} |-> Id(n, "item", last(Listed(t, v)), 0)]
    BY DEF Index
  <1>2. last({p}) = p
    OBVIOUS
  <1> HIDE DEF last
  <1>3. Index(t, n, d)[u] = Id(n, "item", last(Listed(t, u)), 0)
    BY <1>1
  <1> QED
    BY <1>2, <1>3

Art(t, n, x) == IF x[2] = 1 THEN PlannedItem(t, n, x[1]) ELSE PlannedCompanion(t, n, x[1])
Parts(t) == {x \in Positions(t) \X {1, 2} :
                Imported(t, x[1]) /\ (x[2] = 2 => ItemAt(t, x[1]).ref = "url")}
ArtAt(plan, q) == plan[q[1]].artifacts[q[2]]

LEMMA PlannedParts ==
    ASSUME NEW t \in Seq(Document), NEW n, NEW p \in Positions(t)
    PROVE  /\ PlannedOf(t, n, p) \in Seq({Art(t, n, x) : x \in Parts(t)})
           /\ \A j : j \in 1..Len(PlannedOf(t, n, p)) <=> <<p, j>> \in Parts(t)
           /\ \A j \in 1..Len(PlannedOf(t, n, p)) : PlannedOf(t, n, p)[j] = Art(t, n, <<p, j>>)
PROOF
  <1> DEFINE X == {Art(t, n, x) : x \in Parts(t)}
             item == PlannedItem(t, n, p)
             companion == PlannedCompanion(t, n, p)
  <1>1. /\ Art(t, n, <<p, 1>>) = item /\ Art(t, n, <<p, 2>>) = companion
        /\ \A j : <<p, j>> \in Parts(t) <=> /\ j \in {1, 2} /\ Imported(t, p)
                                            /\ (j = 2 => ItemAt(t, p).ref = "url")
    BY DEF Art, Parts
  <1>2. ItemAt(t, p).uid \in DOMAIN Index(t, n, p[1]) <=> Imported(t, p)
    <2>1. ItemAt(t, p).uid \in Uids
      BY TreeIs DEF Item
    <2>2. DOMAIN Index(t, n, p[1]) = {u \in Uids : Listed(t, u) # {}}
      BY IndexDomain
    <2> QED
      BY <2>1, <2>2 DEF Imported
  <1>3. CASE ~Imported(t, p)
    <2>1. PlannedOf(t, n, p) = <<>>
      BY <1>2, <1>3 DEF PlannedOf
    <2>2. <<>> \in Seq(X) /\ Len(<<>>) = 0 /\ \A j : j \notin 1..0
      BY EmptySeq
    <2> QED
      BY <1>1, <1>3, <2>1, <2>2
  <1>4. CASE Imported(t, p) /\ ItemAt(t, p).ref # "url"
    <2>1. PlannedOf(t, n, p) = <<item>> \o <<>>
      BY <1>2, <1>4 DEF PlannedOf
    <2>2. item \in X
      BY <1>1, <1>4
    <2> HIDE DEF X, item
    <2>3. <<item>> \o <<>> = <<item>> /\ <<item>> \in Seq(X) /\ Len(<<item>>) = 1 /\ <<item>>[1] = item
      BY <2>2
    <2>4. \A j : j \in 1..1 <=> j = 1
      OBVIOUS
    <2> QED
      BY <1>1, <1>4, <2>1, <2>3, <2>4 DEF X
  <1>5. CASE Imported(t, p) /\ ItemAt(t, p).ref = "url"
    <2>1. PlannedOf(t, n, p) = <<item>> \o <<companion>>
      BY <1>2, <1>5 DEF PlannedOf
    <2>2. item \in X /\ companion \in X
      BY <1>1, <1>5
    <2> HIDE DEF X, item, companion
    <2>3. /\ <<item>> \o <<companion>> \in Seq(X) /\ Len(<<item>> \o <<companion>>) = 2
          /\ (<<item>> \o <<companion>>)[1] = item /\ (<<item>> \o <<companion>>)[2] = companion
      BY <2>2
    <2>4. \A j : j \in 1..2 <=> j \in {1, 2}
      OBVIOUS
    <2> QED
      BY <1>1, <1>5, <2>1, <2>3, <2>4 DEF X
  <1> QED
    BY <1>3, <1>4, <1>5

\* The artifacts of a document, in the order of its items.
LEMMA ArtifactsLaidOut ==
    ASSUME NEW t \in Seq(Document), NEW n, NEW d \in DOMAIN t
    PROVE  LET artifacts == BuildPlan(t, n)[d].artifacts
           IN  /\ artifacts \in Seq({Art(t, n, x) : x \in Parts(t)})
               /\ \E off : /\ \A i \in DOMAIN artifacts : \E x \in Parts(t) :
                                x[1][1] = d /\ i = off[x[1][2] - 1] + x[2] /\ artifacts[i] = Art(t, n, x)
                           /\ \A x \in Parts(t) : x[1][1] = d =>
                                \E i \in DOMAIN artifacts : artifacts[i] = Art(t, n, x)
PROOF
  <1> DEFINE X == {Art(t, n, x) : x \in Parts(t)}
             L == Len(t[d].items)
             s == [a \in DOMAIN t[d].items |-> PlannedOf(t, n, <<d, a>>)]
             artifacts == FlattenSeq(s)
  <1>1. BuildPlan(t, n)[d].artifacts = artifacts
    BY DEF BuildPlan
  <1>2. /\ L \in Nat /\ DOMAIN t[d].items = 1..L
        /\ \A a \in 1..L : <<d, a>> \in Positions(t)
    BY TreeIs
  <1>3. /\ s = [a \in 1..L |-> PlannedOf(t, n, <<d, a>>)]
        /\ \A a \in 1..L : s[a] = PlannedOf(t, n, <<d, a>>)
    BY <1>2
  <1>4. \A a \in 1..L : s[a] \in Seq(X)
    BY <1>2, <1>3, PlannedParts
  <1> HIDE DEF X, L, s
  <1>5. s \in Seq(Seq(X)) /\ Len(s) = L
    <2>1. s \in [1..L -> Seq(X)]
      BY <1>3, <1>4
    <2> QED
      BY <1>2, <2>1
  <1>6. artifacts \in Seq(X) /\ \E off : LaidOut(artifacts, s, L, off)
    BY <1>5, Flattened
  <1>7. PICK off : LaidOut(artifacts, s, L, off)
    BY <1>6
  <1>8. DOMAIN artifacts = 1..Len(artifacts)
    BY <1>6, LenProperties
  <1> HIDE DEF artifacts
  <1>9. /\ \A a \in 1..L : \A j \in 1..Len(s[a]) :
                off[a - 1] + j \in 1..Len(artifacts) /\ artifacts[off[a - 1] + j] = s[a][j]
        /\ \A i \in 1..Len(artifacts) : \E a \in 1..L : \E j \in 1..Len(s[a]) : i = off[a - 1] + j
    BY <1>7 DEF LaidOut
  <1>10. \A a \in 1..L : /\ \A j : j \in 1..Len(s[a]) <=> <<<<d, a>>, j>> \in Parts(t)
                         /\ \A j \in 1..Len(s[a]) : s[a][j] = Art(t, n, <<<<d, a>>, j>>)
    BY <1>2, <1>3, PlannedParts
  <1>11. ASSUME NEW i \in DOMAIN artifacts
         PROVE  \E x \in Parts(t) : x[1][1] = d /\ i = off[x[1][2] - 1] + x[2] /\ artifacts[i] = Art(t, n, x)
    <2>0. PICK a \in 1..L : \E j \in 1..Len(s[a]) : i = off[a - 1] + j
      BY <1>8, <1>9
    <2>1. PICK j \in 1..Len(s[a]) : i = off[a - 1] + j
      BY <2>0
    <2>2. <<<<d, a>>, j>> \in Parts(t) /\ artifacts[i] = Art(t, n, <<<<d, a>>, j>>)
      BY <1>9, <1>10, <2>1
    <2> QED
      BY <2>1, <2>2
  <1>12. ASSUME NEW x \in Parts(t), x[1][1] = d
         PROVE  \E i \in DOMAIN artifacts : artifacts[i] = Art(t, n, x)
    <2>1. x = <<x[1], x[2]>> /\ x[1] \in Positions(t)
      BY DEF Parts
    <2>2. x[1] = <<d, x[1][2]>> /\ x[1][2] \in 1..L
      BY <1>2, <1>12, <2>1, TreeIs
    <2>3. x = <<<<d, x[1][2]>>, x[2]>>
      BY <2>1, <2>2
    <2>4. x[2] \in 1..Len(s[x[1][2]])
      BY <1>10, <2>2, <2>3
    <2> DEFINE a == x[1][2]
               i == off[a - 1] + x[2]
    <2>5. i \in DOMAIN artifacts /\ artifacts[i] = s[a][x[2]]
      BY <1>8, <1>9, <2>2, <2>4
    <2>6. s[a][x[2]] = Art(t, n, x)
      BY <1>10, <2>2, <2>3, <2>4
    <2> HIDE DEF i, a
    <2> QED
      BY <2>5, <2>6
  <1> QED
    BY <1>1, <1>6, <1>11, <1>12 DEF X

\* What the planner promises an artifact of part x.
Kind(x) == IF x[2] = 1 THEN "item" ELSE "companion"
NameOf(t, x) == IF x[2] = 1 THEN ItemAt(t, x[1]).uid ELSE RefName[ItemAt(t, x[1]).uid]

LEMMA PartsAre ==
    ASSUME NEW t \in Seq(Document), NEW x \in Parts(t)
    PROVE  /\ x = <<x[1], x[2]>> /\ x[1] \in Positions(t) /\ x[2] \in {1, 2} /\ Imported(t, x[1])
           /\ x[2] = 2 => ItemAt(t, x[1]).ref = "url"
           /\ x[1][1] \in DOMAIN t /\ ItemAt(t, x[1]).uid \in Uids
PROOF
  <1>1. /\ x = <<x[1], x[2]>> /\ x[1] \in Positions(t) /\ x[2] \in {1, 2} /\ Imported(t, x[1])
        /\ x[2] = 2 => ItemAt(t, x[1]).ref = "url"
    BY DEF Parts
  <1>2. x[1][1] \in DOMAIN t /\ ItemAt(t, x[1]) \in Item
    BY <1>1, TreeIs
  <1> QED
    BY <1>1, <1>2 DEF Item

LEMMA ListedAre ==
    ASSUME NEW t \in Seq(Document), NEW u
    PROVE  \A p \in Listed(t, u) : p \in Positions(t) /\ ItemAt(t, p).uid = u /\ Imported(t, p)
  BY DEF Listed, Imported

\* Every identity a run gives is marked with the run.
LEMMA ArtIs ==
    ASSUME NEW t \in Seq(Document), NEW n, NEW x \in Parts(t)
    PROVE  Art(t, n, x).uuid[1] = n /\ Art(t, n, x).name = NameOf(t, x)
PROOF
  <1> DEFINE p == x[1]
             u == ItemAt(t, p).uid
  <1>1. x[2] \in {1, 2} /\ Imported(t, p) /\ u \in Uids
    BY PartsAre
  <1>2. CASE x[2] = 1
    <2>1. Art(t, n, x).uuid = Index(t, n, p[1])[u] /\ Art(t, n, x).name = NameOf(t, x)
      BY <1>2 DEF Art, PlannedItem, NameOf
    <2>2. Index(t, n, p[1])[u] = Id(n, "item", CHOOSE r \in Listed(t, u) : \A q \in Listed(t, u) : q = r \/ Later(r, q), 0)
      BY <1>1 DEF Index, Imported
    <2> QED
      BY <2>1, <2>2, IdIs
  <1>3. CASE x[2] = 2
    BY <1>3, IdIs DEF Art, PlannedCompanion, Companion, NameOf
  <1> QED
    BY <1>1, <1>2, <1>3

LEMMA OneListed ==
    ASSUME NEW t \in Seq(Document), MapsOneToOne(t), NEW p \in Positions(t), Imported(t, p), NEW n, NEW d
    PROVE  /\ Listed(t, ItemAt(t, p).uid) = {p}
           /\ ItemAt(t, p).uid \in DOMAIN Index(t, n, d)
           /\ Index(t, n, d)[ItemAt(t, p).uid] = Id(n, "item", p, 0)
PROOF
  <1> DEFINE u == ItemAt(t, p).uid
  <1>1. \A q \in Listed(t, u) : q = p
    BY ListedAre DEF MapsOneToOne
  <1>2. Listed(t, u) = {p}
    BY <1>1 DEF Imported
  <1>3. u \in Uids
    BY TreeIs DEF Item
  <1> HIDE DEF u
  <1>4. u \in DOMAIN Index(t, n, d)
    <2>1. DOMAIN Index(t, n, d) = {v \in Uids : Listed(t, v) # {}}
      BY IndexDomain
    <2> QED
      BY <1>2, <1>3, <2>1
  <1>5. Index(t, n, d)[u] = Id(n, "item", p, 0)
    BY <1>2, <1>4, IndexOne
  <1> QED
    BY <1>2, <1>4, <1>5 DEF u

LEMMA PartsDiffer ==
    ASSUME NEW t \in Seq(Document), MapsOneToOne(t), NEW n
    PROVE  /\ \A x \in Parts(t) : Art(t, n, x).uuid = Id(n, Kind(x), x[1], 0)
           /\ \A x, y \in Parts(t) : Art(t, n, x).uuid = Art(t, n, y).uuid => x = y
           /\ \A x, y \in Parts(t) : x[1][1] = y[1][1] /\ NameOf(t, x) = NameOf(t, y) => x = y
PROOF
  <1>1. ASSUME NEW x \in Parts(t) PROVE Art(t, n, x).uuid = Id(n, Kind(x), x[1], 0)
    <2>1. CASE x[2] = 1
      BY <2>1, PartsAre, OneListed DEF Art, PlannedItem, Kind
    <2>2. CASE x[2] # 1
      BY <2>2 DEF Art, PlannedCompanion, Companion, Kind
    <2> QED
      BY <2>1, <2>2
  <1>2. ASSUME NEW x \in Parts(t), NEW y \in Parts(t), Art(t, n, x).uuid = Art(t, n, y).uuid
        PROVE  x = y
    <2>1. Kind(x) = Kind(y) /\ x[1] = y[1]
      BY <1>1, <1>2, IdIs
    <2>2. x = <<x[1], x[2]>> /\ y = <<y[1], y[2]>> /\ x[2] \in {1, 2} /\ y[2] \in {1, 2}
      BY PartsAre
    <2>3. x[2] = y[2]
      BY <2>1, <2>2 DEF Kind
    <2> QED
      BY <2>1, <2>2, <2>3
  <1>3. ASSUME NEW x \in Parts(t), NEW y \in Parts(t), NameOf(t, x) = NameOf(t, y)
        PROVE  x = y
    <2> DEFINE u == ItemAt(t, x[1]).uid
               v == ItemAt(t, y[1]).uid
    <2>1. /\ x = <<x[1], x[2]>> /\ y = <<y[1], y[2]>> /\ x[2] \in {1, 2} /\ y[2] \in {1, 2}
          /\ x[1] \in Positions(t) /\ y[1] \in Positions(t) /\ u \in Uids /\ v \in Uids
          /\ x[2] = 2 => ItemAt(t, x[1]).ref = "url"
          /\ y[2] = 2 => ItemAt(t, y[1]).ref = "url"
      BY PartsAre
    <2>2. /\ u = v => x[1] = y[1]
          /\ x[2] = 2 => RefName[u] # v
          /\ y[2] = 2 => RefName[v] # u
      BY <2>1 DEF MapsOneToOne
    <2>3. RefName[u] = RefName[v] => u = v
      BY <2>1, DoorstopAssumption
    <2>4. /\ NameOf(t, x) = IF x[2] = 1 THEN u ELSE RefName[u]
          /\ NameOf(t, y) = IF y[2] = 1 THEN v ELSE RefName[v]
      BY DEF NameOf
    <2> HIDE DEF u, v
    <2>5. x[2] = y[2] /\ u = v
      BY <1>3, <2>1, <2>2, <2>3, <2>4
    <2> QED
      BY <2>1, <2>2, <2>5
  <1> QED
    BY <1>1, <1>2, <1>3

LEMMA PlanIs ==
    ASSUME NEW t \in Seq(Document), NEW n
    PROVE  /\ DOMAIN BuildPlan(t, n) = DOMAIN t
           /\ \A d \in DOMAIN t : /\ BuildPlan(t, n)[d].prefix = t[d].prefix
                                  /\ BuildPlan(t, n)[d].dir = Slug[t[d].prefix]
                                  /\ Len(BuildPlan(t, n)[d].artifacts) \in Nat
                                  /\ DOMAIN BuildPlan(t, n)[d].artifacts = 1..Len(BuildPlan(t, n)[d].artifacts)
           /\ \A q \in Positioned(BuildPlan(t, n)) :
                /\ q = <<q[1], q[2]>> /\ q[1] \in DOMAIN t
                /\ q[2] \in DOMAIN BuildPlan(t, n)[q[1]].artifacts
           /\ \A d \in DOMAIN t : \A i \in DOMAIN BuildPlan(t, n)[d].artifacts :
                <<d, i>> \in Positioned(BuildPlan(t, n))
PROOF
  <1> DEFINE plan == BuildPlan(t, n)
  <1>1. DOMAIN plan = DOMAIN t /\ \A d \in DOMAIN t : plan[d].prefix = t[d].prefix /\ plan[d].dir = Slug[t[d].prefix]
    BY DEF BuildPlan
  <1> HIDE DEF plan
  <1>2. \A q : q \in Positioned(plan) <=>
            \E d \in DOMAIN plan : \E i \in DOMAIN plan[d].artifacts : q = <<d, i>>
    BY DEF Positioned
  <1>3. ASSUME NEW d \in DOMAIN t
        PROVE  Len(plan[d].artifacts) \in Nat /\ DOMAIN plan[d].artifacts = 1..Len(plan[d].artifacts)
    <2> DEFINE X == {Art(t, n, x) : x \in Parts(t)}
               artifacts == plan[d].artifacts
    <2>1. artifacts \in Seq(X)
      BY ArtifactsLaidOut DEF plan
    <2> HIDE DEF X, artifacts
    <2>2. Len(artifacts) \in Nat /\ DOMAIN artifacts = 1..Len(artifacts)
      BY <2>1, LenProperties
    <2> QED
      BY <2>2 DEF artifacts
  <1> QED
    BY <1>1, <1>2, <1>3 DEF plan

\* What stands at a position of the plan is one part of the tree, and the other
\* way round.
LEMMA PlanParts ==
    ASSUME NEW t \in Seq(Document), NEW n
    PROVE  /\ \A q \in Positioned(BuildPlan(t, n)) :
                \E x \in Parts(t) : x[1][1] = q[1] /\ ArtAt(BuildPlan(t, n), q) = Art(t, n, x)
           /\ \A x \in Parts(t) :
                \E q \in Positioned(BuildPlan(t, n)) : q[1] = x[1][1] /\ ArtAt(BuildPlan(t, n), q) = Art(t, n, x)
PROOF
  <1> DEFINE plan == BuildPlan(t, n)
  <1>1. ASSUME NEW q \in Positioned(plan)
        PROVE  \E x \in Parts(t) : x[1][1] = q[1] /\ ArtAt(plan, q) = Art(t, n, x)
    <2>1. q[1] \in DOMAIN t /\ q[2] \in DOMAIN plan[q[1]].artifacts
      BY PlanIs
    <2> QED
      BY ZenonT(30), <2>1, ArtifactsLaidOut DEF ArtAt
  <1>2. ASSUME NEW x \in Parts(t)
        PROVE  \E q \in Positioned(plan) : q[1] = x[1][1] /\ ArtAt(plan, q) = Art(t, n, x)
    <2>1. x[1][1] \in DOMAIN t
      BY PartsAre
    <2>2. PICK i \in DOMAIN plan[x[1][1]].artifacts : plan[x[1][1]].artifacts[i] = Art(t, n, x)
      BY <2>1, ArtifactsLaidOut
    <2>3. <<x[1][1], i>> \in Positioned(plan)
      BY <2>1, PlanIs
    <2> QED
      BY <2>2, <2>3 DEF ArtAt
  <1> QED
    BY <1>1, <1>2

LEMMA PlanDiffers ==
    ASSUME NEW t \in Seq(Document), MapsOneToOne(t), NEW n,
           NEW q \in Positioned(BuildPlan(t, n)), NEW r \in Positioned(BuildPlan(t, n)),
           \/ ArtAt(BuildPlan(t, n), q).uuid = ArtAt(BuildPlan(t, n), r).uuid
           \/ /\ BuildPlan(t, n)[q[1]].dir = BuildPlan(t, n)[r[1]].dir
              /\ ArtAt(BuildPlan(t, n), q).name = ArtAt(BuildPlan(t, n), r).name
    PROVE  q = r
PROOF
  <1> DEFINE plan == BuildPlan(t, n)
  <1>1. /\ q = <<q[1], q[2]>> /\ q[1] \in DOMAIN t /\ q[2] \in DOMAIN plan[q[1]].artifacts
        /\ r = <<r[1], r[2]>> /\ r[1] \in DOMAIN t /\ r[2] \in DOMAIN plan[r[1]].artifacts
    BY PlanIs
  <1>2. PICK off : \A i \in DOMAIN plan[q[1]].artifacts : \E x \in Parts(t) :
            x[1][1] = q[1] /\ i = off[x[1][2] - 1] + x[2] /\ plan[q[1]].artifacts[i] = Art(t, n, x)
    <2> DEFINE d == q[1]
               artifacts == BuildPlan(t, n)[d].artifacts
    <2>1. \E off : /\ \A i \in DOMAIN artifacts : \E x \in Parts(t) :
                          x[1][1] = d /\ i = off[x[1][2] - 1] + x[2] /\ artifacts[i] = Art(t, n, x)
                   /\ \A x \in Parts(t) : x[1][1] = d =>
                          \E i \in DOMAIN artifacts : artifacts[i] = Art(t, n, x)
      <3>1. d \in DOMAIN t
        BY <1>1
      <3> HIDE DEF d
      <3> QED
        BY ZenonT(30), <3>1, ArtifactsLaidOut
    <2> HIDE DEF artifacts, d
    <2>2. \E off : \A i \in DOMAIN artifacts : \E x \in Parts(t) :
            x[1][1] = d /\ i = off[x[1][2] - 1] + x[2] /\ artifacts[i] = Art(t, n, x)
      BY <2>1
    <2> QED
      BY <2>2 DEF artifacts, d
  <1>3. PICK x \in Parts(t) : x[1][1] = q[1] /\ q[2] = off[x[1][2] - 1] + x[2] /\ ArtAt(plan, q) = Art(t, n, x)
    BY <1>1, <1>2 DEF ArtAt
  <1>4. PICK y \in Parts(t) : y[1][1] = r[1] /\ ArtAt(plan, r) = Art(t, n, y)
    BY PlanParts
  <1>5. q[1] = r[1] /\ x = y
    <2>1. CASE ArtAt(plan, q).uuid = ArtAt(plan, r).uuid
      BY <1>3, <1>4, <2>1, PartsDiffer
    <2>2. CASE plan[q[1]].dir = plan[r[1]].dir /\ ArtAt(plan, q).name = ArtAt(plan, r).name
      <3>1. q[1] = r[1]
        BY <1>1, <2>2, PlanIs DEF MapsOneToOne
      <3>2. NameOf(t, x) = NameOf(t, y)
        BY <1>3, <1>4, <2>2, ArtIs
      <3> QED
        BY <1>3, <1>4, <3>1, <3>2, PartsDiffer
    <2> QED
      BY <2>1, <2>2
  <1>6. PICK z \in Parts(t) : z[1][1] = r[1] /\ r[2] = off[z[1][2] - 1] + z[2] /\ ArtAt(plan, r) = Art(t, n, z)
    BY <1>1, <1>2, <1>5 DEF ArtAt
  <1>7. z = y
    BY <1>4, <1>6, PartsDiffer
  <1> QED
    BY <1>1, <1>3, <1>5, <1>6, <1>7

-----------------------------------------------------------------------------
(***************************************************************************)
(* What is written: a directory with its sidecar, then its artifacts.      *)
(***************************************************************************)

IsDir(w) == "prefix" \in DOMAIN w
DirWrite(plan, d) == [dir |-> plan[d].dir, prefix |-> plan[d].prefix]
FileWrite(plan, q) ==
    [dir |-> plan[q[1]].dir, name |-> ArtAt(plan, q).name,
     file |-> BuildArtifactFile(plan[q[1]], ArtAt(plan, q))]
Writes(t, n) == WritesOf(BuildPlan(t, n))
PlannedWrites(t, n) ==
    {DirWrite(BuildPlan(t, n), d) : d \in DOMAIN t}
    \cup {FileWrite(BuildPlan(t, n), q) : q \in Positioned(BuildPlan(t, n))}

WrittenInOrder(w, t, plan, off) ==
    /\ \A d \in DOMAIN t :
        /\ off[d - 1] \in Nat
        /\ off[d - 1] + 1 \in 1..Len(w) /\ w[off[d - 1] + 1] = DirWrite(plan, d)
        /\ \A a \in DOMAIN plan[d].artifacts :
            off[d - 1] + (a + 1) \in 1..Len(w) /\ w[off[d - 1] + (a + 1)] = FileWrite(plan, <<d, a>>)
    /\ \A i \in 1..Len(w) : \E d \in DOMAIN t :
        \/ i = off[d - 1] + 1 /\ w[i] = DirWrite(plan, d)
        \/ \E a \in DOMAIN plan[d].artifacts :
            i = off[d - 1] + (a + 1) /\ w[i] = FileWrite(plan, <<d, a>>)

LEMMA WriteIs ==
    ASSUME NEW plan
    PROVE  /\ \A d : IsDir(DirWrite(plan, d)) /\ DirWrite(plan, d).dir = plan[d].dir
                     /\ DirWrite(plan, d).prefix = plan[d].prefix
           /\ \A q : /\ ~IsDir(FileWrite(plan, q)) /\ FileWrite(plan, q).dir = plan[q[1]].dir
                     /\ FileWrite(plan, q).name = ArtAt(plan, q).name
                     /\ FileWrite(plan, q).file = BuildArtifactFile(plan[q[1]], ArtAt(plan, q))
                     /\ FileWrite(plan, q).file.uuid = ArtAt(plan, q).uuid
  BY DEF IsDir, DirWrite, FileWrite, BuildArtifactFile

LEMMA WritesLaidOut ==
    ASSUME NEW t \in Seq(Document), NEW n
    PROVE  /\ Writes(t, n) \in Seq(PlannedWrites(t, n))
           /\ \E off : WrittenInOrder(Writes(t, n), t, BuildPlan(t, n), off)
PROOF
  <1> DEFINE plan == BuildPlan(t, n)
             X == PlannedWrites(t, n)
             files(d) == [i \in DOMAIN plan[d].artifacts |->
                            [dir |-> plan[d].dir, name |-> plan[d].artifacts[i].name,
                             file |-> BuildArtifactFile(plan[d], plan[d].artifacts[i])]]
             s == [d \in DOMAIN plan |-> <<[dir |-> plan[d].dir, prefix |-> plan[d].prefix]>> \o files(d)]
             w == FlattenSeq(s)
  <1>1. Writes(t, n) = w
    BY DEF Writes, WritesOf
  <1>2. Len(t) \in Nat /\ DOMAIN t = 1..Len(t) /\ DOMAIN plan = 1..Len(t)
    BY TreeIs, PlanIs
  <1>3. ASSUME NEW d \in DOMAIN t
        PROVE  /\ s[d] \in Seq(X) /\ Len(s[d]) = Len(plan[d].artifacts) + 1
               /\ s[d][1] = DirWrite(plan, d)
               /\ Len(plan[d].artifacts) \in Nat
               /\ DOMAIN plan[d].artifacts = 1..Len(plan[d].artifacts)
               /\ \A a \in DOMAIN plan[d].artifacts : s[d][a + 1] = FileWrite(plan, <<d, a>>)
    <2> DEFINE l == Len(plan[d].artifacts)
               g == [i \in 1..l |-> FileWrite(plan, <<d, i>>)]
               first == DirWrite(plan, d)
    <2>1. l \in Nat /\ DOMAIN plan[d].artifacts = 1..l /\ \A a \in 1..l : <<d, a>> \in Positioned(plan)
      BY PlanIs
    <2>2. files(d) = g
      BY <2>1 DEF FileWrite, ArtAt
    <2>3. s[d] = <<first>> \o g
      BY <1>2, <2>2 DEF DirWrite
    <2>4. first \in X /\ \A i \in 1..l : FileWrite(plan, <<d, i>>) \in X
      BY <2>1 DEF PlannedWrites
    <2> HIDE DEF first, X, l
    <2>5. g \in Seq(X) /\ Len(g) = l /\ \A i \in 1..l : g[i] = FileWrite(plan, <<d, i>>)
      <3>1. g \in [1..l -> X]
        BY <2>4
      <3> QED
        BY <2>1, <3>1
    <2> HIDE DEF g
    <2>6. <<first>> \in Seq(X) /\ Len(<<first>>) = 1 /\ <<first>>[1] = first
      BY <2>4
    <2> DEFINE h == <<first>>
    <2> HIDE DEF h
    <2>7. /\ h \o g \in Seq(X) /\ Len(h \o g) = Len(h) + Len(g)
          /\ \A i \in 1..Len(h) + Len(g) : (h \o g)[i] = IF i <= Len(h) THEN h[i] ELSE g[i - Len(h)]
      BY <2>5, <2>6, ConcatProperties DEF h
    <2>8. /\ h \o g \in Seq(X) /\ Len(h \o g) = l + 1 /\ (h \o g)[1] = first
          /\ \A a \in 1..l : (h \o g)[a + 1] = g[a]
      BY <2>1, <2>5, <2>6, <2>7 DEF h
    <2> HIDE DEF s
    <2> QED
      BY <2>1, <2>3, <2>5, <2>8 DEF h, first, l
  <1>4. s \in Seq(Seq(X)) /\ Len(s) = Len(t)
    <2>1. s = [d \in 1..Len(t) |-> s[d]]
      BY <1>2
    <2> HIDE DEF s, X
    <2>2. s \in [1..Len(t) -> Seq(X)]
      BY <1>2, <1>3, <2>1
    <2> QED
      BY <1>2, <2>2
  <1> HIDE DEF s, X, files
  <1>5. w \in Seq(X) /\ \E off : LaidOut(w, s, Len(t), off)
    BY <1>4, Flattened
  <1>6. PICK off : LaidOut(w, s, Len(t), off)
    BY <1>5
  <1> HIDE DEF w
  <1>7. /\ off \in [0..Len(t) -> Nat]
        /\ \A d \in 1..Len(t) : \A j \in 1..Len(s[d]) : off[d - 1] + j \in 1..Len(w) /\ w[off[d - 1] + j] = s[d][j]
        /\ \A i \in 1..Len(w) : \E d \in 1..Len(t) : \E j \in 1..Len(s[d]) : i = off[d - 1] + j
    BY <1>6 DEF LaidOut
  <1> HIDE DEF plan
  <1>8. ASSUME NEW d \in DOMAIN t
        PROVE  /\ off[d - 1] \in Nat
               /\ off[d - 1] + 1 \in 1..Len(w) /\ w[off[d - 1] + 1] = DirWrite(plan, d)
               /\ \A a \in DOMAIN plan[d].artifacts :
                    off[d - 1] + (a + 1) \in 1..Len(w) /\ w[off[d - 1] + (a + 1)] = FileWrite(plan, <<d, a>>)
    <2>1. 1 \in 1..Len(s[d]) /\ \A a \in DOMAIN plan[d].artifacts : a + 1 \in 1..Len(s[d])
      BY <1>3
    <2>2. off[d - 1] \in Nat
      <3>1. d - 1 \in 0..Len(t)
        BY <1>2
      <3> QED
        BY <1>7, <3>1
    <2> QED
      BY <1>2, <1>3, <1>7, <2>1, <2>2
  <1>9. ASSUME NEW i \in 1..Len(w)
        PROVE  \E d \in DOMAIN t :
                  \/ i = off[d - 1] + 1 /\ w[i] = DirWrite(plan, d)
                  \/ \E a \in DOMAIN plan[d].artifacts :
                        i = off[d - 1] + (a + 1) /\ w[i] = FileWrite(plan, <<d, a>>)
    <2>1. PICK d \in 1..Len(t) : \E j \in 1..Len(s[d]) : i = off[d - 1] + j
      BY <1>7
    <2>2. PICK j \in 1..Len(s[d]) : i = off[d - 1] + j
      BY <2>1
    <2>3. d \in DOMAIN t /\ w[i] = s[d][j]
      BY <1>2, <1>7, <2>2
    <2>4. CASE j = 1
      BY <1>3, <2>2, <2>3, <2>4
    <2>5. CASE j # 1
      <3> DEFINE a == j - 1
      <3>1. a \in DOMAIN plan[d].artifacts /\ a + 1 = j
        BY <1>3, <2>3, <2>5
      <3> HIDE DEF a
      <3>2. w[i] = FileWrite(plan, <<d, a>>)
        BY <1>3, <2>3, <3>1
      <3> QED
        BY <2>2, <2>3, <3>1, <3>2
    <2> QED
      BY <2>4, <2>5
  <1>10. WrittenInOrder(w, t, plan, off)
    BY <1>8, <1>9 DEF WrittenInOrder
  <1> QED
    BY <1>1, <1>5, <1>10 DEF plan, X

LEMMA WritesAre ==
    ASSUME NEW t \in Seq(Document), NEW n
    PROVE  /\ Writes(t, n) \in Seq(PlannedWrites(t, n))
           /\ \A q \in Positioned(BuildPlan(t, n)) : FileWrite(BuildPlan(t, n), q) \in ToSet(Writes(t, n))
PROOF
  <1> DEFINE plan == BuildPlan(t, n)
             w == Writes(t, n)
  <1>1. w \in Seq(PlannedWrites(t, n)) /\ \E off : WrittenInOrder(w, t, plan, off)
    BY WritesLaidOut
  <1>2. PICK off : WrittenInOrder(w, t, plan, off)
    BY <1>1
  <1>3. DOMAIN w = 1..Len(w)
    BY <1>1, LenProperties
  <1> HIDE DEF w
  <1>4. ASSUME NEW q \in Positioned(plan) PROVE FileWrite(plan, q) \in ToSet(w)
    <2>1. q = <<q[1], q[2]>> /\ q[1] \in DOMAIN t /\ q[2] \in DOMAIN plan[q[1]].artifacts
      BY PlanIs
    <2> DEFINE i == off[q[1] - 1] + (q[2] + 1)
    <2>2. i \in 1..Len(w) /\ w[i] = FileWrite(plan, q)
      BY <1>2, <2>1 DEF WrittenInOrder
    <2> QED
      BY <1>3, <2>2 DEF ToSet
  <1> QED
    BY <1>1, <1>4 DEF w

\* A write makes a directory of the tree, or the file of one artifact of it.
LEMMA PlannedWriteIs ==
    ASSUME NEW t \in Seq(Document), NEW n, NEW w \in PlannedWrites(t, n)
    PROVE  /\ \E d \in DOMAIN t : w.dir = Slug[t[d].prefix]
           /\ ~IsDir(w) => /\ w.file.uuid[1] = n
                           /\ \E q \in Positioned(BuildPlan(t, n)) : w = FileWrite(BuildPlan(t, n), q)
PROOF
  <1> DEFINE plan == BuildPlan(t, n)
  <1>3. /\ \A d : IsDir(DirWrite(plan, d)) /\ DirWrite(plan, d).dir = plan[d].dir
        /\ \A q : /\ ~IsDir(FileWrite(plan, q)) /\ FileWrite(plan, q).dir = plan[q[1]].dir
                  /\ FileWrite(plan, q).file.uuid = ArtAt(plan, q).uuid
    BY WriteIs
  <1>4. /\ \A d \in DOMAIN t : plan[d].dir = Slug[t[d].prefix]
        /\ \A q \in Positioned(plan) : q[1] \in DOMAIN t
    BY PlanIs
  <1>5. ASSUME NEW q \in Positioned(plan) PROVE ArtAt(plan, q).uuid[1] = n
    <2>1. PICK x \in Parts(t) : ArtAt(plan, q) = Art(t, n, x)
      BY PlanParts
    <2> QED
      BY <2>1, ArtIs
  <1>6. w \in {DirWrite(plan, d) : d \in DOMAIN t} \cup {FileWrite(plan, q) : q \in Positioned(plan)}
    BY DEF PlannedWrites
  <1> HIDE DEF plan
  <1>1. CASE \E d \in DOMAIN t : w = DirWrite(plan, d)
    BY ZenonT(30), <1>3, <1>4, <1>1
  <1>2. CASE \E q \in Positioned(plan) : w = FileWrite(plan, q)
    <2>1. PICK q \in Positioned(plan) : w = FileWrite(plan, q)
      BY <1>2
    <2>2. q[1] \in DOMAIN t /\ w.dir = Slug[t[q[1]].prefix]
      BY <1>3, <1>4, <2>1
    <2>3. w.file.uuid[1] = n
      BY <1>3, <1>5, <2>1
    <2> QED
      BY <2>1, <2>2, <2>3 DEF plan
  <1> QED
    BY <1>1, <1>2, <1>6

IsTree(tree) == tree = [dirs |-> tree.dirs, files |-> tree.files]

LEMMA PutIs ==
    ASSUME NEW f, NEW x, NEW y
    PROVE  /\ DOMAIN Put(f, x, y) = DOMAIN f \cup {x} /\ Put(f, x, y)[x] = y
           /\ \A z \in DOMAIN f \ {x} : Put(f, x, y)[z] = f[z]
  BY DEF Put

LEMMA WrittenIs ==
    ASSUME NEW tree, IsTree(tree), NEW w
    PROVE  /\ IsTree(Written(tree, w))
           /\ IsDir(w) => /\ Written(tree, w).dirs = Put(tree.dirs, w.dir, w.prefix)
                          /\ Written(tree, w).files = tree.files
           /\ ~IsDir(w) => /\ Written(tree, w).dirs = tree.dirs
                           /\ Written(tree, w).files = Put(tree.files, <<w.dir, w.name>>, w.file)
PROOF
  <1> DEFINE a == tree.dirs
             b == tree.files
             more == Put(a, w.dir, w.prefix)
             made == Put(b, <<w.dir, w.name>>, w.file)
  <1>1. tree = [dirs |-> a, files |-> b]
    BY DEF IsTree
  <1>2. Written(tree, w) = IF IsDir(w) THEN [tree EXCEPT !.dirs = more] ELSE [tree EXCEPT !.files = made]
    BY DEF Written, IsDir
  <1> HIDE DEF a, b, more, made
  <1>3. /\ [tree EXCEPT !.dirs = more] = [dirs |-> more, files |-> b]
        /\ [tree EXCEPT !.files = made] = [dirs |-> a, files |-> made]
    BY <1>1
  <1>4. CASE IsDir(w)
    <2>1. Written(tree, w) = [dirs |-> more, files |-> b]
      BY <1>2, <1>3, <1>4
    <2> QED
      BY <1>4, <2>1 DEF IsTree, a, b, more
  <1>5. CASE ~IsDir(w)
    <2>1. Written(tree, w) = [dirs |-> a, files |-> made]
      BY <1>2, <1>3, <1>5
    <2> QED
      BY <1>5, <2>1 DEF IsTree, a, b, made
  <1> QED
    BY <1>4, <1>5

LEMMA FileMade ==
    ASSUME NEW tree, IsTree(tree), NEW w
    PROVE  IF IsDir(w) THEN Written(tree, w).files = tree.files
           ELSE /\ <<w.dir, w.name>> \in DOMAIN Written(tree, w).files
                /\ Written(tree, w).files[<<w.dir, w.name>>] = w.file
                /\ \A p \in DOMAIN Written(tree, w).files : p # <<w.dir, w.name>> =>
                        p \in DOMAIN tree.files /\ Written(tree, w).files[p] = tree.files[p]
                /\ \A p \in DOMAIN tree.files : p # <<w.dir, w.name>> =>
                        p \in DOMAIN Written(tree, w).files /\ Written(tree, w).files[p] = tree.files[p]
PROOF
  <1>1. CASE IsDir(w)
    BY <1>1, WrittenIs
  <1>2. CASE ~IsDir(w)
    <2> DEFINE a == <<w.dir, w.name>>
               b == tree.files
               y == w.file
    <2>1. Written(tree, w).files = Put(b, a, y)
      BY <1>2, WrittenIs
    <2> HIDE DEF a, b, y
    <2>2. /\ DOMAIN Put(b, a, y) = DOMAIN b \cup {a} /\ Put(b, a, y)[a] = y
          /\ \A z \in DOMAIN b \ {a} : Put(b, a, y)[z] = b[z]
      BY DEF Put
    <2>3. /\ a \in DOMAIN Put(b, a, y) /\ Put(b, a, y)[a] = y
          /\ \A p \in DOMAIN Put(b, a, y) : p # a => p \in DOMAIN b /\ Put(b, a, y)[p] = b[p]
          /\ \A p \in DOMAIN b : p # a => p \in DOMAIN Put(b, a, y) /\ Put(b, a, y)[p] = b[p]
      BY <2>2
    <2> QED
      BY <1>2, <2>1, <2>3 DEF a, b, y
  <1> QED
    BY <1>1, <1>2

LEMMA DirMade ==
    ASSUME NEW tree, IsTree(tree), NEW w
    PROVE  \A d \in DOMAIN tree.dirs : (IsDir(w) /\ d = w.dir) \/
                (d \in DOMAIN Written(tree, w).dirs /\ Written(tree, w).dirs[d] = tree.dirs[d])
PROOF
  <1>1. CASE IsDir(w)
    <2> DEFINE a == w.dir
               b == tree.dirs
               y == w.prefix
    <2>1. Written(tree, w).dirs = Put(b, a, y)
      BY <1>1, WrittenIs
    <2> HIDE DEF a, b, y
    <2>2. DOMAIN Put(b, a, y) = DOMAIN b \cup {a} /\ \A z \in DOMAIN b \ {a} : Put(b, a, y)[z] = b[z]
      BY DEF Put
    <2>3. \A d \in DOMAIN b : d = a \/ (d \in DOMAIN Put(b, a, y) /\ Put(b, a, y)[d] = b[d])
      BY <2>2
    <2> QED
      BY <1>1, <2>1, <2>3 DEF a, b
  <1>2. CASE ~IsDir(w)
    BY <1>2, WrittenIs
  <1> QED
    BY <1>1, <1>2

-----------------------------------------------------------------------------
(***************************************************************************)
(* What holds whatever is imported: each import under way has a number of  *)
(* its own and writes what was planned for its tree; what lies in the      *)
(* files was made by an import that was begun, or was there before any.    *)
(***************************************************************************)

TreesAre ==
    /\ scene \in Scenes /\ source \in scene.trees
    /\ IsTree(disk) /\ IsTree(world)
    /\ runs \in Nat

IdsAreOld == \A p \in DOMAIN disk.files : disk.files[p].uuid[1] \in 0..runs

RequestIs(q) ==
    /\ q = [pc |-> q.pc, run |-> q.run, tree |-> q.tree, todo |-> q.todo]
    /\ q.pc \in {"idle", "writing", "reported"}
    /\ q.pc # "idle" => /\ q.run \in 1..runs /\ q.tree \in scene.trees
                        /\ q.todo \in Seq(PlannedWrites(q.tree, q.run))

RunsDiffer ==
    \A r, s \in Requests : req[r].pc # "idle" /\ req[s].pc # "idle" /\ req[r].run = req[s].run => r = s

RequestsAre ==
    /\ req = [r \in Requests |-> req[r]]
    /\ \A r \in Requests : RequestIs(req[r])
    /\ RunsDiffer

ReportIs ==
    report # None => /\ report.run \in 1..runs /\ report.tree \in scene.trees
                     /\ report = ReportOf(report.tree, report.run)
                     /\ \A r \in Requests : req[r].pc = "writing" => req[r].run # report.run

WizardIs == wizard = [open |-> wizard.open, rows |-> wizard.rows, offered |-> wizard.offered,
                      todo |-> wizard.todo, applied |-> wizard.applied]

RunsInv == TreesAre /\ IdsAreOld /\ RequestsAre /\ ReportIs /\ WizardIs

LEMMA ReportShape == \A t, n : ReportOf(t, n).run = n /\ ReportOf(t, n).tree = t
  BY DEF ReportOf

LEMMA IdleIs == Idle.pc = "idle" /\ RequestIs(Idle)
  BY DEF Idle, RequestIs

LEMMA SceneIs ==
    ASSUME scene \in Scenes
    PROVE  scene.trees \subseteq Seq(Document) /\ Home(scene.home) /\ IsTree(scene.home)
  BY DoorstopAssumption DEF Home, IsTree

LEMMA RunsInit == Init => RunsInv
PROOF
  <1> SUFFICES ASSUME Init PROVE RunsInv
    OBVIOUS
  <1>1. /\ scene \in Scenes /\ source \in scene.trees /\ disk = scene.home /\ world = disk /\ runs = 0
        /\ req = [r \in Requests |-> Idle] /\ report = None /\ wizard = NoWizard
    BY DEF Init
  <1>2. TreesAre
    BY <1>1, SceneIs DEF TreesAre
  <1>3. IdsAreOld
    BY <1>1, SceneIs DEF Home, IdsAreOld
  <1>4. RequestsAre
    <2>1. \A r \in Requests : req[r] = Idle
      BY <1>1
    <2> QED
      BY <1>1, <2>1, IdleIs DEF RequestsAre, RunsDiffer
  <1>5. ReportIs
    BY <1>1 DEF ReportIs
  <1>6. WizardIs
    BY <1>1 DEF WizardIs, NoWizard
  <1> QED
    BY <1>2, <1>3, <1>4, <1>5, <1>6 DEF RunsInv

\* One request changes, to q.
LEMMA OneRequest ==
    ASSUME RequestsAre, NEW r \in Requests, NEW q, req' = [req EXCEPT ![r] = q]
    PROVE  req'[r] = q /\ (\A s \in Requests \ {r} : req'[s] = req[s]) /\ req' = [s \in Requests |-> req'[s]]
  BY DEF RequestsAre

LEMMA RequestGoesOn ==
    ASSUME NEW q, RequestIs(q), runs' \in Nat, runs \in Nat, runs <= runs', scene' = scene
    PROVE  RequestIs(q)'
  BY DEF RequestIs

LEMMA RequestsStay ==
    ASSUME RunsInv, UNCHANGED <<scene, runs, req>>
    PROVE  RequestsAre'
  BY DEF RunsInv, RequestsAre, RequestIs, RunsDiffer

\* A request ends or goes on, under its number and with its tree.
LEMMA RequestMoves ==
    ASSUME RunsInv, NEW r \in Requests, NEW q, req' = [req EXCEPT ![r] = q], RequestIs(q),
           UNCHANGED <<scene, runs>>,
           q.pc # "idle" => req[r].pc # "idle" /\ q.run = req[r].run
    PROVE  RequestsAre'
PROOF
  <1>1. req'[r] = q /\ (\A s \in Requests \ {r} : req'[s] = req[s]) /\ req' = [s \in Requests |-> req'[s]]
    BY OneRequest DEF RunsInv
  <1>2. ASSUME NEW s \in Requests PROVE RequestIs(req[s])'
    <2>1. RequestIs(req[s])
      BY DEF RunsInv, RequestsAre
    <2>2. RequestIs(req'[s])
      BY <1>1, <2>1
    <2> QED
      BY <2>2 DEF RequestIs
  <1>3. RunsDiffer'
    <2> SUFFICES ASSUME NEW s \in Requests, NEW u \in Requests,
                        req'[s].pc # "idle", req'[u].pc # "idle", req'[s].run = req'[u].run
                 PROVE  s = u
      BY DEF RunsDiffer
    <2>1. /\ req[s].pc # "idle" /\ req[u].pc # "idle" /\ req[s].run = req[u].run
      BY <1>1
    <2> QED
      BY <2>1 DEF RunsInv, RequestsAre, RunsDiffer
  <1> QED
    BY <1>1, <1>2, <1>3 DEF RequestsAre

LEMMA RunsStay ==
    ASSUME RunsInv, UNCHANGED <<scene, disk, runs, req, report>>, source' \in scene.trees,
           IsTree(world'), WizardIs'
    PROVE  RunsInv'
PROOF
  <1>1. RequestsAre'
    BY RequestsStay
  <1> QED
    BY <1>1 DEF RunsInv, TreesAre, IdsAreOld, ReportIs, IsTree

LEMMA RunsByStart ==
    ASSUME RunsInv, NEW r \in Requests, StartImport(r) PROVE RunsInv'
PROOF
  <1>1. /\ req[r].pc = "idle" /\ scene \in Scenes /\ source \in scene.trees /\ runs \in Nat
        /\ UNCHANGED <<scene, source, disk, world, report, wizard, crossed>>
    BY DEF StartImport, RunsInv, TreesAre
  <1>2. CASE UNCHANGED <<runs, req>>
    <2>1. IsTree(world') /\ WizardIs' /\ source' \in scene.trees
      BY <1>1 DEF RunsInv, TreesAre, WizardIs, IsTree
    <2> QED
      BY <1>1, <1>2, <2>1, RunsStay
  <1>0. PICK n, todo : n = runs + 1 /\ todo = WritesOf(BuildPlan(source, n))
    OBVIOUS
  <1>4. PICK q : q = [pc |-> "writing", run |-> n, tree |-> source, todo |-> todo]
    OBVIOUS
  <1>3. CASE runs' = n /\ req' = [req EXCEPT ![r] = q]
    <2>1. req'[r] = q /\ (\A s \in Requests \ {r} : req'[s] = req[s]) /\ req' = [s \in Requests |-> req'[s]]
      BY <1>3, OneRequest DEF RunsInv
    <2>2. n \in Nat /\ runs' \in Nat /\ runs <= runs' /\ n \in 1..n /\ \A m \in 1..runs : m # n
      BY <1>0, <1>1, <1>3
    <2>3. todo \in Seq(PlannedWrites(source, n))
      <3>1. source \in Seq(Document)
        BY <1>1, SceneIs
      <3> QED
        BY <1>0, <3>1, WritesAre DEF Writes
    <2>4. q.pc = "writing" /\ q.run = n /\ q.tree = source /\ q.todo = todo
      BY <1>4
    <2>5. q = [pc |-> q.pc, run |-> q.run, tree |-> q.tree, todo |-> q.todo]
      BY <1>4
    <2>6. RequestIs(q)'
      BY <1>1, <1>3, <2>2, <2>3, <2>4, <2>5 DEF RequestIs
    <2>7. ASSUME NEW s \in Requests PROVE RequestIs(req[s])'
      <3>1. CASE s = r
        BY <2>1, <2>6, <3>1 DEF RequestIs
      <3>2. CASE s # r
        <4>1. RequestIs(req[s])
          BY DEF RunsInv, RequestsAre
        <4>2. RequestIs(req[s]) /\ req'[s] = req[s]
          BY <2>1, <3>2, <4>1
        <4> QED
          BY <1>1, <1>3, <2>2, <4>2 DEF RequestIs
      <3> QED
        BY <3>1, <3>2
    <2>8. \A s \in Requests \ {r} : req[s].pc # "idle" => req[s].run \in 1..runs
      BY DEF RunsInv, RequestsAre, RequestIs
    <2>9. RunsDiffer'
      <3> SUFFICES ASSUME NEW s \in Requests, NEW u \in Requests, s # u,
                          req'[s].pc # "idle", req'[u].pc # "idle", req'[s].run = req'[u].run
                   PROVE  FALSE
        BY DEF RunsDiffer
      <3>1. CASE s = r
        BY <2>1, <2>2, <2>4, <2>8, <3>1
      <3>2. CASE u = r
        BY <2>1, <2>2, <2>4, <2>8, <3>2
      <3>3. CASE s # r /\ u # r
        BY <2>1, <3>3 DEF RunsInv, RequestsAre, RunsDiffer
      <3> QED
        BY <3>1, <3>2, <3>3
    <2>10. RequestsAre'
      BY <2>1, <2>7, <2>9 DEF RequestsAre
    <2>11. ReportIs'
      <3> SUFFICES ASSUME report # None
                   PROVE  /\ report.run \in 1..runs' /\ report.tree \in scene.trees
                          /\ report = ReportOf(report.tree, report.run)
                          /\ \A s \in Requests : req'[s].pc = "writing" => req'[s].run # report.run
        BY <1>1 DEF ReportIs
      <3>1. /\ report.run \in 1..runs /\ report.tree \in scene.trees
            /\ report = ReportOf(report.tree, report.run)
            /\ \A s \in Requests : req[s].pc = "writing" => req[s].run # report.run
        BY DEF RunsInv, ReportIs
      <3>2. report.run # n /\ report.run \in 1..runs'
        BY <1>0, <1>1, <1>3, <2>2, <3>1
      <3> QED
        BY <2>1, <2>4, <3>1, <3>2
    <2>12. IdsAreOld'
      <3>1. 0..runs \subseteq 0..runs'
        BY <1>1, <2>2
      <3> QED
        BY <1>1, <3>1 DEF RunsInv, IdsAreOld
    <2>13. TreesAre' /\ WizardIs'
      BY <1>1, <2>2 DEF RunsInv, TreesAre, WizardIs, IsTree
    <2> QED
      BY <2>10, <2>11, <2>12, <2>13 DEF RunsInv
  <1> QED
    BY <1>0, <1>4, <1>2, <1>3 DEF StartImport

LEMMA HeadOf ==
    ASSUME NEW X, NEW s \in Seq(X), s # <<>>
    PROVE  /\ Head(s) \in X /\ Tail(s) \in Seq(X)
           /\ \A w \in ToSet(s) : w = Head(s) \/ w \in ToSet(Tail(s))
PROOF
  <1>1. Head(s) \in X /\ Tail(s) \in Seq(X) /\ Len(Tail(s)) = Len(s) - 1 /\ Len(s) \in Nat /\ Len(s) # 0
    BY EmptySeq, HeadTailProperties, LenProperties
  <1>2. DOMAIN s = 1..Len(s) /\ DOMAIN Tail(s) = 1..Len(s) - 1 /\ Head(s) = s[1]
        /\ \A i \in 1..Len(s) - 1 : Tail(s)[i] = s[i + 1]
    BY <1>1, HeadTailProperties, LenProperties
  <1>3. ASSUME NEW w \in ToSet(s), w # Head(s) PROVE w \in ToSet(Tail(s))
    <2>1. PICK i \in 1..Len(s) : s[i] = w
      BY <1>2 DEF ToSet
    <2>2. i # 1 /\ i - 1 \in 1..Len(s) - 1 /\ (i - 1) + 1 = i
      BY <1>1, <1>2, <1>3, <2>1
    <2>3. Tail(s)[i - 1] = w
      BY <1>2, <2>1, <2>2
    <2> QED
      BY <1>2, <2>2, <2>3 DEF ToSet
  <1> QED
    BY <1>1, <1>3

\* A write makes or replaces one file of the import it is of.
LEMMA WriteMakes ==
    ASSUME RunsInv, NEW r \in Requests, Write(r)
    PROVE  /\ req[r].run \in 1..runs /\ req[r].tree \in Seq(Document) /\ req[r].tree \in scene.trees
           /\ Head(req[r].todo) \in PlannedWrites(req[r].tree, req[r].run)
           /\ Tail(req[r].todo) \in Seq(PlannedWrites(req[r].tree, req[r].run))
           /\ disk' = Written(disk, Head(req[r].todo))
           /\ req' = [req EXCEPT ![r] = [pc |-> "writing", run |-> req[r].run, tree |-> req[r].tree,
                                         todo |-> Tail(req[r].todo)]]
PROOF
  <1> DEFINE q == req[r]
             n == q.run
             t == q.tree
             todo == q.todo
  <1>1. /\ q.pc = "writing" /\ todo # <<>> /\ disk' = Written(disk, Head(todo))
        /\ req' = [req EXCEPT ![r].todo = Tail(@)]
    BY DEF Write
  <1>2. RequestIs(q) /\ scene \in Scenes /\ req = [s \in Requests |-> req[s]]
    BY DEF RunsInv, RequestsAre, TreesAre
  <1>3. /\ q = [pc |-> q.pc, run |-> n, tree |-> t, todo |-> todo]
        /\ n \in 1..runs /\ t \in scene.trees /\ todo \in Seq(PlannedWrites(t, n))
    BY <1>1, <1>2 DEF RequestIs
  <1>4. Head(todo) \in PlannedWrites(t, n) /\ Tail(todo) \in Seq(PlannedWrites(t, n))
    BY <1>1, <1>3, HeadOf
  <1>5. req' = [req EXCEPT ![r] = [q EXCEPT !.todo = Tail(todo)]]
    BY <1>1
  <1> DEFINE rest == Tail(todo)
  <1> HIDE DEF n, t, todo, rest
  <1>6. [q EXCEPT !.todo = rest] = [pc |-> "writing", run |-> n, tree |-> t, todo |-> rest]
    BY <1>1, <1>3
  <1>7. t \in Seq(Document)
    BY <1>2, <1>3, SceneIs
  <1> QED
    BY <1>1, <1>3, <1>4, <1>5, <1>6, <1>7 DEF n, t, todo, rest

LEMMA RunsByWrite ==
    ASSUME RunsInv, NEW r \in Requests, Write(r) PROVE RunsInv'
PROOF
  <1> DEFINE n == req[r].run
             t == req[r].tree
             w == Head(req[r].todo)
             rest == Tail(req[r].todo)
             q == [pc |-> "writing", run |-> n, tree |-> t, todo |-> rest]
  <1>1. /\ n \in 1..runs /\ t \in Seq(Document) /\ t \in scene.trees
        /\ w \in PlannedWrites(t, n) /\ rest \in Seq(PlannedWrites(t, n))
        /\ disk' = Written(disk, w) /\ req' = [req EXCEPT ![r] = q]
    BY WriteMakes
  <1>2. UNCHANGED <<scene, source, world, runs, report, wizard>> /\ req[r].pc = "writing"
    BY DEF Write
  <1> HIDE DEF n, t, w, rest
  <1>3. RequestIs(q) /\ q.pc = "writing" /\ q.run = n
    BY <1>1 DEF RequestIs
  <1> HIDE DEF q
  <1>4. RequestsAre'
    BY <1>1, <1>2, <1>3, RequestMoves DEF n
  <1>5. IsTree(disk) /\ IsTree(Written(disk, w))
    BY WrittenIs DEF RunsInv, TreesAre
  <1>6. TreesAre'
    BY <1>1, <1>2, <1>5 DEF RunsInv, TreesAre, IsTree
  <1>7. ASSUME NEW p \in DOMAIN disk'.files PROVE disk'.files[p].uuid[1] \in 0..runs
    <2>0. runs \in Nat /\ n \in 0..runs
      BY <1>1 DEF RunsInv, TreesAre
    <2>1. CASE IsDir(w)
      BY <1>1, <1>5, <1>7, <2>1, FileMade DEF RunsInv, IdsAreOld
    <2>2. CASE ~IsDir(w)
      <3> DEFINE a == <<w.dir, w.name>>
      <3>1. disk'.files[a] = w.file /\ w.file.uuid[1] = n
        BY <1>1, <1>5, <2>2, FileMade, PlannedWriteIs
      <3>2. p = a \/ (p \in DOMAIN disk.files /\ disk'.files[p] = disk.files[p])
        BY ZenonT(30), <1>1, <1>5, <1>7, <2>2, FileMade
      <3>3. CASE p = a
        BY <2>0, <3>1, <3>3
      <3>4. CASE p \in DOMAIN disk.files /\ disk'.files[p] = disk.files[p]
        BY <3>4 DEF RunsInv, IdsAreOld
      <3> QED
        BY <3>2, <3>3, <3>4
    <2> QED
      BY <2>1, <2>2
  <1>8. IdsAreOld'
    BY <1>2, <1>7 DEF IdsAreOld
  <1>9. ReportIs'
    <2>1. \A s \in Requests : req'[s].pc = "writing" => req[s].pc = "writing" /\ req'[s].run = req[s].run
      BY <1>1, <1>2, <1>3, OneRequest DEF n, RunsInv
    <2> QED
      BY <1>2, <2>1 DEF RunsInv, ReportIs
  <1> QED
    BY <1>2, <1>4, <1>6, <1>8, <1>9 DEF RunsInv, WizardIs

RunsUnderWay == {req[r].run : r \in {q \in Requests : req[q].pc # "idle"}}

\* A file goes by another name in its directory, and the project is read again.
Renames(old, new) ==
    /\ old \in DOMAIN disk.files /\ new[1] = old[1] /\ new \notin DOMAIN world.files
    /\ IsTree(disk') /\ disk'.dirs = disk.dirs
    /\ DOMAIN disk'.files = (DOMAIN disk.files \ {old}) \cup {new}
    /\ disk'.files[new] = disk.files[old]
    /\ \A p \in DOMAIN disk.files : p # old /\ p # new => disk'.files[p] = disk.files[p]
    /\ world' = disk'
    /\ crossed' = crossed \cup RunsUnderWay

LEMMA ApplyOneIs ==
    ASSUME RunsInv, ApplyOne
    PROVE  /\ UNCHANGED <<scene, source, runs, req, report>>
           /\ WizardIs' /\ wizard'.rows = wizard.rows /\ DOMAIN wizard'.todo \subseteq DOMAIN wizard.todo
           /\ \/ UNCHANGED <<disk, world, crossed>>
              \/ \E u \in DOMAIN wizard.todo : \E old, new :
                    u \in UuidsOf(world) /\ old = Located(world, u) /\ Renames(old, new)
PROOF
  <1>1. PICK u \in DOMAIN wizard.todo :
          /\ wizard' = [wizard EXCEPT !.todo = Restrict(@, DOMAIN @ \ {u})]
          /\ \/ UNCHANGED <<disk, world, crossed>>
             \/ /\ u \in UuidsOf(world) /\ Located(world, u) \in DOMAIN disk.files
                /\ LET old == Located(world, u)
                       new == <<old[1], wizard.todo[u]>>
                   IN  /\ new \notin DOMAIN world.files
                       /\ disk' = [disk EXCEPT !.files =
                              [p \in (DOMAIN @ \ {old}) \cup {new} |-> IF p = new THEN @[old] ELSE @[p]]]
                /\ world' = disk'
                /\ crossed' = crossed \cup RunsUnderWay
          /\ UNCHANGED <<scene, source, runs, req, report, dialog>>
    BY Zenon DEF ApplyOne, RunsUnderWay
  <1>2. WizardIs' /\ wizard'.rows = wizard.rows /\ DOMAIN wizard'.todo \subseteq DOMAIN wizard.todo
    <2>1. wizard = [open |-> wizard.open, rows |-> wizard.rows, offered |-> wizard.offered,
                    todo |-> wizard.todo, applied |-> wizard.applied]
      BY DEF RunsInv, WizardIs
    <2> DEFINE less == [x \in DOMAIN wizard.todo \ {u} |-> wizard.todo[x]]
    <2>2. wizard' = [wizard EXCEPT !.todo = less]
      BY <1>1 DEF Restrict
    <2>3. DOMAIN less \subseteq DOMAIN wizard.todo
      OBVIOUS
    <2> HIDE DEF less
    <2>4. wizard' = [open |-> wizard.open, rows |-> wizard.rows, offered |-> wizard.offered,
                     todo |-> less, applied |-> wizard.applied]
      BY <2>1, <2>2
    <2> QED
      BY <2>3, <2>4 DEF WizardIs
  <1>3. CASE ~UNCHANGED <<disk, world, crossed>>
    <2>1. PICK old, new : old = Located(world, u) /\ new = <<old[1], wizard.todo[u]>>
      OBVIOUS
    <2> DEFINE b == disk.files
               more == [p \in (DOMAIN b \ {old}) \cup {new} |-> IF p = new THEN b[old] ELSE b[p]]
    <2>2. /\ u \in UuidsOf(world) /\ old \in DOMAIN disk.files /\ new \notin DOMAIN world.files
          /\ disk' = [disk EXCEPT !.files = more]
          /\ world' = disk' /\ crossed' = crossed \cup RunsUnderWay
      BY <1>1, <1>3, <2>1
    <2>3. disk = [dirs |-> disk.dirs, files |-> b]
      BY DEF RunsInv, TreesAre, IsTree
    <2>4. /\ DOMAIN more = (DOMAIN b \ {old}) \cup {new} /\ more[new] = b[old]
          /\ \A p \in DOMAIN b : p # old /\ p # new => more[p] = b[p]
      OBVIOUS
    <2>5. new[1] = old[1]
      BY <2>1
    <2> HIDE DEF more
    <2>6. disk' = [dirs |-> disk.dirs, files |-> more]
      BY <2>2, <2>3
    <2>7. Renames(old, new)
      BY <2>2, <2>4, <2>5, <2>6 DEF Renames, IsTree
    <2> QED
      BY <1>1, <1>2, <2>1, <2>2, <2>7
  <1> QED
    BY <1>1, <1>2, <1>3

LEMMA RunsByApply == ASSUME RunsInv, ApplyOne PROVE RunsInv'
PROOF
  <1>1. /\ UNCHANGED <<scene, source, runs, req, report>> /\ WizardIs'
        /\ \/ UNCHANGED <<disk, world, crossed>>
           \/ \E old, new : Renames(old, new)
    BY ApplyOneIs
  <1>2. CASE UNCHANGED <<disk, world, crossed>>
    <2>1. source' \in scene.trees /\ IsTree(world')
      BY <1>1, <1>2 DEF RunsInv, TreesAre, IsTree
    <2> QED
      BY <1>1, <1>2, <2>1, RunsStay
  <1>3. CASE \E old, new : Renames(old, new)
    <2>1. PICK old, new : Renames(old, new)
      BY <1>3
    <2>2. IsTree(disk') /\ IsTree(world')
      BY <2>1 DEF Renames, IsTree
    <2>3. TreesAre'
      BY <1>1, <2>2 DEF RunsInv, TreesAre, IsTree
    <2>4. ASSUME NEW p \in DOMAIN disk'.files
          PROVE  \E o \in DOMAIN disk.files : disk'.files[p] = disk.files[o]
      BY <2>1 DEF Renames
    <2>5. IdsAreOld'
      BY <1>1, <2>4 DEF RunsInv, IdsAreOld
    <2>6. RequestsAre'
      BY <1>1, RequestsStay
    <2> QED
      BY <1>1, <2>3, <2>5, <2>6 DEF RunsInv, ReportIs
  <1> QED
    BY <1>1, <1>2, <1>3

\* The pc of one request changes.
LEMMA MovesTo ==
    ASSUME NEW q, RequestIs(q), q.pc # "idle"
    PROVE  LET next == [q EXCEPT !.pc = "reported"]
           IN  RequestIs(next) /\ next.pc = "reported" /\ next.run = q.run
PROOF
  <1> DEFINE n == q.run
             t == q.tree
             todo == q.todo
             next == [q EXCEPT !.pc = "reported"]
  <1>1. q = [pc |-> q.pc, run |-> n, tree |-> t, todo |-> todo]
    BY DEF RequestIs
  <1>2. n \in 1..runs /\ t \in scene.trees /\ todo \in Seq(PlannedWrites(t, n))
    BY DEF RequestIs
  <1> HIDE DEF n, t, todo
  <1>3. next = [pc |-> "reported", run |-> n, tree |-> t, todo |-> todo]
    BY <1>1
  <1> HIDE DEF next
  <1>4. next.pc = "reported" /\ next.run = n /\ next.tree = t /\ next.todo = todo
    BY <1>3
  <1>5. RequestIs(next)
    BY <1>2, <1>3, <1>4 DEF RequestIs
  <1> QED
    BY <1>4, <1>5 DEF n, next

LEMMA RunsByFinish ==
    ASSUME RunsInv, NEW r \in Requests, Finish(r)
    PROVE  /\ RunsInv'
           /\ report' # None => report'.run = req[r].run /\ report'.tree = req[r].tree
           /\ req'[r].pc = "reported" /\ req'[r].run = req[r].run
           /\ \A s \in Requests \ {r} : req'[s] = req[s]
PROOF
  <1> DEFINE q == req[r]
             next == [q EXCEPT !.pc = "reported"]
  <1>1. /\ q.pc = "writing" /\ report' = ReportOf(q.tree, q.run)
        /\ req' = [req EXCEPT ![r] = next]
        /\ UNCHANGED <<scene, source, disk, world, runs, dialog, wizard, crossed>>
    BY DEF Finish
  <1>2. RequestIs(q) /\ q.run \in 1..runs /\ q.tree \in scene.trees
    <2>1. RequestIs(q)
      BY DEF RunsInv, RequestsAre
    <2> QED
      BY <1>1, <2>1 DEF RequestIs
  <1>3. PICK n, t : n = q.run /\ t = q.tree
    OBVIOUS
  <1>4. RequestIs(next) /\ next.pc = "reported" /\ next.run = n
    BY <1>1, <1>2, <1>3, MovesTo
  <1> HIDE DEF next
  <1>5. RequestsAre'
    BY <1>1, <1>3, <1>4, RequestMoves
  <1>6. req'[r] = next /\ (\A s \in Requests \ {r} : req'[s] = req[s])
    BY <1>1, OneRequest DEF RunsInv
  <1>7. report' = ReportOf(t, n) /\ report'.run = n /\ report'.tree = t
    BY <1>1, <1>3, ReportShape
  <1>8. \A s \in Requests : req'[s].pc = "writing" => req'[s].run # n
    <2> SUFFICES ASSUME NEW s \in Requests, req'[s].pc = "writing", req'[s].run = n PROVE FALSE
      OBVIOUS
    <2>1. s # r
      BY <1>4, <1>6
    <2>2. req[s].pc # "idle" /\ req[r].pc # "idle" /\ req[s].run = req[r].run
      BY <1>1, <1>3, <1>6, <2>1
    <2> QED
      BY <2>1, <2>2 DEF RunsInv, RequestsAre, RunsDiffer
  <1>9. ReportIs'
    BY <1>1, <1>2, <1>3, <1>7, <1>8 DEF ReportIs
  <1>10. TreesAre' /\ IdsAreOld' /\ WizardIs'
    BY <1>1 DEF RunsInv, TreesAre, IdsAreOld, WizardIs, IsTree
  <1> QED
    BY <1>3, <1>4, <1>5, <1>6, <1>7, <1>9, <1>10 DEF RunsInv

\* A request ends.
LEMMA RunsByEnd ==
    ASSUME RunsInv, NEW r \in Requests, req' = [req EXCEPT ![r] = Idle],
           UNCHANGED <<scene, source, disk, runs, report, wizard>>, IsTree(world')
    PROVE  RunsInv'
PROOF
  <1>1. RequestsAre'
    BY IdleIs, RequestMoves
  <1>2. req'[r] = Idle /\ (\A s \in Requests \ {r} : req'[s] = req[s])
    BY OneRequest DEF RunsInv
  <1>3. ReportIs'
    <2>1. \A s \in Requests : req'[s].pc = "writing" => req[s].pc = "writing" /\ req'[s].run = req[s].run
      BY <1>2, IdleIs
    <2> QED
      BY <2>1 DEF RunsInv, ReportIs
  <1> QED
    BY <1>1, <1>3 DEF RunsInv, TreesAre, IdsAreOld, WizardIs, IsTree

LEMMA RunsByRestart == ASSUME RunsInv, Restart PROVE RunsInv'
PROOF
  <1>1. /\ req' = [r \in Requests |-> Idle] /\ report' = None /\ world' = disk
        /\ UNCHANGED <<scene, source, disk, runs, wizard, crossed>>
    BY DEF Restart
  <1>2. RequestsAre'
    <2>1. \A r \in Requests : req'[r] = Idle
      BY <1>1
    <2> QED
      BY <1>1, <2>1, IdleIs DEF RequestsAre, RunsDiffer, RequestIs
  <1> QED
    BY <1>1, <1>2 DEF RunsInv, TreesAre, IdsAreOld, WizardIs, IsTree, ReportIs

\* The dialog and the wizard, the source and the watcher.
Aside ==
    \/ Preview \/ Back \/ CloseDialog \/ Watch \/ EditSource
    \/ OpenWizard \/ Suggest \/ ApplyAll \/ NobodyImports

LEMMA AsideIs ==
    ASSUME RunsInv, Aside \/ UNCHANGED vars
    PROVE  /\ UNCHANGED <<scene, disk, runs, req, report, crossed>>
           /\ source' \in scene.trees /\ (world' = world \/ world' = disk) /\ WizardIs'
PROOF
  <1> DEFINE Same == UNCHANGED <<scene, disk, runs, req, report, crossed>>
             Goal == source' \in scene.trees /\ (world' = world \/ world' = disk) /\ WizardIs'
  <1>0. source \in scene.trees
    BY DEF RunsInv, TreesAre
  <1>1. CASE Preview \/ Back \/ Watch \/ EditSource \/ NobodyImports \/ UNCHANGED vars
    BY <1>0, <1>1 DEF Preview, Back, Watch, EditSource, NobodyImports, vars, RunsInv, WizardIs
  <1>2. ASSUME CloseDialog \/ OpenWizard \/ Suggest \/ ApplyAll
        PROVE  Same /\ Goal
    <2>1. Same /\ UNCHANGED <<source, world>>
      BY <1>2 DEF CloseDialog, OpenWizard, Suggest, ApplyAll
    <2>2. WizardIs'
      <3>1. CASE CloseDialog
        BY <3>1 DEF CloseDialog, NoWizard, WizardIs
      <3>2. CASE OpenWizard
        <4>1. PICK rows : wizard' = [NoWizard EXCEPT !.open = TRUE, !.rows = rows]
          BY <3>2 DEF OpenWizard
        <4> QED
          BY <4>1 DEF NoWizard, WizardIs
      <3>0. wizard = [open |-> wizard.open, rows |-> wizard.rows, offered |-> wizard.offered,
                      todo |-> wizard.todo, applied |-> wizard.applied]
        BY DEF RunsInv, WizardIs
      <3>3. CASE Suggest
        <4>1. PICK offered : wizard' = [wizard EXCEPT !.offered = offered]
          BY <3>3 DEF Suggest
        <4> QED
          BY <3>0, <4>1 DEF WizardIs
      <3>4. CASE ApplyAll
        <4>1. PICK todo : wizard' = [wizard EXCEPT !.todo = todo, !.applied = TRUE]
          BY <3>4 DEF ApplyAll
        <4> QED
          BY <3>0, <4>1 DEF WizardIs
      <3> QED
        BY <1>2, <3>1, <3>2, <3>3, <3>4
    <2> QED
      BY <1>0, <2>1, <2>2
  <1> QED
    BY <1>1, <1>2 DEF Aside

LEMMA RunsNext == RunsInv /\ [Next]_vars => RunsInv'
PROOF
  <1> SUFFICES ASSUME RunsInv, [Next]_vars PROVE RunsInv'
    OBVIOUS
  <1>1. CASE Aside \/ UNCHANGED vars
    <2>1. IsTree(world')
      BY <1>1, AsideIs DEF RunsInv, TreesAre, IsTree
    <2> QED
      BY <1>1, <2>1, AsideIs, RunsStay
  <1>2. ASSUME NEW r \in Requests, StartImport(r) PROVE RunsInv'
    BY <1>2, RunsByStart
  <1>3. ASSUME NEW r \in Requests, Write(r) PROVE RunsInv'
    BY <1>3, RunsByWrite
  <1>4. ASSUME NEW r \in Requests, Fail(r) PROVE RunsInv'
    <2>1. IsTree(world')
      BY <1>4 DEF Fail, RunsInv, TreesAre, IsTree
    <2> QED
      BY <1>4, <2>1, RunsByEnd DEF Fail
  <1>5. ASSUME NEW r \in Requests, Finish(r) PROVE RunsInv'
    BY <1>5, RunsByFinish
  <1>6. ASSUME NEW r \in Requests, Answer(r) PROVE RunsInv'
    <2>1. IsTree(world')
      BY <1>6 DEF Answer, RunsInv, TreesAre, IsTree
    <2> QED
      BY <1>6, <2>1, RunsByEnd DEF Answer
  <1> QED
    BY <1>1, <1>2, <1>3, <1>4, <1>5, <1>6, RunsByRestart, RunsByApply DEF Next, Aside

-----------------------------------------------------------------------------
(***************************************************************************)
(* The project there was.  Its files bear identities of no run; imports    *)
(* write elsewhere, and the wizard has only what imports wrote.            *)
(***************************************************************************)

Apart == \A t \in scene.trees : \A d \in DOMAIN t : Slug[t[d].prefix] \notin DOMAIN scene.home.dirs

KeepsHome(tree) ==
    /\ \A d \in DOMAIN scene.home.dirs : d \in DOMAIN tree.dirs /\ tree.dirs[d] = scene.home.dirs[d]
    /\ \A p \in DOMAIN scene.home.files : p \in DOMAIN tree.files /\ tree.files[p] = scene.home.files[p]
    /\ \A p \in DOMAIN tree.files : tree.files[p].uuid[1] = 0 => p \in DOMAIN scene.home.files

NewTo(t) == \A d \in DOMAIN t : \A e \in DOMAIN scene.home.dirs : t[d].prefix # scene.home.dirs[e]

OfRuns == \A u \in DOMAIN wizard.rows \cup DOMAIN wizard.todo : u[1] # 0

HomeInv ==
    Apart => /\ KeepsHome(disk) /\ KeepsHome(world)
             /\ \A r \in Requests : req[r].pc # "idle" => NewTo(req[r].tree)
             /\ report # None => NewTo(report.tree)
             /\ OfRuns

LEMMA HomeInit == Init => HomeInv
PROOF
  <1> SUFFICES ASSUME Init PROVE HomeInv
    OBVIOUS
  <1>1. /\ scene \in Scenes /\ disk = scene.home /\ world = scene.home
        /\ report = None /\ wizard = NoWizard /\ \A r \in Requests : req[r] = Idle
    BY DEF Init
  <1>2. KeepsHome(scene.home)
    BY DEF KeepsHome
  <1>3. OfRuns
    BY <1>1 DEF OfRuns, NoWizard
  <1> QED
    BY <1>1, <1>2, <1>3, IdleIs DEF HomeInv

\* What is located bears the identity it was sought by.
LEMMA LocatedIs ==
    ASSUME NEW tree, NEW u \in UuidsOf(tree)
    PROVE  Located(tree, u) \in DOMAIN tree.files /\ tree.files[Located(tree, u)].uuid = u
PROOF
  <1>1. \E p \in DOMAIN tree.files : tree.files[p].uuid = u
    BY DEF UuidsOf
  <1> QED
    BY <1>1, Zenon DEF Located

LEMMA HomeByWrite ==
    ASSUME RunsInv, HomeInv, NEW r \in Requests, Write(r) PROVE HomeInv'
PROOF
  <1> DEFINE n == req[r].run
             t == req[r].tree
             w == Head(req[r].todo)
             q == [pc |-> "writing", run |-> n, tree |-> t, todo |-> Tail(req[r].todo)]
  <1>1. /\ n \in 1..runs /\ t \in Seq(Document) /\ t \in scene.trees
        /\ w \in PlannedWrites(t, n) /\ disk' = Written(disk, w) /\ req' = [req EXCEPT ![r] = q]
    BY WriteMakes
  <1>2. UNCHANGED <<scene, source, world, runs, report, wizard>> /\ req[r].pc = "writing"
    BY DEF Write
  <1>3. q.tree = t
    OBVIOUS
  <1>4. scene \in Scenes /\ IsTree(disk) /\ runs \in Nat
    BY DEF RunsInv, TreesAre
  <1> HIDE DEF w, q
  <1> SUFFICES ASSUME Apart PROVE HomeInv'
    BY <1>2 DEF HomeInv, Apart
  <1>5. KeepsHome(disk) /\ KeepsHome(world) /\ OfRuns
        /\ (\A s \in Requests : req[s].pc # "idle" => NewTo(req[s].tree))
        /\ (report # None => NewTo(report.tree))
    BY DEF HomeInv
  <1>6. w.dir \notin DOMAIN scene.home.dirs /\ (~IsDir(w) => w.file.uuid[1] = n /\ n # 0)
    <2>1. /\ \E d \in DOMAIN t : w.dir = Slug[t[d].prefix]
          /\ ~IsDir(w) => w.file.uuid[1] = n
      BY <1>1, PlannedWriteIs
    <2>2. n # 0
      BY <1>1, <1>4
    <2> QED
      BY <1>1, <2>1, <2>2 DEF Apart
  <1>7. \A p \in DOMAIN scene.home.files : p # <<w.dir, w.name>>
    <2>1. \A p \in DOMAIN scene.home.files : p[1] \in DOMAIN scene.home.dirs
      BY <1>4, SceneIs DEF Home
    <2> QED
      BY <1>6, <2>1
  <1>8. ASSUME NEW d \in DOMAIN scene.home.dirs
        PROVE  d \in DOMAIN disk'.dirs /\ disk'.dirs[d] = scene.home.dirs[d]
    <2>1. d \in DOMAIN disk.dirs /\ disk.dirs[d] = scene.home.dirs[d] /\ d # w.dir
      BY <1>5, <1>6 DEF KeepsHome
    <2> QED
      BY <1>1, <1>4, <2>1, DirMade
  <1>9. ASSUME NEW p \in DOMAIN scene.home.files
        PROVE  p \in DOMAIN disk'.files /\ disk'.files[p] = scene.home.files[p]
    <2>1. p \in DOMAIN disk.files /\ disk.files[p] = scene.home.files[p] /\ p # <<w.dir, w.name>>
      BY <1>5, <1>7 DEF KeepsHome
    <2> QED
      BY <1>1, <1>4, <2>1, FileMade
  <1>10. ASSUME NEW p \in DOMAIN disk'.files, disk'.files[p].uuid[1] = 0
         PROVE  p \in DOMAIN scene.home.files
    <2>1. CASE IsDir(w)
      BY <1>1, <1>4, <1>5, <1>10, <2>1, FileMade DEF KeepsHome
    <2>2. CASE ~IsDir(w)
      <3> DEFINE a == <<w.dir, w.name>>
      <3>1. disk'.files[a] = w.file
        BY <1>1, <1>4, <2>2, FileMade
      <3>0. \A o \in DOMAIN Written(disk, w).files : o # a =>
                o \in DOMAIN disk.files /\ Written(disk, w).files[o] = disk.files[o]
        BY ZenonT(30), <1>4, <2>2, FileMade
      <3> HIDE DEF a
      <3>2. p = a \/ (p \in DOMAIN disk.files /\ disk'.files[p] = disk.files[p])
        BY <1>1, <1>10, <3>0
      <3>3. p # a
        <4> SUFFICES ASSUME p = a PROVE FALSE
          OBVIOUS
        <4>1. disk'.files[p] = w.file
          BY <3>1
        <4>2. w.file.uuid[1] = 0
          BY <1>10, <4>1
        <4>3. w.file.uuid[1] = n /\ n # 0
          BY <1>6, <2>2
        <4> QED
          BY <4>2, <4>3
      <3> QED
        BY <1>5, <1>10, <3>2, <3>3 DEF KeepsHome
    <2> QED
      BY <2>1, <2>2
  <1>11. KeepsHome(disk)'
    BY <1>2, <1>8, <1>9, <1>10 DEF KeepsHome
  <1>12. \A s \in Requests : req'[s].pc # "idle" => NewTo(req'[s].tree)
    <2>1. req'[r] = q /\ (\A s \in Requests \ {r} : req'[s] = req[s])
      BY <1>1, OneRequest DEF RunsInv
    <2> QED
      BY <1>2, <1>3, <1>5, <2>1
  <1> QED
    BY <1>2, <1>5, <1>11, <1>12 DEF HomeInv, NewTo, OfRuns, KeepsHome

LEMMA HomeByStart ==
    ASSUME RunsInv, HomeInv, NEW r \in Requests, StartImport(r) PROVE HomeInv'
PROOF
  <1> SUFFICES ASSUME Apart PROVE HomeInv'
    BY DEF HomeInv, Apart, StartImport
  <1>1. UNCHANGED <<scene, source, disk, world, report, wizard, crossed>>
    BY DEF StartImport
  <1>2. KeepsHome(disk) /\ KeepsHome(world) /\ OfRuns
        /\ (\A s \in Requests : req[s].pc # "idle" => NewTo(req[s].tree))
        /\ (report # None => NewTo(report.tree))
    BY DEF HomeInv
  <1>3. CASE req' = req
    BY <1>1, <1>2, <1>3 DEF HomeInv, NewTo, OfRuns, KeepsHome
  <1>4. CASE req' # req
    <2>1. PICK q : req' = [req EXCEPT ![r] = q] /\ q.tree = source /\ ~Collides(source)
      <3> DEFINE begun == [pc |-> "writing", run |-> runs + 1, tree |-> source,
                           todo |-> WritesOf(BuildPlan(source, runs + 1))]
      <3>1. ~Collides(source) /\ req' = [req EXCEPT ![r] = begun]
        BY <1>4 DEF StartImport
      <3>2. begun.tree = source
        OBVIOUS
      <3> HIDE DEF begun
      <3> QED
        BY <3>1, <3>2
    <2>2. NewTo(source)
      <3>1. ASSUME NEW d \in DOMAIN source, NEW e \in DOMAIN scene.home.dirs,
                   source[d].prefix = scene.home.dirs[e]
            PROVE  FALSE
        <4>1. e \in DOMAIN world.dirs /\ world.dirs[e] = source[d].prefix
          BY <1>2, <3>1 DEF KeepsHome
        <4> QED
          BY <2>1, <4>1 DEF Collides, PrefixesOf
      <3> QED
        BY <3>1 DEF NewTo
    <2>3. req'[r] = q /\ (\A s \in Requests \ {r} : req'[s] = req[s])
      BY <2>1, OneRequest DEF RunsInv
    <2>4. \A s \in Requests : req'[s].pc # "idle" => NewTo(req'[s].tree)
      BY <1>2, <2>1, <2>2, <2>3
    <2> QED
      BY <1>1, <1>2, <2>4 DEF HomeInv, NewTo, OfRuns, KeepsHome
  <1> QED
    BY <1>3, <1>4

LEMMA HomeByApply == ASSUME RunsInv, HomeInv, ApplyOne PROVE HomeInv'
PROOF
  <1>1. /\ UNCHANGED <<scene, source, runs, req, report>>
        /\ wizard'.rows = wizard.rows /\ DOMAIN wizard'.todo \subseteq DOMAIN wizard.todo
        /\ \/ UNCHANGED <<disk, world, crossed>>
           \/ \E u \in DOMAIN wizard.todo : \E old, new :
                 u \in UuidsOf(world) /\ old = Located(world, u) /\ Renames(old, new)
    BY ApplyOneIs
  <1> SUFFICES ASSUME Apart PROVE HomeInv'
    BY <1>1 DEF HomeInv, Apart
  <1>2. KeepsHome(disk) /\ KeepsHome(world) /\ OfRuns
        /\ (\A s \in Requests : req[s].pc # "idle" => NewTo(req[s].tree))
        /\ (report # None => NewTo(report.tree))
    BY DEF HomeInv
  <1>3. OfRuns'
    BY <1>1, <1>2 DEF OfRuns
  <1>4. CASE UNCHANGED <<disk, world, crossed>>
    BY <1>1, <1>2, <1>3, <1>4 DEF HomeInv, NewTo, KeepsHome
  <1>5. CASE \E u \in DOMAIN wizard.todo : \E old, new :
                u \in UuidsOf(world) /\ old = Located(world, u) /\ Renames(old, new)
    <2>1. PICK u \in DOMAIN wizard.todo : \E old, new :
                u \in UuidsOf(world) /\ old = Located(world, u) /\ Renames(old, new)
      BY <1>5
    <2>2. PICK old, new : u \in UuidsOf(world) /\ old = Located(world, u) /\ Renames(old, new)
      BY <2>1
    <2>3. /\ old \in DOMAIN disk.files /\ new \notin DOMAIN world.files
          /\ disk'.dirs = disk.dirs
          /\ DOMAIN disk'.files = (DOMAIN disk.files \ {old}) \cup {new}
          /\ disk'.files[new] = disk.files[old]
          /\ \A p \in DOMAIN disk.files : p # old /\ p # new => disk'.files[p] = disk.files[p]
          /\ world' = disk'
      BY <2>2 DEF Renames
    <2>4. old \notin DOMAIN scene.home.files
      <3>1. old \in DOMAIN world.files /\ world.files[old].uuid[1] # 0
        BY <1>2, <2>2, LocatedIs DEF OfRuns
      <3>2. scene \in Scenes /\ \A p \in DOMAIN scene.home.files : scene.home.files[p].uuid[1] = 0
        BY SceneIs DEF Home, RunsInv, TreesAre
      <3> QED
        BY <1>2, <3>1, <3>2 DEF KeepsHome
    <2>5. new \notin DOMAIN scene.home.files
      BY <1>2, <2>3 DEF KeepsHome
    <2>6. \A p \in DOMAIN scene.home.files : p \in DOMAIN disk'.files /\ disk'.files[p] = scene.home.files[p]
      BY <1>2, <2>3, <2>4, <2>5 DEF KeepsHome
    <2>7. ASSUME NEW p \in DOMAIN disk'.files, disk'.files[p].uuid[1] = 0
          PROVE  p \in DOMAIN scene.home.files
      <3>1. CASE p = new
        BY <1>2, <2>3, <2>4, <2>7, <3>1 DEF KeepsHome
      <3>2. CASE p # new
        BY <1>2, <2>3, <2>7, <3>2 DEF KeepsHome
      <3> QED
        BY <3>1, <3>2
    <2>8. KeepsHome(disk)'
      BY <1>1, <1>2, <2>3, <2>6, <2>7 DEF KeepsHome
    <2>9. KeepsHome(world)'
      BY <1>1, <2>3, <2>8 DEF KeepsHome
    <2> QED
      BY <1>1, <1>2, <1>3, <2>8, <2>9 DEF HomeInv, NewTo
  <1> QED
    BY <1>1, <1>4, <1>5

LEMMA RowsOfRuns ==
    ASSUME RunsInv, HomeInv, Apart, Aside \/ UNCHANGED vars PROVE OfRuns'
PROOF
  <1>1. KeepsHome(world) /\ OfRuns /\ (report # None => NewTo(report.tree)) /\ scene \in Scenes
    BY DEF HomeInv, RunsInv, TreesAre
  <1>2. CASE CloseDialog
    BY <1>1, <1>2 DEF CloseDialog, NoWizard, OfRuns
  <1>3. CASE OpenWizard
    <2> DEFINE rows == {p \in DOMAIN world.files :
                          \E d \in DOMAIN report.tree : world.dirs[p[1]] = report.tree[d].prefix}
               listed == [u \in {world.files[p].uuid : p \in rows} |-> Located(world, u)[2]]
    <2>1. report # None /\ wizard' = [NoWizard EXCEPT !.open = TRUE, !.rows = listed]
      BY <1>3 DEF OpenWizard
    <2>2. \A u \in DOMAIN listed : \E p \in rows : u = world.files[p].uuid
      OBVIOUS
    <2>3. ASSUME NEW p \in rows, world.files[p].uuid[1] = 0 PROVE FALSE
      <3>1. p \in DOMAIN scene.home.files
        BY <1>1, <2>3 DEF KeepsHome
      <3>2. p[1] \in DOMAIN scene.home.dirs
        BY <1>1, <3>1, SceneIs DEF Home
      <3>3. world.dirs[p[1]] = scene.home.dirs[p[1]]
        BY <1>1, <3>2 DEF KeepsHome
      <3>4. \E d \in DOMAIN report.tree : world.dirs[p[1]] = report.tree[d].prefix
        OBVIOUS
      <3> QED
        BY <1>1, <2>1, <3>2, <3>3, <3>4 DEF NewTo
    <2> HIDE DEF rows
    <2>4. \A u \in DOMAIN listed : u[1] # 0
      BY <2>2, <2>3
    <2> HIDE DEF listed
    <2>5. wizard'.rows = listed /\ DOMAIN wizard'.todo = {}
      BY <2>1 DEF NoWizard
    <2> QED
      BY <2>4, <2>5 DEF OfRuns
  <1>0. wizard = [open |-> wizard.open, rows |-> wizard.rows, offered |-> wizard.offered,
                  todo |-> wizard.todo, applied |-> wizard.applied]
    BY DEF RunsInv, WizardIs
  <1>4. CASE Suggest
    <2>1. PICK offered : wizard' = [wizard EXCEPT !.offered = offered]
      BY <1>4 DEF Suggest
    <2>2. wizard'.rows = wizard.rows /\ wizard'.todo = wizard.todo
      BY <1>0, <2>1
    <2> QED
      BY <1>1, <2>2 DEF OfRuns
  <1>5. CASE ApplyAll
    <2>1. PICK picks \in SUBSET DOMAIN wizard.rows : \E todo \in [picks -> Suggested] :
              wizard' = [wizard EXCEPT !.todo = todo, !.applied = TRUE]
      BY <1>5 DEF ApplyAll
    <2>2. PICK todo \in [picks -> Suggested] : wizard' = [wizard EXCEPT !.todo = todo, !.applied = TRUE]
      BY <2>1
    <2>3. wizard'.rows = wizard.rows /\ wizard'.todo = todo
      BY <1>0, <2>2
    <2> QED
      BY <1>1, <2>2, <2>3 DEF OfRuns
  <1>6. CASE Preview \/ Back \/ Watch \/ EditSource \/ NobodyImports \/ UNCHANGED vars
    <2>1. wizard' = wizard
      BY <1>6 DEF Preview, Back, Watch, EditSource, NobodyImports, vars
    <2> QED
      BY <1>1, <2>1 DEF OfRuns
  <1> QED
    BY <1>2, <1>3, <1>4, <1>5, <1>6 DEF Aside

LEMMA HomeNext == RunsInv /\ HomeInv /\ [Next]_vars => HomeInv'
PROOF
  <1> SUFFICES ASSUME RunsInv, HomeInv, [Next]_vars PROVE HomeInv'
    OBVIOUS
  <1>0. Apart => /\ KeepsHome(disk) /\ KeepsHome(world) /\ OfRuns
                 /\ (\A s \in Requests : req[s].pc # "idle" => NewTo(req[s].tree))
                 /\ (report # None => NewTo(report.tree))
    BY DEF HomeInv
  <1>1. CASE Aside \/ UNCHANGED vars
    <2>1. /\ UNCHANGED <<scene, disk, runs, req, report, crossed>>
          /\ (world' = world \/ world' = disk)
      BY <1>1, AsideIs
    <2>2. Apart => OfRuns'
      BY <1>1, RowsOfRuns
    <2> QED
      BY <1>0, <2>1, <2>2 DEF HomeInv, Apart, KeepsHome, NewTo
  <1>2. ASSUME NEW r \in Requests, Fail(r) \/ Answer(r) PROVE HomeInv'
    <2>1. /\ UNCHANGED <<scene, disk, report, wizard>> /\ (world' = world \/ world' = disk)
          /\ req' = [req EXCEPT ![r] = Idle]
      BY <1>2 DEF Fail, Answer
    <2>2. \A s \in Requests : req'[s].pc # "idle" => req'[s] = req[s]
      <3>1. req'[r] = Idle /\ (\A s \in Requests \ {r} : req'[s] = req[s])
        BY <2>1, OneRequest DEF RunsInv
      <3> QED
        BY <3>1, IdleIs
    <2> QED
      BY <1>0, <2>1, <2>2 DEF HomeInv, Apart, KeepsHome, NewTo, OfRuns
  <1>3. ASSUME NEW r \in Requests, Finish(r) PROVE HomeInv'
    <2>1. /\ UNCHANGED <<scene, disk, world, wizard>> /\ req[r].pc # "idle"
          /\ req' = [req EXCEPT ![r].pc = "reported"]
      BY <1>3 DEF Finish
    <2>2. /\ report' # None => report'.tree = req[r].tree
          /\ \A s \in Requests \ {r} : req'[s] = req[s]
      BY <1>3, RunsByFinish
    <2>3. req'[r].tree = req[r].tree
      <3>1. RequestIs(req[r]) /\ req'[r] = [req[r] EXCEPT !.pc = "reported"]
        BY <2>1 DEF RunsInv, RequestsAre
      <3> QED
        BY <3>1 DEF RequestIs
    <2> QED
      BY <1>0, <2>1, <2>2, <2>3 DEF HomeInv, Apart, KeepsHome, NewTo, OfRuns
  <1>4. CASE Restart
    <2>1. /\ UNCHANGED <<scene, disk, wizard>> /\ world' = disk /\ report' = None
          /\ \A s \in Requests : req'[s] = Idle
      BY <1>4 DEF Restart
    <2> QED
      BY <1>0, <2>1, IdleIs DEF HomeInv, Apart, KeepsHome, NewTo, OfRuns
  <1> QED
    BY <1>1, <1>2, <1>3, <1>4, HomeByStart, HomeByWrite, HomeByApply DEF Next, Aside

LEMMA HomeIs == HomeInv => HomeStays
  BY DEF HomeInv, HomeStays, Apart, KeepsHome

-----------------------------------------------------------------------------
(***************************************************************************)
(* One import.  While it is written nothing is missing but what is still   *)
(* to be written; once it is reported all of it stands, under the names    *)
(* the wizard gave it since.                                               *)
(***************************************************************************)

PathOf(plan, x) == <<plan[x[1]].dir, ArtAt(plan, x).name>>
FileAt(plan, x) == BuildArtifactFile(plan[x[1]], ArtAt(plan, x))
Placed(files, plan, x) == PathOf(plan, x) \in DOMAIN files /\ files[PathOf(plan, x)] = FileAt(plan, x)

OnlyPlanned(files, plan, n) ==
    \A p \in DOMAIN files : files[p].uuid[1] = n =>
        \E x \in Positioned(plan) : p = PathOf(plan, x) /\ files[p] = FileAt(plan, x)

BeingWritten(files, t, n, todo) ==
    LET plan == BuildPlan(t, n)
    IN  /\ \A x \in Positioned(plan) : FileWrite(plan, x) \in ToSet(todo) \/ Placed(files, plan, x)
        /\ OnlyPlanned(files, plan, n)

InDirOf(files, p, plan, x) == p[1] = plan[x[1]].dir /\ files[p] = FileAt(plan, x)

AllStand(files, t, n) ==
    LET plan == BuildPlan(t, n)
    IN  /\ \A x \in Positioned(plan) : \E p \in DOMAIN files : InDirOf(files, p, plan, x)
        /\ \A p \in DOMAIN files : files[p].uuid[1] = n => \E x \in Positioned(plan) : InDirOf(files, p, plan, x)
        /\ \A p, o \in DOMAIN files : files[p].uuid[1] = n /\ files[p].uuid = files[o].uuid => p = o

WritingInv ==
    \A r \in Requests :
        req[r].pc = "writing" /\ req[r].run \notin crossed /\ MapsOneToOne(req[r].tree) =>
            BeingWritten(disk.files, req[r].tree, req[r].run, req[r].todo)

Known == world = disk \/ \E r \in Requests : req[r].pc = "reported" /\ req[r].run = report.run

ReportInv ==
    report # None /\ report.run \notin crossed /\ MapsOneToOne(report.tree) =>
        AllStand(disk.files, report.tree, report.run) /\ Known

LEMMA ImportInit == Init => WritingInv /\ ReportInv
PROOF
  <1> SUFFICES ASSUME Init PROVE WritingInv /\ ReportInv
    OBVIOUS
  <1>1. report = None /\ \A r \in Requests : req[r] = Idle
    BY DEF Init
  <1> QED
    BY <1>1, IdleIs DEF WritingInv, ReportInv

LEMMA FileWriteIs ==
    ASSUME NEW plan, NEW x
    PROVE  /\ ~IsDir(FileWrite(plan, x)) /\ FileWrite(plan, x).file = FileAt(plan, x)
           /\ <<FileWrite(plan, x).dir, FileWrite(plan, x).name>> = PathOf(plan, x)
           /\ FileAt(plan, x).uuid = ArtAt(plan, x).uuid
PROOF
  <1>1. /\ ~IsDir(FileWrite(plan, x)) /\ FileWrite(plan, x).dir = plan[x[1]].dir
        /\ FileWrite(plan, x).name = ArtAt(plan, x).name
        /\ FileWrite(plan, x).file = BuildArtifactFile(plan[x[1]], ArtAt(plan, x))
        /\ FileWrite(plan, x).file.uuid = ArtAt(plan, x).uuid
    BY WriteIs
  <1> QED
    BY <1>1 DEF PathOf, FileAt

\* Under a tree that maps one to one, planned files have paths of their own.
LEMMA PathsDiffer ==
    ASSUME NEW t \in Seq(Document), MapsOneToOne(t), NEW n,
           NEW x \in Positioned(BuildPlan(t, n)), NEW y \in Positioned(BuildPlan(t, n)),
           PathOf(BuildPlan(t, n), x) = PathOf(BuildPlan(t, n), y)
    PROVE  x = y
PROOF
  <1>1. /\ BuildPlan(t, n)[x[1]].dir = BuildPlan(t, n)[y[1]].dir
        /\ ArtAt(BuildPlan(t, n), x).name = ArtAt(BuildPlan(t, n), y).name
    BY DEF PathOf
  <1> QED
    BY <1>1, PlanDiffers

LEMMA MoreIsWritten ==
    ASSUME NEW t \in Seq(Document), MapsOneToOne(t), NEW n,
           NEW todo \in Seq(PlannedWrites(t, n)), todo # <<>>,
           NEW tree, IsTree(tree), BeingWritten(tree.files, t, n, todo)
    PROVE  BeingWritten(Written(tree, Head(todo)).files, t, n, Tail(todo))
PROOF
  <1> DEFINE plan == BuildPlan(t, n)
             w == Head(todo)
             rest == Tail(todo)
             files == tree.files
             more == Written(tree, w).files
  <1>1. w \in PlannedWrites(t, n) /\ \A v \in ToSet(todo) : v = w \/ v \in ToSet(rest)
    BY HeadOf
  <1>2. /\ \A x \in Positioned(plan) : FileWrite(plan, x) \in ToSet(todo) \/ Placed(files, plan, x)
        /\ OnlyPlanned(files, plan, n)
    BY DEF BeingWritten
  <1>3. ~IsDir(w) => \E q \in Positioned(plan) : w = FileWrite(plan, q)
    BY <1>1, PlannedWriteIs
  <1>4. CASE IsDir(w)
    <2>1. more = files
      BY <1>4, FileMade
    <2>2. \A x \in Positioned(plan) : FileWrite(plan, x) # w
      BY <1>4, FileWriteIs
    <2> HIDE DEF w, rest, files, more, plan
    <2>3. \A x \in Positioned(plan) : FileWrite(plan, x) \in ToSet(rest) \/ Placed(more, plan, x)
      BY <1>1, <1>2, <2>1, <2>2
    <2>4. BeingWritten(more, t, n, rest)
      BY <1>2, <2>1, <2>3 DEF BeingWritten, plan
    <2> QED
      BY <2>4 DEF more, rest, w
  <1>5. CASE ~IsDir(w)
    <2>1. PICK q \in Positioned(plan) : w = FileWrite(plan, q)
      BY <1>3, <1>5
    <2>2. w.file = FileAt(plan, q) /\ <<w.dir, w.name>> = PathOf(plan, q)
      BY <2>1, FileWriteIs
    <2> DEFINE a == PathOf(plan, q)
    <2>3. /\ a \in DOMAIN more /\ more[a] = FileAt(plan, q)
          /\ \A p \in DOMAIN more : p # a => p \in DOMAIN files /\ more[p] = files[p]
          /\ \A p \in DOMAIN files : p # a => p \in DOMAIN more /\ more[p] = files[p]
      <3>1. /\ <<w.dir, w.name>> \in DOMAIN more /\ more[<<w.dir, w.name>>] = w.file
            /\ \A p \in DOMAIN more : p # <<w.dir, w.name>> => p \in DOMAIN files /\ more[p] = files[p]
            /\ \A p \in DOMAIN files : p # <<w.dir, w.name>> => p \in DOMAIN more /\ more[p] = files[p]
        BY ZenonT(30), <1>5, FileMade
      <3> HIDE DEF w, files, more
      <3> QED
        BY <2>2, <3>1
    <2>4. \A x \in Positioned(plan) : x # q => PathOf(plan, x) # a
      BY PathsDiffer
    <2>5. \A x \in Positioned(plan) : Placed(files, plan, x) => Placed(more, plan, x)
      <3> HIDE DEF files, more, plan, w
      <3> QED
        BY <2>3, <2>4 DEF Placed
    <2>6. Placed(more, plan, q)
      BY <2>3 DEF Placed
    <2> HIDE DEF w, rest, files, more, plan
    <2>7. \A x \in Positioned(plan) : FileWrite(plan, x) \in ToSet(rest) \/ Placed(more, plan, x)
      <3> SUFFICES ASSUME NEW x \in Positioned(plan)
                   PROVE  FileWrite(plan, x) \in ToSet(rest) \/ Placed(more, plan, x)
        OBVIOUS
      <3>1. CASE FileWrite(plan, x) # w
        BY <1>1, <1>2, <2>5, <3>1
      <3>2. CASE FileWrite(plan, x) = w
        <4>1. PathOf(plan, x) = a
          BY <2>2, <3>2, FileWriteIs
        <4>2. x = q
          BY <2>4, <4>1
        <4> QED
          BY <2>6, <4>2
      <3> QED
        BY <3>1, <3>2
    <2>8. OnlyPlanned(more, plan, n)
      <3> SUFFICES ASSUME NEW p \in DOMAIN more, more[p].uuid[1] = n
                   PROVE  \E x \in Positioned(plan) : p = PathOf(plan, x) /\ more[p] = FileAt(plan, x)
        BY DEF OnlyPlanned
      <3>1. CASE p = a
        BY <2>3, <3>1
      <3>2. CASE p # a
        BY <1>2, <2>3, <3>2 DEF OnlyPlanned
      <3> QED
        BY <3>1, <3>2
    <2>9. BeingWritten(more, t, n, rest)
      BY <2>7, <2>8 DEF BeingWritten, plan
    <2> QED
      BY <2>9 DEF more, rest, w
  <1> QED
    BY <1>4, <1>5

\* Nothing is left to write.
LEMMA AllIsWritten ==
    ASSUME NEW t \in Seq(Document), MapsOneToOne(t), NEW n, NEW files, BeingWritten(files, t, n, <<>>)
    PROVE  AllStand(files, t, n)
PROOF
  <1> DEFINE plan == BuildPlan(t, n)
  <1>1. \A x \in Positioned(plan) : Placed(files, plan, x)
    <2>1. ToSet(<<>>) = {}
      BY DEF ToSet
    <2> QED
      BY <2>1 DEF BeingWritten
  <1>2. OnlyPlanned(files, plan, n)
    BY DEF BeingWritten
  <1>3. \A x \in Positioned(plan) : PathOf(plan, x)[1] = plan[x[1]].dir
    BY DEF PathOf
  <1>4. \A x, y \in Positioned(plan) : FileAt(plan, x).uuid = FileAt(plan, y).uuid => x = y
    <2> SUFFICES ASSUME NEW x \in Positioned(plan), NEW y \in Positioned(plan),
                        FileAt(plan, x).uuid = FileAt(plan, y).uuid
                 PROVE  x = y
      OBVIOUS
    <2>1. ArtAt(plan, x).uuid = ArtAt(plan, y).uuid
      BY FileWriteIs
    <2> QED
      BY <2>1, PlanDiffers
  <1> HIDE DEF plan
  <1>5. ASSUME NEW x \in Positioned(plan) PROVE \E p \in DOMAIN files : InDirOf(files, p, plan, x)
    BY <1>1, <1>3 DEF Placed, InDirOf
  <1>6. ASSUME NEW p \in DOMAIN files, files[p].uuid[1] = n
        PROVE  \E x \in Positioned(plan) : InDirOf(files, p, plan, x)
    BY <1>2, <1>3, <1>6 DEF OnlyPlanned, InDirOf
  <1>7. ASSUME NEW p \in DOMAIN files, NEW o \in DOMAIN files,
               files[p].uuid[1] = n, files[p].uuid = files[o].uuid
        PROVE  p = o
    <2>1. files[o].uuid[1] = n
      BY <1>7
    <2>2. PICK x \in Positioned(plan) : p = PathOf(plan, x) /\ files[p] = FileAt(plan, x)
      BY <1>2, <1>7 DEF OnlyPlanned
    <2>3. PICK y \in Positioned(plan) : o = PathOf(plan, y) /\ files[o] = FileAt(plan, y)
      BY <1>2, <2>1 DEF OnlyPlanned
    <2>4. x = y
      BY <1>4, <1>7, <2>2, <2>3
    <2> QED
      BY <2>2, <2>3, <2>4
  <1> QED
    BY <1>5, <1>6, <1>7 DEF AllStand, plan

LEMMA ImportByStart ==
    ASSUME RunsInv, WritingInv, ReportInv, NEW r \in Requests, StartImport(r)
    PROVE  WritingInv' /\ ReportInv'
PROOF
  <1>1. UNCHANGED <<scene, source, disk, world, report, wizard, crossed>> /\ req[r].pc = "idle"
    BY DEF StartImport
  <1>2. CASE req' = req
    BY <1>1, <1>2 DEF WritingInv, ReportInv, Known
  <1>3. CASE req' # req
    <2>1. PICK n, todo : n = runs + 1 /\ todo = WritesOf(BuildPlan(source, n))
      OBVIOUS
    <2>2. PICK q : q = [pc |-> "writing", run |-> n, tree |-> source, todo |-> todo]
      OBVIOUS
    <2>3. req' = [req EXCEPT ![r] = q]
      BY <1>3, <2>1, <2>2 DEF StartImport
    <2>4. req'[r] = q /\ (\A s \in Requests \ {r} : req'[s] = req[s])
      BY <2>3, OneRequest DEF RunsInv
    <2>5. q.pc = "writing" /\ q.run = n /\ q.tree = source /\ q.todo = todo
      BY <2>2
    <2>6. BeingWritten(disk.files, source, n, todo)
      <3>1. source \in Seq(Document) /\ runs \in Nat
        BY SceneIs DEF RunsInv, TreesAre
      <3>2. \A p \in DOMAIN disk.files : disk.files[p].uuid[1] # n
        BY <2>1, <3>1 DEF RunsInv, IdsAreOld
      <3>3. \A x \in Positioned(BuildPlan(source, n)) : FileWrite(BuildPlan(source, n), x) \in ToSet(todo)
        BY <2>1, <3>1, WritesAre DEF Writes
      <3> QED
        BY <3>2, <3>3 DEF BeingWritten, OnlyPlanned
    <2>7. WritingInv'
      <3> SUFFICES ASSUME NEW s \in Requests, req'[s].pc = "writing", req'[s].run \notin crossed,
                          MapsOneToOne(req'[s].tree)
                   PROVE  BeingWritten(disk.files, req'[s].tree, req'[s].run, req'[s].todo)
        BY <1>1 DEF WritingInv
      <3>1. CASE s = r
        BY <2>4, <2>5, <2>6, <3>1
      <3>2. CASE s # r
        <4>1. req'[s] = req[s]
          BY <2>4, <3>2
        <4> QED
          BY <4>1 DEF WritingInv
      <3> QED
        BY <3>1, <3>2
    <2>8. \A s \in Requests : req[s].pc = "reported" => req'[s] = req[s]
      BY <1>1, <2>4
    <2> QED
      BY <1>1, <2>7, <2>8 DEF ReportInv, Known
  <1> QED
    BY <1>2, <1>3

LEMMA ImportByWrite ==
    ASSUME RunsInv, WritingInv, NEW r \in Requests, Write(r)
    PROVE  WritingInv' /\ ReportInv'
PROOF
  <1>1. PICK n, t, todo, rest, q :
          /\ n = req[r].run /\ t = req[r].tree /\ todo = req[r].todo /\ rest = Tail(todo)
          /\ q = [pc |-> "writing", run |-> n, tree |-> t, todo |-> rest]
    OBVIOUS
  <1>2. /\ n \in 1..runs /\ t \in Seq(Document) /\ rest \in Seq(PlannedWrites(t, n))
        /\ disk' = Written(disk, Head(todo)) /\ req' = [req EXCEPT ![r] = q]
    BY <1>1, WriteMakes
  <1>3. /\ UNCHANGED <<scene, source, world, runs, report, wizard>> /\ req[r].pc = "writing" /\ todo # <<>>
        /\ crossed' = crossed \cup ((1..runs) \ {n})
    BY <1>1 DEF Write
  <1>4. todo \in Seq(PlannedWrites(t, n))
    <2>1. RequestIs(req[r])
      BY DEF RunsInv, RequestsAre
    <2> QED
      BY <1>1, <1>3, <2>1 DEF RequestIs
  <1>5. req'[r] = q /\ \A s \in Requests \ {r} : req'[s] = req[s]
    BY <1>2, OneRequest DEF RunsInv
  <1>6. q.pc = "writing" /\ q.run = n /\ q.tree = t /\ q.todo = rest
    BY <1>1
  <1>7. IsTree(disk)
    BY DEF RunsInv, TreesAre
  <1>8. WritingInv'
    <2> SUFFICES ASSUME NEW s \in Requests, req'[s].pc = "writing", req'[s].run \notin crossed',
                        MapsOneToOne(req'[s].tree)
                 PROVE  BeingWritten(disk'.files, req'[s].tree, req'[s].run, req'[s].todo)
      BY DEF WritingInv
    <2>1. s = r
      <3> SUFFICES ASSUME s # r PROVE FALSE
        OBVIOUS
      <3>1. req'[s] = req[s]
        BY <1>5
      <3>2. req[s].pc # "idle" /\ req[s].run \in 1..runs
        <4>1. RequestIs(req[s])
          BY DEF RunsInv, RequestsAre
        <4> QED
          BY <3>1, <4>1 DEF RequestIs
      <3>3. req[s].run = req[r].run /\ req[r].pc # "idle"
        BY <1>1, <1>3, <3>1, <3>2
      <3> QED
        BY <3>2, <3>3 DEF RunsInv, RequestsAre, RunsDiffer
    <2>2. n \notin crossed /\ MapsOneToOne(t)
      BY <1>3, <1>5, <1>6, <2>1
    <2>3. BeingWritten(disk.files, t, n, todo)
      BY <1>1, <1>3, <2>2 DEF WritingInv
    <2>4. BeingWritten(disk'.files, t, n, rest)
      <3>1. BeingWritten(Written(disk, Head(todo)).files, t, n, Tail(todo))
        BY <1>2, <1>3, <1>4, <1>7, <2>2, <2>3, MoreIsWritten
      <3> QED
        BY <1>1, <1>2, <3>1
    <2> QED
      BY <1>5, <1>6, <2>1, <2>4
  <1>9. ReportInv'
    <2> SUFFICES ASSUME report # None, report.run \notin crossed' PROVE FALSE
      BY <1>3 DEF ReportInv
    <2>1. report.run \in 1..runs /\ report.run # n
      BY <1>1, <1>3 DEF RunsInv, ReportIs
    <2> QED
      BY <1>3, <2>1
  <1> QED
    BY <1>8, <1>9

LEMMA ImportByFinish ==
    ASSUME RunsInv, WritingInv, NEW r \in Requests, Finish(r)
    PROVE  WritingInv' /\ ReportInv'
PROOF
  <1>1. req[r].pc = "writing" /\ req[r].todo = <<>> /\ UNCHANGED <<scene, disk, world, runs, crossed>>
    BY DEF Finish
  <1>2. /\ report' # None => report'.run = req[r].run /\ report'.tree = req[r].tree
        /\ req'[r].pc = "reported" /\ req'[r].run = req[r].run
        /\ \A s \in Requests \ {r} : req'[s] = req[s]
    BY RunsByFinish
  <1>3. req[r].tree \in Seq(Document)
    <2>1. RequestIs(req[r]) /\ scene \in Scenes
      BY DEF RunsInv, RequestsAre, TreesAre
    <2> QED
      BY <1>1, <2>1, SceneIs DEF RequestIs
  <1>4. WritingInv'
    <2> SUFFICES ASSUME NEW s \in Requests, req'[s].pc = "writing", req'[s].run \notin crossed,
                        MapsOneToOne(req'[s].tree)
                 PROVE  BeingWritten(disk.files, req'[s].tree, req'[s].run, req'[s].todo)
      BY <1>1 DEF WritingInv
    <2>1. req'[s] = req[s]
      BY <1>2
    <2> QED
      BY <2>1 DEF WritingInv
  <1>5. ReportInv'
    <2> SUFFICES ASSUME report' # None, req[r].run \notin crossed, MapsOneToOne(req[r].tree)
                 PROVE  AllStand(disk.files, req[r].tree, req[r].run)
      BY <1>1, <1>2 DEF ReportInv, Known
    <2>1. BeingWritten(disk.files, req[r].tree, req[r].run, <<>>)
      BY <1>1 DEF WritingInv
    <2> QED
      BY <1>3, <2>1, AllIsWritten
  <1> QED
    BY <1>4, <1>5

LEMMA ImportByApply ==
    ASSUME RunsInv, WritingInv, ReportInv, ApplyOne
    PROVE  WritingInv' /\ ReportInv'
PROOF
  <1>1. /\ UNCHANGED <<scene, source, runs, req, report>>
        /\ UNCHANGED <<disk, world, crossed>> \/ \E old, new : Renames(old, new)
    BY ApplyOneIs
  <1>2. CASE UNCHANGED <<disk, world, crossed>>
    BY <1>1, <1>2 DEF WritingInv, ReportInv, Known
  <1>3. CASE \E old, new : Renames(old, new)
    <2>1. PICK old, new : Renames(old, new)
      BY <1>3
    <2>2. /\ old \in DOMAIN disk.files /\ new[1] = old[1] /\ new \notin DOMAIN world.files
          /\ DOMAIN disk'.files = (DOMAIN disk.files \ {old}) \cup {new}
          /\ disk'.files[new] = disk.files[old]
          /\ \A p \in DOMAIN disk.files : p # old /\ p # new => disk'.files[p] = disk.files[p]
          /\ world' = disk' /\ crossed' = crossed \cup RunsUnderWay
      BY <2>1 DEF Renames
    <2>3. WritingInv'
      BY <1>1, <2>2 DEF WritingInv, RunsUnderWay
    <2>4. ReportInv'
      <3> SUFFICES ASSUME report # None, report.run \notin crossed', MapsOneToOne(report.tree)
                   PROVE  AllStand(disk'.files, report.tree, report.run)
        BY <1>1, <2>2 DEF ReportInv, Known
      <3> DEFINE files == disk.files
                 more == disk'.files
                 n == report.run
                 plan == BuildPlan(report.tree, n)
      <3>1. AllStand(files, report.tree, n) /\ new \notin DOMAIN files
        BY <1>1, <2>2 DEF ReportInv, Known, RunsUnderWay
      <3>2. /\ \A x \in Positioned(plan) : \E p \in DOMAIN files : InDirOf(files, p, plan, x)
            /\ \A p \in DOMAIN files : files[p].uuid[1] = n => \E x \in Positioned(plan) : InDirOf(files, p, plan, x)
            /\ \A p, o \in DOMAIN files : files[p].uuid[1] = n /\ files[p].uuid = files[o].uuid => p = o
        BY <3>1 DEF AllStand
      <3>3. /\ old \in DOMAIN files /\ new[1] = old[1] /\ new \notin DOMAIN files
            /\ DOMAIN more = (DOMAIN files \ {old}) \cup {new}
            /\ more[new] = files[old] /\ \A p \in DOMAIN files : p # old => more[p] = files[p]
        BY <2>2, <3>1
      <3> HIDE DEF files, more, n, plan
      <3>4. ASSUME NEW x \in Positioned(plan) PROVE \E p \in DOMAIN more : InDirOf(more, p, plan, x)
        <4>1. PICK p \in DOMAIN files : InDirOf(files, p, plan, x)
          BY <3>2
        <4>2. CASE p = old
          BY <3>3, <4>1, <4>2 DEF InDirOf
        <4>3. CASE p # old
          BY <3>3, <4>1, <4>3 DEF InDirOf
        <4> QED
          BY <4>2, <4>3
      <3>5. ASSUME NEW p \in DOMAIN more, more[p].uuid[1] = n
            PROVE  \E x \in Positioned(plan) : InDirOf(more, p, plan, x)
        <4>1. CASE p = new
          <5>1. PICK x \in Positioned(plan) : InDirOf(files, old, plan, x)
            BY <3>2, <3>3, <3>5, <4>1
          <5> QED
            BY <3>3, <4>1, <5>1 DEF InDirOf
        <4>2. CASE p # new
          <5>1. p \in DOMAIN files /\ more[p] = files[p]
            BY <3>3, <4>2
          <5>2. PICK x \in Positioned(plan) : InDirOf(files, p, plan, x)
            BY <3>2, <3>5, <5>1
          <5> QED
            BY <5>1, <5>2 DEF InDirOf
        <4> QED
          BY <4>1, <4>2
      <3>6. ASSUME NEW p \in DOMAIN more, NEW o \in DOMAIN more,
                   more[p].uuid[1] = n, more[p].uuid = more[o].uuid
            PROVE  p = o
        <4> DEFINE was(z) == IF z = new THEN old ELSE z
        <4>1. was(p) \in DOMAIN files /\ was(o) \in DOMAIN files
          BY <3>3
        <4>2. more[p] = files[was(p)] /\ more[o] = files[was(o)]
          BY <3>3
        <4>3. was(p) = was(o)
          BY <3>2, <3>6, <4>1, <4>2
        <4> QED
          BY <3>3, <4>3
      <3>7. AllStand(more, report.tree, n)
        BY <3>4, <3>5, <3>6 DEF AllStand, plan
      <3> QED
        BY <3>7 DEF more, n
    <2> QED
      BY <2>3, <2>4
  <1> QED
    BY <1>1, <1>2, <1>3

LEMMA ImportNext == RunsInv /\ WritingInv /\ ReportInv /\ [Next]_vars => WritingInv' /\ ReportInv'
PROOF
  <1> SUFFICES ASSUME RunsInv, WritingInv, ReportInv, [Next]_vars PROVE WritingInv' /\ ReportInv'
    OBVIOUS
  <1>1. CASE Aside \/ UNCHANGED vars
    <2>1. /\ UNCHANGED <<scene, disk, runs, req, report, crossed>>
          /\ (world' = world \/ world' = disk)
      BY <1>1, AsideIs
    <2> QED
      BY <2>1 DEF WritingInv, ReportInv, Known
  <1>2. ASSUME NEW r \in Requests, Fail(r) \/ Answer(r) PROVE WritingInv' /\ ReportInv'
    <2>1. /\ UNCHANGED <<scene, disk, report>> /\ req' = [req EXCEPT ![r] = Idle]
          /\ crossed \subseteq crossed'
          /\ \/ req[r].pc = "writing" /\ world' = world
             \/ world' = disk
             \/ world' = world /\ req[r].run \in crossed'
      BY <1>2 DEF Fail, Answer
    <2>2. req'[r] = Idle /\ (\A s \in Requests \ {r} : req'[s] = req[s])
      BY <2>1, OneRequest DEF RunsInv
    <2>3. /\ \A s \in Requests : req'[s].pc # "idle" => req'[s] = req[s]
          /\ req[r].pc = "writing" => \A s \in Requests : req[s].pc = "reported" => req'[s] = req[s]
      BY <2>2, IdleIs
    <2>4. WritingInv'
      <3> SUFFICES ASSUME NEW s \in Requests, req'[s].pc = "writing", req'[s].run \notin crossed,
                          MapsOneToOne(req'[s].tree)
                   PROVE  BeingWritten(disk.files, req'[s].tree, req'[s].run, req'[s].todo)
        BY <2>1 DEF WritingInv
      <3>1. req'[s] = req[s]
        BY <2>3
      <3> QED
        BY <3>1 DEF WritingInv
    <2>5. ASSUME Known, report.run \notin crossed' PROVE Known'
      <3>1. CASE world = disk
        BY <2>1, <3>1 DEF Known
      <3>2. CASE \E s \in Requests : req[s].pc = "reported" /\ req[s].run = report.run
        BY <2>1, <2>2, <2>3, <2>5, <3>2 DEF Known
      <3> QED
        BY <2>5, <3>1, <3>2 DEF Known
    <2> QED
      BY <2>1, <2>4, <2>5 DEF ReportInv
  <1>3. CASE Restart
    <2>1. report' = None /\ \A s \in Requests : req'[s] = Idle
      BY <1>3 DEF Restart
    <2> QED
      BY <2>1, IdleIs DEF WritingInv, ReportInv
  <1> QED
    BY <1>1, <1>2, <1>3, ImportByStart, ImportByWrite, ImportByFinish, ImportByApply DEF Next, Aside

-----------------------------------------------------------------------------
(***************************************************************************)
(* What stands is what the tree said.                                      *)
(***************************************************************************)

LEMMA FileIs ==
    ASSUME NEW plan, NEW x
    PROVE  LET a == ArtAt(plan, x)
               f == FileAt(plan, x)
           IN  /\ f.uuid = a.uuid /\ f.uid = a.uid /\ f.links = a.links
               /\ f.shape = "url" <=> a.uid = None
               /\ f.log # <<>> <=> a.reviewed
               /\ "ref" \in f.legacy <=> a.ref.kind = "text"
               /\ "extra" \in f.legacy <=> a.extra
  BY DEF FileAt, BuildArtifactFile

LEMMA FoundAt ==
    ASSUME NEW t \in Seq(Document), NEW n, AllStand(disk.files, t, n),
           NEW x \in Positioned(BuildPlan(t, n))
    PROVE  LET u == ArtAt(BuildPlan(t, n), x).uuid
           IN  /\ u \in UuidsOf(disk) /\ Located(disk, u)[1] = BuildPlan(t, n)[x[1]].dir
               /\ FileOf(u) = FileAt(BuildPlan(t, n), x)
PROOF
  <1> DEFINE plan == BuildPlan(t, n)
             u == ArtAt(plan, x).uuid
             files == disk.files
  <1>1. /\ \E p \in DOMAIN files : InDirOf(files, p, plan, x)
        /\ \A p, o \in DOMAIN files : files[p].uuid[1] = n /\ files[p].uuid = files[o].uuid => p = o
    BY DEF AllStand
  <1>2. u[1] = n
    <2>1. PICK y \in Parts(t) : ArtAt(plan, x) = Art(t, n, y)
      BY PlanParts
    <2> QED
      BY <2>1, ArtIs
  <1>3. PICK p \in DOMAIN files : p[1] = plan[x[1]].dir /\ files[p] = FileAt(plan, x)
    BY <1>1 DEF InDirOf
  <1>4. files[p].uuid = u
    BY <1>3, FileWriteIs
  <1>5. u \in UuidsOf(disk)
    BY <1>4 DEF UuidsOf
  <1> HIDE DEF u
  <1>6. Located(disk, u) \in DOMAIN files /\ files[Located(disk, u)].uuid = u
    BY <1>5, LocatedIs
  <1>7. Located(disk, u) = p
    BY <1>1, <1>2, <1>4, <1>6
  <1> QED
    BY <1>3, <1>5, <1>7 DEF FileOf, u

LEMMA OnlyFound ==
    ASSUME NEW t \in Seq(Document), NEW n, AllStand(disk.files, t, n),
           NEW u \in UuidsOf(disk), u[1] = n
    PROVE  \E y \in Parts(t) : u = Art(t, n, y).uuid
PROOF
  <1> DEFINE plan == BuildPlan(t, n)
  <1>1. PICK p \in DOMAIN disk.files : disk.files[p].uuid = u
    BY DEF UuidsOf
  <1>2. PICK x \in Positioned(plan) : disk.files[p] = FileAt(plan, x)
    BY <1>1 DEF AllStand, InDirOf
  <1>3. u = ArtAt(plan, x).uuid
    BY <1>1, <1>2, FileWriteIs
  <1> QED
    BY <1>3, PlanParts

LEMMA PartStands ==
    ASSUME NEW t \in Seq(Document), NEW n, AllStand(disk.files, t, n), NEW y \in Parts(t)
    PROVE  LET a == Art(t, n, y)
           IN  /\ a.uuid \in UuidsOf(disk) /\ Located(disk, a.uuid)[1] = Slug[t[y[1][1]].prefix]
               /\ FileOf(a.uuid).uid = a.uid /\ FileOf(a.uuid).links = a.links
               /\ FileOf(a.uuid).shape = "url" <=> a.uid = None
               /\ FileOf(a.uuid).log # <<>> <=> a.reviewed
               /\ "ref" \in FileOf(a.uuid).legacy <=> a.ref.kind = "text"
PROOF
  <1> DEFINE plan == BuildPlan(t, n)
  <1>1. PICK x \in Positioned(plan) : x[1] = y[1][1] /\ ArtAt(plan, x) = Art(t, n, y)
    BY PlanParts
  <1>2. plan[x[1]].dir = Slug[t[y[1][1]].prefix]
    BY <1>1, PartsAre, PlanIs
  <1>3. /\ Art(t, n, y).uuid \in UuidsOf(disk)
        /\ Located(disk, Art(t, n, y).uuid)[1] = Slug[t[y[1][1]].prefix]
        /\ FileOf(Art(t, n, y).uuid) = FileAt(plan, x)
    BY <1>1, <1>2, FoundAt
  <1> QED
    BY <1>1, <1>3, FileIs

LEMMA LinksOfIs ==
    ASSUME NEW item \in Item
    PROVE  /\ LinksOf(item) \in Seq(Uids) /\ Len(LinksOf(item)) \in Nat
           /\ DOMAIN LinksOf(item) = 1..Len(LinksOf(item))
           /\ \A k \in DOMAIN LinksOf(item) : LinksOf(item)[k] \in Uids
PROOF
  <1> DEFINE links == item.links
             s == [k \in DOMAIN links |-> IF links[k][1] \in {"uid", "hashed"} THEN <<links[k][2]>> ELSE <<>>]
             uids == FlattenSeq(s)
  <1>1. LinksOf(item) = uids
    BY DEF LinksOf
  <1>2. links \in Seq({"uid", "hashed", "odd"} \X Uids)
    BY DEF Item
  <1> HIDE DEF links
  <1>3. Len(links) \in Nat /\ DOMAIN links = 1..Len(links)
        /\ \A k \in DOMAIN links : links[k] \in {"uid", "hashed", "odd"} \X Uids
    BY <1>2, LenProperties, ElementOfSeq
  <1>4. \A k \in 1..Len(links) : s[k] \in Seq(Uids)
    <2>1. \A u \in Uids : <<u>> \in Seq(Uids)
      OBVIOUS
    <2>2. <<>> \in Seq(Uids)
      OBVIOUS
    <2>3. \A k \in DOMAIN links : links[k][2] \in Uids
      BY <1>3
    <2> QED
      BY <1>3, <2>1, <2>2, <2>3
  <1>5. s \in Seq(Seq(Uids))
    <2>1. s = [k \in 1..Len(links) |-> IF links[k][1] \in {"uid", "hashed"} THEN <<links[k][2]>> ELSE <<>>]
      BY <1>3
    <2> HIDE DEF s
    <2>2. s \in [1..Len(links) -> Seq(Uids)]
      BY <1>4, <2>1
    <2> QED
      BY <1>3, <2>2
  <1> HIDE DEF s
  <1>6. uids \in Seq(Uids)
    BY <1>5, Flattened
  <1> HIDE DEF uids
  <1>7. Len(uids) \in Nat /\ DOMAIN uids = 1..Len(uids) /\ \A k \in DOMAIN uids : uids[k] \in Uids
    BY <1>6, LenProperties, ElementOfSeq
  <1> QED
    BY <1>1, <1>6, <1>7

\* The links of an item: one for each UID it names, and one to its companion.
LEMMA ItemLinks ==
    ASSUME NEW t \in Seq(Document), NEW n, NEW p \in Positions(t)
    PROVE  LET uids == LinksOf(ItemAt(t, p))
               links == PlannedItem(t, n, p).links
               url == ItemAt(t, p).ref = "url"
           IN  /\ Len(uids) \in Nat /\ DOMAIN uids = 1..Len(uids) /\ \A k \in DOMAIN uids : uids[k] \in Uids
               /\ Len(links) = Len(uids) + (IF url THEN 1 ELSE 0) /\ DOMAIN links = 1..Len(links)
               /\ \A k \in DOMAIN uids :
                    /\ links[k].type = "derives-from"
                    /\ links[k].to = IF uids[k] \in DOMAIN Index(t, n, p[1])
                                     THEN Index(t, n, p[1])[uids[k]] ELSE Id(n, "nobody", p, k)
               /\ url => links[Len(links)].type = "cites" /\ links[Len(links)].to = Companion(n, p)
PROOF
  <1> DEFINE uids == LinksOf(ItemAt(t, p))
             index == Index(t, n, p[1])
             link(k) == [type |-> "derives-from", name |-> uids[k],
                         to |-> IF uids[k] \in DOMAIN index THEN index[uids[k]] ELSE Id(n, "nobody", p, k)]
             cite == [type |-> "cites", name |-> RefName[ItemAt(t, p).uid], to |-> Companion(n, p)]
             derived == [k \in DOMAIN uids |-> link(k)]
             url == ItemAt(t, p).ref = "url"
             cites == IF url THEN <<cite>> ELSE <<>>
             links == derived \o cites
             X == {link(k) : k \in DOMAIN uids} \cup {cite}
  <1>1. PlannedItem(t, n, p).links = links
    BY DEF PlannedItem, DerivedLinks, CitesLinks
  <1>2. Len(uids) \in Nat /\ DOMAIN uids = 1..Len(uids) /\ \A k \in DOMAIN uids : uids[k] \in Uids
    BY TreeIs, LinksOfIs
  <1>3. cite.type = "cites" /\ cite.to = Companion(n, p)
    OBVIOUS
  <1>4. \A k : /\ link(k).type = "derives-from"
               /\ link(k).to = IF uids[k] \in DOMAIN index THEN index[uids[k]] ELSE Id(n, "nobody", p, k)
    OBVIOUS
  <1> HIDE DEF uids, link, cite
  <1>5. derived \in Seq(X) /\ Len(derived) = Len(uids) /\ \A k \in 1..Len(uids) : derived[k] = link(k)
    <2>1. derived = [k \in 1..Len(uids) |-> link(k)]
      BY <1>2
    <2> HIDE DEF derived
    <2>2. \A k \in 1..Len(uids) : link(k) \in X
      BY <1>2
    <2> QED
      BY <1>2, <2>1, <2>2
  <1>6. cites \in Seq(X) /\ Len(cites) = (IF url THEN 1 ELSE 0) /\ (url => cites[1] = cite)
    <2>1. cite \in X
      OBVIOUS
    <2>2. CASE url
      BY <2>1, <2>2
    <2>3. CASE ~url
      <3>1. <<>> \in Seq(X) /\ Len(<<>>) = 0
        BY EmptySeq
      <3> QED
        BY <2>3, <3>1
    <2> QED
      BY <2>2, <2>3
  <1> HIDE DEF X, derived, cites, url
  <1>7. /\ links \in Seq(X) /\ Len(links) = Len(derived) + Len(cites)
        /\ \A i \in 1..Len(derived) + Len(cites) :
                links[i] = IF i <= Len(derived) THEN derived[i] ELSE cites[i - Len(derived)]
    <2>1. derived \in Seq(X) /\ cites \in Seq(X)
      BY <1>5, <1>6
    <2> QED
      BY <2>1, ConcatProperties
  <1>8. DOMAIN links = 1..Len(links)
    BY <1>7, LenProperties
  <1> HIDE DEF links
  <1>9. \A k \in DOMAIN uids : links[k] = link(k)
    BY <1>2, <1>5, <1>6, <1>7
  <1>10. url => links[Len(links)] = cite
    BY <1>2, <1>5, <1>6, <1>7
  <1>11. Len(links) = Len(uids) + (IF url THEN 1 ELSE 0)
    BY <1>5, <1>6, <1>7
  <1>12. \A k \in DOMAIN uids : links[k].type = "derives-from"
             /\ links[k].to = IF uids[k] \in DOMAIN index THEN index[uids[k]] ELSE Id(n, "nobody", p, k)
    BY <1>4, <1>9
  <1> QED
    BY <1>1, <1>2, <1>3, <1>8, <1>10, <1>11, <1>12 DEF uids, url

\* Where a link of an item leads.
LEMMA LinkLeads ==
    ASSUME NEW t \in Seq(Document), MapsOneToOne(t), NEW n, AllStand(disk.files, t, n),
           NEW p \in Positions(t), Imported(t, p), NEW k \in DOMAIN LinksOf(ItemAt(t, p))
    PROVE  LET to == PlannedItem(t, n, p).links[k].to
               u == LinksOf(ItemAt(t, p))[k]
           IN  IF Listed(t, u) = {} THEN to \notin UuidsOf(disk) /\ to[2] = "nobody"
               ELSE to \in UuidsOf(disk) /\ FileOf(to).uid = u /\ to[2] = "item"
PROOF
  <1> DEFINE to == PlannedItem(t, n, p).links[k].to
             u == LinksOf(ItemAt(t, p))[k]
             index == Index(t, n, p[1])
  <1>1. u \in Uids /\ to = IF u \in DOMAIN index THEN index[u] ELSE Id(n, "nobody", p, k)
    BY ItemLinks
  <1>2. u \in DOMAIN index <=> Listed(t, u) # {}
    BY <1>1, IndexDomain
  <1> HIDE DEF to, u
  <1>3. CASE Listed(t, u) = {}
    <2>1. to[1] = n /\ to[2] = "nobody"
      BY <1>1, <1>2, <1>3, IdIs
    <2>2. to \notin UuidsOf(disk)
      <3> SUFFICES ASSUME to \in UuidsOf(disk) PROVE FALSE
        OBVIOUS
      <3>1. PICK y \in Parts(t) : to = Art(t, n, y).uuid
        BY <2>1, OnlyFound
      <3>2. to = Id(n, Kind(y), y[1], 0)
        BY <3>1, PartsDiffer
      <3>3. to[2] = Kind(y)
        BY <3>2, IdIs
      <3> QED
        BY <2>1, <3>3 DEF Kind
    <2> QED
      BY <1>3, <2>1, <2>2 DEF to, u
  <1>4. CASE Listed(t, u) # {}
    <2>1. PICK q : q \in Listed(t, u)
      BY <1>4
    <2>2. q \in Positions(t) /\ ItemAt(t, q).uid = u /\ Imported(t, q)
      BY <2>1, ListedAre
    <2>3. to = Id(n, "item", q, 0)
      BY <1>1, <1>2, <1>4, <2>2, OneListed
    <2> DEFINE y == <<q, 1>>
    <2>4. y \in Parts(t) /\ y[1] = q /\ y[2] = 1
      BY <2>2 DEF Parts
    <2>5. Art(t, n, y).uuid = to
      BY <2>3, <2>4, PartsDiffer DEF Kind
    <2>6. Art(t, n, y).uid = u
      BY <2>2, <2>4 DEF Art, PlannedItem
    <2>7. to \in UuidsOf(disk) /\ FileOf(to).uid = u
      BY <2>4, <2>5, <2>6, PartStands
    <2>8. to[2] = "item"
      BY <2>3, IdIs
    <2> QED
      BY <1>4, <2>7, <2>8 DEF to, u
  <1> QED
    BY <1>3, <1>4

LEMMA CompanionStands ==
    ASSUME NEW t \in Seq(Document), MapsOneToOne(t), NEW n, AllStand(disk.files, t, n),
           NEW p \in Positions(t), Imported(t, p), ItemAt(t, p).ref = "url"
    PROVE  /\ Companion(n, p) \in UuidsOf(disk) /\ FileOf(Companion(n, p)).shape = "url"
           /\ Companion(n, p)[2] = "companion"
PROOF
  <1> DEFINE y == <<p, 2>>
  <1>1. y \in Parts(t) /\ y[1] = p /\ y[2] = 2
    BY DEF Parts
  <1>2. Art(t, n, y).uuid = Companion(n, p) /\ Art(t, n, y).uid = None
    BY <1>1 DEF Art, PlannedCompanion
  <1>3. Companion(n, p)[2] = "companion"
    BY IdIs DEF Companion
  <1> QED
    BY <1>1, <1>2, <1>3, PartStands

LEMMA EachItemStands ==
    ASSUME NEW t \in Seq(Document), MapsOneToOne(t), NEW n, AllStand(disk.files, t, n),
           NEW p \in Positions(t), Imported(t, p)
    PROVE  ItemStands(t, n, p)
PROOF
  <1> DEFINE item == ItemAt(t, p)
             uuid == Id(n, "item", p, 0)
             uids == LinksOf(item)
             y == <<p, 1>>
             a == PlannedItem(t, n, p)
  <1>1. y \in Parts(t) /\ y[1] = p /\ y[2] = 1
    BY DEF Parts
  <1>2. Art(t, n, y) = a /\ a.uuid = uuid
    <2>1. Art(t, n, y) = a
      BY <1>1 DEF Art
    <2>2. Art(t, n, y).uuid = uuid
      BY <1>1, PartsDiffer DEF Kind
    <2> QED
      BY <2>1, <2>2
  <1>3. a.uid = item.uid /\ a.reviewed = item.reviewed /\ a.ref.kind = item.ref
    BY DEF PlannedItem
  <1>4. /\ a.uuid \in UuidsOf(disk) /\ Located(disk, a.uuid)[1] = Slug[t[p[1]].prefix]
        /\ FileOf(a.uuid).uid = a.uid /\ FileOf(a.uuid).links = a.links
        /\ FileOf(a.uuid).log # <<>> <=> a.reviewed
        /\ "ref" \in FileOf(a.uuid).legacy <=> a.ref.kind = "text"
    BY <1>1, <1>2, PartStands
  <1>5. \A k \in DOMAIN uids :
            IF Listed(t, uids[k]) = {} THEN a.links[k].to \notin UuidsOf(disk)
            ELSE a.links[k].to \in UuidsOf(disk) /\ FileOf(a.links[k].to).uid = uids[k]
    BY LinkLeads
  <1>6. item.ref = "url" => a.links[Len(a.links)].type = "cites" /\ a.links[Len(a.links)].to = Companion(n, p)
    BY ItemLinks
  <1>7. item.ref = "url" => Companion(n, p) \in UuidsOf(disk) /\ FileOf(Companion(n, p)).shape = "url"
    BY CompanionStands
  <1>8. \A s : Last(s) = s[Len(s)]
    BY DEF Last
  <1> HIDE DEF a, uuid, uids, item
  <1>9. /\ FileOf(uuid).links = a.links
        /\ uuid \in UuidsOf(disk) /\ Located(disk, uuid)[1] = Slug[t[p[1]].prefix]
        /\ FileOf(uuid).uid = item.uid
        /\ FileOf(uuid).log # <<>> <=> item.reviewed
        /\ "ref" \in FileOf(uuid).legacy <=> item.ref = "text"
    BY <1>2, <1>3, <1>4
  <1>10. \A k \in DOMAIN uids :
            IF Listed(t, uids[k]) = {} THEN FileOf(uuid).links[k].to \notin UuidsOf(disk)
            ELSE FileOf(uuid).links[k].to \in UuidsOf(disk) /\ FileOf(FileOf(uuid).links[k].to).uid = uids[k]
    BY <1>5, <1>9
  <1>11. item.ref = "url" => /\ Last(FileOf(uuid).links).type = "cites"
                             /\ Last(FileOf(uuid).links).to \in UuidsOf(disk)
                             /\ FileOf(Last(FileOf(uuid).links).to).shape = "url"
    BY <1>6, <1>7, <1>8, <1>9
  <1> QED
    BY <1>9, <1>10, <1>11 DEF ItemStands, item, uids, uuid

-----------------------------------------------------------------------------
(***************************************************************************)
(* The report counts what stands: each count of the plan is that of the    *)
(* files, which correspond to its artifacts one to one.                    *)
(***************************************************************************)

LEMMA SameSize ==
    ASSUME NEW S, NEW T, IsFiniteSet(S), NEW f \in [S -> T],
           \A x, y \in S : f[x] = f[y] => x = y, \A y \in T : \E x \in S : f[x] = y
    PROVE  IsFiniteSet(T) /\ Cardinality(S) = Cardinality(T)
PROOF
  <1>1. f \in Injection(S, T)
    BY DEF Injection, IsInjective
  <1>2. f \in Surjection(S, T)
    BY DEF Surjection
  <1>3. f \in Bijection(S, T)
    BY <1>1, <1>2 DEF Bijection
  <1>4. ExistsBijection(S, T)
    BY <1>3 DEF ExistsBijection
  <1> QED
    BY <1>4, FS_Bijection

LEMMA PlanIsFinite ==
    ASSUME NEW t \in Seq(Document), NEW n
    PROVE  IsFiniteSet(Positioned(BuildPlan(t, n)))
PROOF
  <1> DEFINE plan == BuildPlan(t, n)
             of == [d \in DOMAIN t |-> {d} \X DOMAIN plan[d].artifacts]
             S == {of[d] : d \in DOMAIN t}
  <1>1. DOMAIN plan = DOMAIN t /\ Len(t) \in Nat /\ DOMAIN t = 1..Len(t)
        /\ \A d \in DOMAIN t : /\ Len(plan[d].artifacts) \in Nat
                               /\ DOMAIN plan[d].artifacts = 1..Len(plan[d].artifacts)
    BY PlanIs, TreeIs
  <1>2. Positioned(plan) = UNION S
    BY <1>1 DEF Positioned
  <1> HIDE DEF plan
  <1>3. ASSUME NEW d \in DOMAIN t PROVE IsFiniteSet(of[d])
    <2> DEFINE m == Len(plan[d].artifacts)
    <2>1. m \in Nat /\ DOMAIN plan[d].artifacts = 1..m
      BY <1>1
    <2> HIDE DEF m
    <2>2. IsFiniteSet(1..m)
      BY <2>1, FS_Interval
    <2>3. IsFiniteSet({d})
      BY FS_Singleton
    <2>4. IsFiniteSet({d} \X (1..m))
      BY <2>2, <2>3, FS_Product
    <2> QED
      BY <2>1, <2>4
  <1> HIDE DEF of
  <1>4. IsFiniteSet(S)
    <2>1. IsFiniteSet(DOMAIN t)
      BY <1>1, FS_Interval
    <2>2. [d \in DOMAIN t |-> of[d]] \in Surjection(DOMAIN t, S)
      BY DEF Surjection
    <2> QED
      BY <2>1, <2>2, FS_Surjection
  <1>5. \A T \in S : IsFiniteSet(T)
    BY <1>3
  <1> HIDE DEF S
  <1> QED
    BY <1>2, <1>4, <1>5, FS_UNION DEF plan

\* The files of the run are those of the plan, one each.
LEMMA FilesOfPlan ==
    ASSUME NEW t \in Seq(Document), MapsOneToOne(t), NEW n, AllStand(disk.files, t, n)
    PROVE  /\ FilesOf(n) = {FileAt(BuildPlan(t, n), x) : x \in Positioned(BuildPlan(t, n))}
           /\ \A x, y \in Positioned(BuildPlan(t, n)) :
                FileAt(BuildPlan(t, n), x) = FileAt(BuildPlan(t, n), y) => x = y
PROOF
  <1> DEFINE plan == BuildPlan(t, n)
             files == disk.files
  <1>1. /\ \A x \in Positioned(plan) : \E p \in DOMAIN files : files[p] = FileAt(plan, x)
        /\ \A p \in DOMAIN files : files[p].uuid[1] = n => \E x \in Positioned(plan) : files[p] = FileAt(plan, x)
    BY DEF AllStand, InDirOf
  <1>2. ASSUME NEW x \in Positioned(plan) PROVE FileAt(plan, x).uuid[1] = n
    <2>1. PICK y \in Parts(t) : ArtAt(plan, x) = Art(t, n, y)
      BY PlanParts
    <2>2. ArtAt(plan, x).uuid[1] = n
      BY <2>1, ArtIs
    <2> QED
      BY <2>2, FileWriteIs
  <1>3. ASSUME NEW x \in Positioned(plan), NEW y \in Positioned(plan), FileAt(plan, x) = FileAt(plan, y)
        PROVE  x = y
    <2>1. ArtAt(plan, x).uuid = ArtAt(plan, y).uuid
      BY <1>3, FileWriteIs
    <2> QED
      BY <2>1, PlanDiffers
  <1> HIDE DEF plan
  <1>4. \A f : f \in FilesOf(n) <=> \E p \in DOMAIN files : files[p].uuid[1] = n /\ f = files[p]
    BY DEF FilesOf
  <1>5. FilesOf(n) = {FileAt(plan, x) : x \in Positioned(plan)}
    <2>1. ASSUME NEW f \in FilesOf(n) PROVE \E x \in Positioned(plan) : f = FileAt(plan, x)
      BY <1>1, <1>4
    <2>2. ASSUME NEW x \in Positioned(plan) PROVE FileAt(plan, x) \in FilesOf(n)
      BY <1>1, <1>2, <1>4
    <2> QED
      BY <2>1, <2>2
  <1> QED
    BY <1>3, <1>5 DEF plan

\* As many artifacts as files, of whatever kind.
LEMMA CountedAlike ==
    ASSUME NEW t \in Seq(Document), MapsOneToOne(t), NEW n, AllStand(disk.files, t, n),
           NEW counted, NEW T \in SUBSET FilesOf(n),
           \A x \in Positioned(BuildPlan(t, n)) :
                ArtAt(BuildPlan(t, n), x) \in counted <=> FileAt(BuildPlan(t, n), x) \in T
    PROVE  CountOf(BuildPlan(t, n), counted) = Cardinality(T)
PROOF
  <1> DEFINE plan == BuildPlan(t, n)
             S == {x \in Positioned(plan) : ArtAt(plan, x) \in counted}
             f == [x \in S |-> FileAt(plan, x)]
  <1>1. CountOf(plan, counted) = Cardinality(S)
    BY DEF CountOf, ArtAt
  <1>2. IsFiniteSet(S)
    <2>1. S \in SUBSET Positioned(plan)
      OBVIOUS
    <2> QED
      BY <2>1, PlanIsFinite, FS_Subset
  <1>3. /\ FilesOf(n) = {FileAt(plan, x) : x \in Positioned(plan)}
        /\ \A x, y \in Positioned(plan) : FileAt(plan, x) = FileAt(plan, y) => x = y
    BY FilesOfPlan
  <1> HIDE DEF plan
  <1>4. \A x \in Positioned(plan) : ArtAt(plan, x) \in counted <=> FileAt(plan, x) \in T
    BY DEF plan
  <1>5. f \in [S -> T]
    BY <1>4
  <1>6. \A x, y \in S : f[x] = f[y] => x = y
    BY <1>3
  <1>7. ASSUME NEW y \in T PROVE \E x \in S : f[x] = y
    <2>1. PICK x \in Positioned(plan) : y = FileAt(plan, x)
      BY <1>3
    <2> QED
      BY <1>4, <2>1
  <1> HIDE DEF S, f
  <1>8. Cardinality(S) = Cardinality(T)
    BY <1>2, <1>5, <1>6, <1>7, SameSize
  <1> QED
    BY <1>1, <1>8 DEF plan

\* As many items with a URL as companions.
LEMMA UrlsCounted ==
    ASSUME NEW t \in Seq(Document), MapsOneToOne(t), NEW n, AllStand(disk.files, t, n), NEW counted,
           \A x \in Positioned(BuildPlan(t, n)) :
                ArtAt(BuildPlan(t, n), x) \in counted <=> ArtAt(BuildPlan(t, n), x).ref.kind = "url"
    PROVE  CountOf(BuildPlan(t, n), counted) = Cardinality({f \in FilesOf(n) : f.shape = "url"})
PROOF
  <1> DEFINE plan == BuildPlan(t, n)
             S == {x \in Positioned(plan) : ArtAt(plan, x) \in counted}
             T == {f \in FilesOf(n) : f.shape = "url"}
             Of(x) == ArtAt(plan, x).uuid[3]
             g == [x \in S |-> CHOOSE f \in T : f.uuid[3] = Of(x)]
  <1>1. CountOf(plan, counted) = Cardinality(S)
    BY DEF CountOf, ArtAt
  <1>2. IsFiniteSet(S)
    <2>1. S \in SUBSET Positioned(plan)
      OBVIOUS
    <2> QED
      BY <2>1, PlanIsFinite, FS_Subset
  <1>3. FilesOf(n) = {FileAt(plan, x) : x \in Positioned(plan)}
    BY FilesOfPlan
  <1>4. ASSUME NEW x \in Positioned(plan)
        PROVE  /\ x \in S => \E y \in Parts(t) : y = <<y[1], 1>> /\ ItemAt(t, y[1]).ref = "url"
                                /\ ArtAt(plan, x).uuid = Id(n, "item", y[1], 0)
               /\ FileAt(plan, x) \in T => \E y \in Parts(t) : y = <<y[1], 2>>
                                /\ ArtAt(plan, x).uuid = Id(n, "companion", y[1], 0)
    <2>1. PICK y \in Parts(t) : ArtAt(plan, x) = Art(t, n, y)
      BY PlanParts
    <2>2. /\ y = <<y[1], y[2]>> /\ y[2] \in {1, 2} /\ ItemAt(t, y[1]).uid \in Uids
          /\ Art(t, n, y).uuid = Id(n, Kind(y), y[1], 0)
      BY PartsAre, PartsDiffer
    <2>3. CASE y[2] = 1
      <3>1. /\ Art(t, n, y).uid = ItemAt(t, y[1]).uid /\ Art(t, n, y).ref.kind = ItemAt(t, y[1]).ref
            /\ Kind(y) = "item"
        BY <2>3 DEF Art, PlannedItem, Kind
      <3>2. ArtAt(plan, x).uid # None
        BY <2>1, <2>2, <3>1, DoorstopAssumption
      <3>3. FileAt(plan, x) \notin T
        BY <3>2, FileIs
      <3>4. x \in S => ItemAt(t, y[1]).ref = "url"
        BY <2>1, <3>1
      <3> HIDE DEF S, T, plan
      <3> QED
        BY <2>1, <2>2, <2>3, <3>1, <3>3, <3>4
    <2>4. CASE y[2] = 2
      <3>1. Art(t, n, y).ref.kind = "none" /\ Kind(y) = "companion"
        BY <2>4 DEF Art, PlannedCompanion, Kind
      <3>2. x \notin S
        BY <2>1, <3>1
      <3> HIDE DEF S, T, plan
      <3> QED
        BY <2>1, <2>2, <2>4, <3>1, <3>2
    <2> QED
      BY <2>2, <2>3, <2>4
  <1>5. ASSUME NEW y \in Parts(t), y[2] = 2
        PROVE  \E x \in Positioned(plan) : FileAt(plan, x) \in T /\ ArtAt(plan, x).uuid = Id(n, "companion", y[1], 0)
    <2>1. PICK x \in Positioned(plan) : ArtAt(plan, x) = Art(t, n, y)
      BY PlanParts
    <2>0. Kind(y) = "companion"
      BY <1>5 DEF Kind
    <2>2. Art(t, n, y).uuid = Id(n, "companion", y[1], 0)
      BY <2>0, PartsDiffer
    <2>3. Art(t, n, y).uid = None
      BY <1>5 DEF Art, PlannedCompanion
    <2>4. FileAt(plan, x) \in T
      BY <1>3, <2>1, <2>3, FileIs
    <2> HIDE DEF plan, T
    <2> QED
      BY <2>1, <2>2, <2>4
  <1>6. ASSUME NEW y \in Parts(t), y[2] = 1, ItemAt(t, y[1]).ref = "url"
        PROVE  \E x \in S : ArtAt(plan, x).uuid = Id(n, "item", y[1], 0)
    <2>1. PICK x \in Positioned(plan) : ArtAt(plan, x) = Art(t, n, y)
      BY PlanParts
    <2>2. Art(t, n, y).uuid = Id(n, "item", y[1], 0)
      BY <1>6, PartsDiffer DEF Kind
    <2>3. Art(t, n, y).ref.kind = "url"
      BY <1>6 DEF Art, PlannedItem
    <2>4. x \in S
      BY <2>1, <2>3
    <2> QED
      BY <2>1, <2>2, <2>4
  <1>7. \A p : <<p, 2>> \in Parts(t) <=> <<p, 1>> \in Parts(t) /\ ItemAt(t, p).ref = "url"
    BY DEF Parts
  <1>8. \A x \in Positioned(plan) : FileAt(plan, x).uuid = ArtAt(plan, x).uuid
    BY FileWriteIs
  <1>9. \A x, y \in Positioned(plan) : ArtAt(plan, x).uuid = ArtAt(plan, y).uuid => x = y
    BY PlanDiffers
  <1>10. \A kind, p : Id(n, kind, p, 0)[3] = p
    BY IdIs
  <1>11. S \subseteq Positioned(plan)
    OBVIOUS
  <1>12. T \subseteq FilesOf(n)
    OBVIOUS
  <1> HIDE DEF plan, S, T
  <1>13. ASSUME NEW x \in S PROVE \E f \in T : f.uuid[3] = Of(x)
    <2>1. PICK y \in Parts(t) : y = <<y[1], 1>> /\ ItemAt(t, y[1]).ref = "url"
                                /\ ArtAt(plan, x).uuid = Id(n, "item", y[1], 0)
      BY <1>4, <1>11
    <2>2. PICK z : z = <<y[1], 2>>
      OBVIOUS
    <2>3. z \in Parts(t) /\ z[2] = 2 /\ z[1] = y[1]
      BY <1>7, <2>1, <2>2
    <2>4. PICK o \in Positioned(plan) : FileAt(plan, o) \in T /\ ArtAt(plan, o).uuid = Id(n, "companion", y[1], 0)
      BY <1>5, <2>3
    <2> QED
      BY <1>8, <1>10, <2>1, <2>4
  <1>14. \A x \in S : g[x] \in T /\ g[x].uuid[3] = Of(x)
    <2> SUFFICES ASSUME NEW x \in S PROVE g[x] \in T /\ g[x].uuid[3] = Of(x)
      OBVIOUS
    <2> DEFINE P(f) == f.uuid[3] = Of(x)
    <2>1. \E f \in T : P(f)
      BY <1>13
    <2>2. g[x] = CHOOSE f \in T : P(f)
      OBVIOUS
    <2> HIDE DEF g, P
    <2>3. g[x] \in T /\ P(g[x])
      BY <2>1, <2>2, Zenon
    <2> QED
      BY <2>3 DEF P
  <1>15. g \in [S -> T]
    <2>1. g = [x \in S |-> g[x]]
      OBVIOUS
    <2> HIDE DEF g
    <2> QED
      BY <1>14, <2>1
  <1> HIDE DEF g
  <1>16. ASSUME NEW x \in S, NEW z \in S, g[x] = g[z] PROVE x = z
    <2>1. Of(x) = Of(z)
      BY <1>14, <1>16
    <2>2. PICK y \in Parts(t) : ArtAt(plan, x).uuid = Id(n, "item", y[1], 0)
      BY <1>4, <1>11
    <2>3. PICK v \in Parts(t) : ArtAt(plan, z).uuid = Id(n, "item", v[1], 0)
      BY <1>4, <1>11
    <2>4. y[1] = v[1]
      BY <1>10, <2>1, <2>2, <2>3
    <2> QED
      BY <1>9, <1>11, <2>2, <2>3, <2>4
  <1>17. ASSUME NEW f \in T PROVE \E x \in S : g[x] = f
    <2>1. PICK o \in Positioned(plan) : f = FileAt(plan, o)
      BY <1>3, <1>12
    <2>2. PICK y \in Parts(t) : y = <<y[1], 2>> /\ ArtAt(plan, o).uuid = Id(n, "companion", y[1], 0)
      BY <1>4, <2>1
    <2>3. PICK z : z = <<y[1], 1>>
      OBVIOUS
    <2>4. z \in Parts(t) /\ z[2] = 1 /\ z[1] = y[1] /\ ItemAt(t, z[1]).ref = "url"
      BY <1>7, <2>2, <2>3
    <2>5. PICK x \in S : ArtAt(plan, x).uuid = Id(n, "item", y[1], 0)
      BY <1>6, <2>4
    <2>6. g[x] \in T /\ g[x].uuid[3] = y[1]
      BY <1>10, <1>14, <2>5
    <2>7. PICK w \in Positioned(plan) : g[x] = FileAt(plan, w)
      BY <1>3, <1>12, <2>6
    <2>8. PICK v \in Parts(t) : ArtAt(plan, w).uuid = Id(n, "companion", v[1], 0)
      BY <1>4, <2>6, <2>7
    <2>9. v[1] = y[1]
      BY <1>8, <1>10, <2>6, <2>7, <2>8
    <2>10. w = o
      BY <1>9, <2>2, <2>8, <2>9
    <2> QED
      BY <2>1, <2>7, <2>10
  <1>18. Cardinality(S) = Cardinality(T)
    BY <1>2, <1>15, <1>16, <1>17, SameSize
  <1> QED
    BY <1>1, <1>18 DEF plan, T

LinksOfPlan(plan) == UNION {{x} \X DOMAIN ArtAt(plan, x).links : x \in Positioned(plan)}
LinksOfFiles(files) == UNION {{f} \X DOMAIN f.links : f \in files}

LEMMA ArtLinks ==
    ASSUME NEW t \in Seq(Document), NEW n, NEW x \in Positioned(BuildPlan(t, n))
    PROVE  LET links == ArtAt(BuildPlan(t, n), x).links IN Len(links) \in Nat /\ DOMAIN links = 1..Len(links)
PROOF
  <1>1. PICK y \in Parts(t) : ArtAt(BuildPlan(t, n), x) = Art(t, n, y)
    BY PlanParts
  <1>2. y[1] \in Positions(t) /\ y[2] \in {1, 2}
    BY PartsAre
  <1>3. CASE y[2] = 1
    <2> DEFINE links == PlannedItem(t, n, y[1]).links
               uids == LinksOf(ItemAt(t, y[1]))
    <2>1. Art(t, n, y).links = links
      BY <1>3 DEF Art
    <2>2. Len(uids) \in Nat /\ DOMAIN links = 1..Len(links)
          /\ Len(links) = Len(uids) + (IF ItemAt(t, y[1]).ref = "url" THEN 1 ELSE 0)
      BY <1>2, ItemLinks
    <2> QED
      BY <1>1, <2>1, <2>2
  <1>4. CASE y[2] = 2
    <2>1. Art(t, n, y).links = <<>>
      BY <1>4 DEF Art, PlannedCompanion
    <2> QED
      BY <1>1, <2>1
  <1> QED
    BY <1>2, <1>3, <1>4

LEMMA LinksAreFinite ==
    ASSUME NEW t \in Seq(Document), NEW n
    PROVE  IsFiniteSet(LinksOfPlan(BuildPlan(t, n)))
PROOF
  <1> DEFINE plan == BuildPlan(t, n)
             P == Positioned(plan)
             of == [x \in P |-> {x} \X DOMAIN ArtAt(plan, x).links]
             S == {of[x] : x \in P}
  <1>1. LinksOfPlan(plan) = UNION S
    BY DEF LinksOfPlan
  <1>2. ASSUME NEW x \in P PROVE IsFiniteSet(of[x])
    <2> DEFINE m == Len(ArtAt(plan, x).links)
    <2>1. m \in Nat /\ DOMAIN ArtAt(plan, x).links = 1..m
      BY ArtLinks
    <2> HIDE DEF m
    <2>2. IsFiniteSet(1..m)
      BY <2>1, FS_Interval
    <2>3. IsFiniteSet({x})
      BY FS_Singleton
    <2>4. IsFiniteSet({x} \X (1..m))
      BY <2>2, <2>3, FS_Product
    <2> QED
      BY <2>1, <2>4
  <1>3. IsFiniteSet(P)
    BY PlanIsFinite
  <1> HIDE DEF of, P, plan
  <1>4. IsFiniteSet(S)
    <2>1. [x \in P |-> of[x]] \in Surjection(P, S)
      BY DEF Surjection
    <2> QED
      BY <1>3, <2>1, FS_Surjection
  <1>5. \A T \in S : IsFiniteSet(T)
    BY <1>2
  <1> HIDE DEF S
  <1> QED
    BY <1>1, <1>4, <1>5, FS_UNION DEF plan

LEMMA LinkOfPlan ==
    ASSUME NEW plan, NEW z
    PROVE  z \in LinksOfPlan(plan) <=>
              z = <<z[1], z[2]>> /\ z[1] \in Positioned(plan) /\ z[2] \in DOMAIN ArtAt(plan, z[1]).links
PROOF
  <1>1. z \in LinksOfPlan(plan) <=> \E x \in Positioned(plan) : \E k \in DOMAIN ArtAt(plan, x).links : z = <<x, k>>
    BY DEF LinksOfPlan
  <1> QED
    BY <1>1

LEMMA LinkOfFiles ==
    ASSUME NEW files, NEW z
    PROVE  z \in LinksOfFiles(files) <=> z = <<z[1], z[2]>> /\ z[1] \in files /\ z[2] \in DOMAIN z[1].links
PROOF
  <1>1. z \in LinksOfFiles(files) <=> \E x \in files : \E k \in DOMAIN x.links : z = <<x, k>>
    BY DEF LinksOfFiles
  <1> QED
    BY <1>1

\* As many links in the artifacts as in the files, of whatever kind.
LEMMA LinksAlike ==
    ASSUME NEW t \in Seq(Document), MapsOneToOne(t), NEW n, AllStand(disk.files, t, n),
           NEW counted, NEW T \in SUBSET LinksOfFiles(FilesOf(n)),
           \A z \in LinksOfPlan(BuildPlan(t, n)) :
                ArtAt(BuildPlan(t, n), z[1]).links[z[2]] \in counted
                    <=> <<FileAt(BuildPlan(t, n), z[1]), z[2]>> \in T
    PROVE  LinksIn(BuildPlan(t, n), counted) = Cardinality(T)
PROOF
  <1> DEFINE plan == BuildPlan(t, n)
             S == {z \in LinksOfPlan(plan) : ArtAt(plan, z[1]).links[z[2]] \in counted}
             f == [z \in S |-> <<FileAt(plan, z[1]), z[2]>>]
  <1>1. LinksIn(plan, counted) = Cardinality(S)
    BY DEF LinksIn, LinksOfPlan, ArtAt
  <1>2. IsFiniteSet(S)
    <2>1. S \in SUBSET LinksOfPlan(plan)
      OBVIOUS
    <2> QED
      BY <2>1, LinksAreFinite, FS_Subset
  <1>3. /\ FilesOf(n) = {FileAt(plan, x) : x \in Positioned(plan)}
        /\ \A x, y \in Positioned(plan) : FileAt(plan, x) = FileAt(plan, y) => x = y
    BY FilesOfPlan
  <1>4. \A z \in LinksOfPlan(plan) :
            ArtAt(plan, z[1]).links[z[2]] \in counted <=> <<FileAt(plan, z[1]), z[2]>> \in T
    OBVIOUS
  <1>5. \A x \in Positioned(plan) : FileAt(plan, x).links = ArtAt(plan, x).links
    BY FileIs
  <1>6. \A z : z \in LinksOfPlan(plan) <=>
            z = <<z[1], z[2]>> /\ z[1] \in Positioned(plan) /\ z[2] \in DOMAIN ArtAt(plan, z[1]).links
    BY LinkOfPlan
  <1>7. \A z \in T : z = <<z[1], z[2]>> /\ z[1] \in FilesOf(n) /\ z[2] \in DOMAIN z[1].links
    BY LinkOfFiles
  <1> HIDE DEF plan
  <1>8. f \in [S -> T]
    BY <1>4
  <1>9. ASSUME NEW x \in S, NEW y \in S, f[x] = f[y] PROVE x = y
    <2>1. FileAt(plan, x[1]) = FileAt(plan, y[1]) /\ x[2] = y[2]
      BY <1>9
    <2>2. x[1] \in Positioned(plan) /\ y[1] \in Positioned(plan) /\ x = <<x[1], x[2]>> /\ y = <<y[1], y[2]>>
      BY <1>6
    <2> QED
      BY <1>3, <2>1, <2>2
  <1>10. ASSUME NEW y \in T PROVE \E x \in S : f[x] = y
    <2>1. y = <<y[1], y[2]>> /\ y[1] \in FilesOf(n) /\ y[2] \in DOMAIN y[1].links
      BY <1>7
    <2>2. PICK x \in Positioned(plan) : y[1] = FileAt(plan, x)
      BY <1>3, <2>1
    <2>3. PICK z : z = <<x, y[2]>>
      OBVIOUS
    <2>4. z = <<z[1], z[2]>> /\ z[1] = x /\ z[2] = y[2]
      BY <2>3
    <2>5. z \in LinksOfPlan(plan)
      BY <1>5, <1>6, <2>1, <2>2, <2>4
    <2>6. <<FileAt(plan, z[1]), z[2]>> = y
      BY <2>1, <2>2, <2>4
    <2>7. z \in S /\ f[z] = y
      BY <1>4, <2>5, <2>6
    <2> QED
      BY <2>7
  <1> HIDE DEF S, f
  <1>11. Cardinality(S) = Cardinality(T)
    BY <1>2, <1>8, <1>9, <1>10, SameSize
  <1> QED
    BY <1>1, <1>11 DEF plan

\* A planned link is to nobody when no file has what it leads to.
LEMMA NobodyIsNowhere ==
    ASSUME NEW t \in Seq(Document), MapsOneToOne(t), NEW n, AllStand(disk.files, t, n),
           NEW z \in LinksOfPlan(BuildPlan(t, n))
    PROVE  LET to == ArtAt(BuildPlan(t, n), z[1]).links[z[2]].to IN to[2] = "nobody" <=> to \notin UuidsOf(disk)
PROOF
  <1> DEFINE plan == BuildPlan(t, n)
             to == ArtAt(plan, z[1]).links[z[2]].to
  <1>1. z[1] \in Positioned(plan) /\ z[2] \in DOMAIN ArtAt(plan, z[1]).links
    BY LinkOfPlan
  <1>2. PICK y \in Parts(t) : ArtAt(plan, z[1]) = Art(t, n, y)
    BY <1>1, PlanParts
  <1>3. y[1] \in Positions(t) /\ y[2] \in {1, 2} /\ Imported(t, y[1])
    BY PartsAre
  <1>4. y[2] = 1
    <2> SUFFICES ASSUME y[2] = 2 PROVE FALSE
      BY <1>3
    <2>1. Art(t, n, y).links = <<>>
      BY DEF Art, PlannedCompanion
    <2> QED
      BY <1>1, <1>2, <2>1
  <1>5. PICK p : p = y[1]
    OBVIOUS
  <1> DEFINE links == PlannedItem(t, n, p).links
             uids == LinksOf(ItemAt(t, p))
  <1>6. ArtAt(plan, z[1]).links = links
    BY <1>2, <1>4, <1>5 DEF Art
  <1>7. /\ Len(uids) \in Nat /\ DOMAIN uids = 1..Len(uids)
        /\ Len(links) = Len(uids) + (IF ItemAt(t, p).ref = "url" THEN 1 ELSE 0) /\ DOMAIN links = 1..Len(links)
        /\ ItemAt(t, p).ref = "url" => links[Len(links)].to = Companion(n, p)
    BY <1>3, <1>5, ItemLinks
  <1>8. CASE z[2] \in DOMAIN uids
    <2>1. PICK k : k = z[2]
      OBVIOUS
    <2>2. k \in DOMAIN uids
      BY <1>8, <2>1
    <2>3. IF Listed(t, uids[k]) = {} THEN links[k].to \notin UuidsOf(disk) /\ links[k].to[2] = "nobody"
          ELSE links[k].to \in UuidsOf(disk) /\ links[k].to[2] = "item"
      BY <1>3, <1>5, <2>2, LinkLeads
    <2>4. to = links[k].to
      BY <1>6, <2>1
    <2> HIDE DEF to, links, uids
    <2> QED
      BY <2>3, <2>4 DEF to
  <1>9. CASE z[2] \notin DOMAIN uids
    <2>1. z[2] = Len(links) /\ ItemAt(t, p).ref = "url"
      <3> HIDE DEF links, uids, plan
      <3> QED
        BY <1>1, <1>6, <1>7, <1>9
    <2>2. to = Companion(n, p)
      BY <1>6, <1>7, <2>1
    <2>3. Companion(n, p) \in UuidsOf(disk) /\ Companion(n, p)[2] = "companion"
      BY <1>3, <1>5, <2>1, CompanionStands
    <2> HIDE DEF to
    <2> QED
      BY <2>2, <2>3 DEF to
  <1> QED
    BY <1>8, <1>9

LEMMA ReportCounts ==
    ASSUME NEW t \in Seq(Document), MapsOneToOne(t), NEW n, AllStand(disk.files, t, n)
    PROVE  CountsFiles(ReportOf(t, n))
PROOF
  <1> DEFINE plan == BuildPlan(t, n)
             rep == ReportOf(t, n)
             all == {ArtAt(plan, x) : x \in Positioned(plan)}
             links == UNION {ToSet(a.links) : a \in all}
             files == FilesOf(n)
  <1>1. /\ rep.run = n
        /\ rep.artifacts = CountOf(plan, all)
        /\ rep.urls = CountOf(plan, {a \in all : a.ref.kind = "url"})
        /\ rep.legacyRefs = CountOf(plan, {a \in all : a.ref.kind = "text"})
        /\ rep.reviews = CountOf(plan, {a \in all : a.reviewed})
        /\ rep.preserved = CountOf(plan, {a \in all : a.extra})
        /\ rep.cites = LinksIn(plan, {l \in links : l.type = "cites"})
        /\ rep.unresolved = LinksIn(plan, {l \in links : l.to[2] = "nobody"})
    BY DEF ReportOf, ArtAt
  <1>2. \A x \in Positioned(plan) : ArtAt(plan, x) \in all /\ FileAt(plan, x) \in files
    BY FilesOfPlan
  <1>3. \A x \in Positioned(plan) :
          /\ FileAt(plan, x).links = ArtAt(plan, x).links
          /\ FileAt(plan, x).log # <<>> <=> ArtAt(plan, x).reviewed
          /\ "ref" \in FileAt(plan, x).legacy <=> ArtAt(plan, x).ref.kind = "text"
          /\ "extra" \in FileAt(plan, x).legacy <=> ArtAt(plan, x).extra
    BY FileIs
  <1>4. rep.artifacts = Cardinality(files)
    BY <1>1, <1>2, CountedAlike
  <1>5. rep.urls = Cardinality({f \in files : f.shape = "url"})
    <2> DEFINE C == {a \in all : a.ref.kind = "url"}
    <2>1. \A x \in Positioned(plan) : ArtAt(plan, x) \in C <=> ArtAt(plan, x).ref.kind = "url"
      BY <1>2
    <2> HIDE DEF C
    <2>2. CountOf(plan, C) = Cardinality({f \in files : f.shape = "url"})
      BY <2>1, UrlsCounted
    <2> QED
      BY <1>1, <2>2 DEF C
  <1>6. rep.legacyRefs = Cardinality({f \in files : "ref" \in f.legacy})
    <2> DEFINE C == {a \in all : a.ref.kind = "text"}
               T == {f \in files : "ref" \in f.legacy}
    <2>1. T \in SUBSET files /\ \A x \in Positioned(plan) : ArtAt(plan, x) \in C <=> FileAt(plan, x) \in T
      BY <1>2, <1>3
    <2> HIDE DEF C, T
    <2>2. CountOf(plan, C) = Cardinality(T)
      BY <2>1, CountedAlike
    <2> QED
      BY <1>1, <2>2 DEF C, T
  <1>7. rep.reviews = Cardinality({f \in files : f.log # <<>>})
    <2> DEFINE C == {a \in all : a.reviewed}
               T == {f \in files : f.log # <<>>}
    <2>1. T \in SUBSET files /\ \A x \in Positioned(plan) : ArtAt(plan, x) \in C <=> FileAt(plan, x) \in T
      BY <1>2, <1>3
    <2> HIDE DEF C, T
    <2>2. CountOf(plan, C) = Cardinality(T)
      BY <2>1, CountedAlike
    <2> QED
      BY <1>1, <2>2 DEF C, T
  <1>8. rep.preserved = Cardinality({f \in files : "extra" \in f.legacy})
    <2> DEFINE C == {a \in all : a.extra}
               T == {f \in files : "extra" \in f.legacy}
    <2>1. T \in SUBSET files /\ \A x \in Positioned(plan) : ArtAt(plan, x) \in C <=> FileAt(plan, x) \in T
      BY <1>2, <1>3
    <2> HIDE DEF C, T
    <2>2. CountOf(plan, C) = Cardinality(T)
      BY <2>1, CountedAlike
    <2> QED
      BY <1>1, <2>2 DEF C, T
  <1>9. \A z \in LinksOfPlan(plan) :
          /\ ArtAt(plan, z[1]).links[z[2]] \in links
          /\ <<FileAt(plan, z[1]), z[2]>> \in LinksOfFiles(files)
          /\ FileAt(plan, z[1]).links = ArtAt(plan, z[1]).links
    <2> SUFFICES ASSUME NEW z \in LinksOfPlan(plan)
                 PROVE  /\ ArtAt(plan, z[1]).links[z[2]] \in links
                        /\ <<FileAt(plan, z[1]), z[2]>> \in LinksOfFiles(files)
                        /\ FileAt(plan, z[1]).links = ArtAt(plan, z[1]).links
      OBVIOUS
    <2>1. z[1] \in Positioned(plan) /\ z[2] \in DOMAIN ArtAt(plan, z[1]).links
      BY LinkOfPlan
    <2>2. FileAt(plan, z[1]).links = ArtAt(plan, z[1]).links /\ FileAt(plan, z[1]) \in files
      BY <1>2, <1>3, <2>1
    <2>3. ArtAt(plan, z[1]).links[z[2]] \in ToSet(ArtAt(plan, z[1]).links)
      BY <2>1 DEF ToSet
    <2>4. ArtAt(plan, z[1]).links[z[2]] \in links
      BY <1>2, <2>1, <2>3
    <2>5. PICK v : v = <<FileAt(plan, z[1]), z[2]>>
      OBVIOUS
    <2>6. v = <<v[1], v[2]>> /\ v[1] = FileAt(plan, z[1]) /\ v[2] = z[2]
      BY <2>5
    <2>7. v \in LinksOfFiles(files)
      BY <2>1, <2>2, <2>6, LinkOfFiles
    <2> QED
      BY <2>2, <2>4, <2>5, <2>7
  <1>10. rep.cites = Cardinality({x \in LinksOfFiles(files) : x[1].links[x[2]].type = "cites"})
    <2> DEFINE C == {l \in links : l.type = "cites"}
               T == {x \in LinksOfFiles(files) : x[1].links[x[2]].type = "cites"}
    <2>1. T \in SUBSET LinksOfFiles(files)
      OBVIOUS
    <2>2. \A z \in LinksOfPlan(plan) : ArtAt(plan, z[1]).links[z[2]] \in C <=> <<FileAt(plan, z[1]), z[2]>> \in T
      <3> HIDE DEF links, plan, files
      <3> QED
        BY <1>9
    <2> HIDE DEF C, T
    <2>3. LinksIn(plan, C) = Cardinality(T)
      BY <2>1, <2>2, LinksAlike
    <2> QED
      BY <1>1, <2>3 DEF C, T
  <1>11. rep.unresolved = Cardinality({x \in LinksOfFiles(files) : x[1].links[x[2]].to \notin UuidsOf(disk)})
    <2> DEFINE C == {l \in links : l.to[2] = "nobody"}
               T == {x \in LinksOfFiles(files) : x[1].links[x[2]].to \notin UuidsOf(disk)}
    <2>0. \A z \in LinksOfPlan(plan) : ArtAt(plan, z[1]).links[z[2]].to[2] = "nobody"
                                        <=> ArtAt(plan, z[1]).links[z[2]].to \notin UuidsOf(disk)
      BY NobodyIsNowhere
    <2>1. T \in SUBSET LinksOfFiles(files)
      OBVIOUS
    <2>2. \A z \in LinksOfPlan(plan) : ArtAt(plan, z[1]).links[z[2]] \in C <=> <<FileAt(plan, z[1]), z[2]>> \in T
      <3> HIDE DEF links, plan, files
      <3> QED
        BY <1>9, <2>0
    <2> HIDE DEF C, T
    <2>3. LinksIn(plan, C) = Cardinality(T)
      BY <2>1, <2>2, LinksAlike
    <2> QED
      BY <1>1, <2>3 DEF C, T
  <1> HIDE DEF rep
  <1>12. CountsFiles(rep)
    BY <1>1, <1>4, <1>5, <1>6, <1>7, <1>8, <1>10, <1>11 DEF CountsFiles, LinksOfFiles
  <1> QED
    BY <1>12 DEF rep

LEMMA ImportIs == RunsInv /\ ReportInv => ImportStands
PROOF
  <1> SUFFICES ASSUME RunsInv, ReportInv, report # None, report.run \notin crossed, MapsOneToOne(report.tree)
               PROVE  /\ \A p \in Positions(report.tree) :
                            Imported(report.tree, p) => ItemStands(report.tree, report.run, p)
                      /\ CountsFiles(report)
    BY DEF ImportStands
  <1>1. PICK t, n : t = report.tree /\ n = report.run
    OBVIOUS
  <1>2. t \in Seq(Document) /\ report = ReportOf(t, n)
    <2>1. report.tree \in scene.trees /\ report = ReportOf(report.tree, report.run) /\ scene \in Scenes
      BY DEF RunsInv, ReportIs, TreesAre
    <2> QED
      BY <1>1, <2>1, SceneIs
  <1>3. AllStand(disk.files, t, n) /\ MapsOneToOne(t)
    BY <1>1 DEF ReportInv
  <1>4. \A p \in Positions(t) : Imported(t, p) => ItemStands(t, n, p)
    BY <1>2, <1>3, EachItemStands
  <1>5. CountsFiles(report)
    BY <1>2, <1>3, ReportCounts
  <1> QED
    BY <1>1, <1>4, <1>5

-----------------------------------------------------------------------------
(***************************************************************************)
(* Theorems.                                                               *)
(***************************************************************************)

ImportInv == RunsInv /\ HomeInv /\ WritingInv /\ ReportInv

\* The invariants of the importer hold: imports, renames, failures, restarts
\* and edits of the source in any order (doorstop_import, execute).
THEOREM ImportInvariance == Spec => []ImportInv
PROOF
  <1>1. Init => ImportInv
    BY RunsInit, HomeInit, ImportInit DEF ImportInv
  <1>2. ImportInv /\ [Next]_vars => ImportInv'
    BY RunsNext, HomeNext, ImportNext DEF ImportInv
  <1> QED
    BY <1>1, <1>2, PTL DEF Spec

\* An answered import stands whole until another run or rename meets its
\* files: artifact by artifact, link by link, and as the report counts them;
\* and the project there was before is left as it is (build_plan, execute).
THEOREM TheImportStands == Spec => []DoorstopOK
PROOF
  <1>1. ImportInv => DoorstopOK
    BY ImportIs, HomeIs DEF ImportInv, DoorstopOK
  <1> QED
    BY <1>1, ImportInvariance, PTL
=============================================================================
