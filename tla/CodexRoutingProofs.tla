-------------------------- MODULE CodexRoutingProofs --------------------------
(***************************************************************************)
(* Proofs that enabling and disabling the routing of Codex gives the user  *)
(* the own document back, for documents of any length, any number of       *)
(* commands and edits, and that no line of the user is lost, whichever     *)
(* command dies.                                                           *)
(***************************************************************************)
EXTENDS CodexRouting, SequenceTheorems, WellFoundedInduction, TLAPS

-----------------------------------------------------------------------------
(***************************************************************************)
(* Induction over numbers and sequences, for sets: G holds those of which  *)
(* something is so.                                                        *)
(***************************************************************************)
\* A set of numbers that is not empty has a least one.
LEMMA LeastNumber ==
  ASSUME NEW T \in SUBSET Nat, T # {}
  PROVE  \E m \in T : \A j \in T : m <= j
<1> DEFINE R == OpToRel(<, Nat)
<1>1. IsWellFoundedOn(R, Nat)
  BY NatLessThanWellFounded
<1>2. \A x, y \in Nat : <<x, y>> \in R <=> x < y
  BY DEF OpToRel
<1> HIDE DEF R
<1>3. PICK m \in T : \A j \in T : <<j, m>> \notin R
  BY <1>1, WFMin
<1>4. ASSUME NEW j \in T PROVE m <= j
  <2>1. j \in Nat /\ m \in Nat /\ ~(j < m)
    BY <1>2, <1>3
  <2>2. QED BY <2>1
<1>5. QED BY <1>4

\* Up to a bound, all numbers are in a set with 0 and the successors of its members.
LEMMA NumbersUpTo ==
  ASSUME NEW N \in Nat, NEW G, 0 \in G,
         \A n \in 0 .. N : n \in G /\ n < N => n + 1 \in G
  PROVE  \A n \in 0 .. N : n \in G
<1> DEFINE B == {n \in 0 .. N : n \notin G}
<1>1. SUFFICES ASSUME B # {} PROVE FALSE
  OBVIOUS
<1>2. B \in SUBSET Nat
  OBVIOUS
<1> HIDE DEF B
<1>3. PICK m \in B : \A j \in B : m <= j
  BY <1>1, <1>2, LeastNumber
<1>4. m \in 0 .. N /\ m \notin G
  BY <1>3 DEF B
<1>5. m - 1 \in 0 .. N /\ m - 1 < N /\ ~(m <= m - 1) /\ (m - 1) + 1 = m
  BY <1>4
<1>6. m - 1 \in G
  BY <1>3, <1>5 DEF B
<1>7. QED BY <1>4, <1>5, <1>6

\* All sequences are in a set with the empty one that appending keeps.
LEMMA SequencesByAppending ==
  ASSUME NEW S, NEW G, <<>> \in G,
         \A s \in Seq(S) : \A x \in S : s \in G => Append(s, x) \in G
  PROVE  \A s \in Seq(S) : s \in G
<1> DEFINE B == {n \in Nat : \E s \in Seq(S) : Len(s) = n /\ s \notin G}
<1>1. SUFFICES ASSUME NEW t \in Seq(S), t \notin G PROVE FALSE
  OBVIOUS
<1>2. Len(t) \in B /\ B \in SUBSET Nat
  BY <1>1, LenProperties
<1> HIDE DEF B
<1>3. PICK m \in B : \A j \in B : m <= j
  BY <1>2, LeastNumber
<1>4. PICK s \in Seq(S) : Len(s) = m /\ s \notin G
  BY <1>3 DEF B
<1>5. s # <<>>
  BY <1>4
<1>6. PICK u \in Seq(S), x \in S : s = Append(u, x)
  BY <1>5, SequenceEmptyOrAppend
<1>7. u \notin G
  BY <1>4, <1>6
<1>8. Len(u) \in Nat /\ Len(u) + 1 = m
  BY <1>4, <1>6, AppendProperties, LenProperties
<1>9. Len(u) \in B
  BY <1>7, <1>8 DEF B
<1>10. QED BY <1>3, <1>8, <1>9

-----------------------------------------------------------------------------
(***************************************************************************)
(* The lines of some kinds.                                                *)
(***************************************************************************)
\* g[i] are those among the first i lines.
Collects(g, doc, K, n) ==
  /\ g[0] = <<>>
  /\ \A i \in 1 .. n :
       g[i] = IF doc[i].kind \in K THEN Append(g[i - 1], doc[i]) ELSE g[i - 1]

\* What the recursion in OfKinds computes.
LEMMA KindsCollected ==
  ASSUME NEW S, NEW doc \in Seq(S), NEW K
  PROVE  \E g \in [0 .. Len(doc) -> Seq(S)] :
           Collects(g, doc, K, Len(doc)) /\ OfKinds(doc, K) = g[Len(doc)]
<1> DEFINE N == Len(doc)
           Next1(l, i) == IF doc[i].kind \in K THEN Append(l, doc[i]) ELSE l
           Rec(g) == [i \in 0 .. N |-> IF i = 0 THEN <<>> ELSE Next1(g[i - 1], i)]
           F == CHOOSE g : g = Rec(g)
           G == {n \in 0 .. N : \E g \in [0 .. n -> Seq(S)] : Collects(g, doc, K, n)}
<1>1. N \in Nat /\ \A i \in 1 .. N : doc[i] \in S
  BY LenProperties, ElementOfSeq
<1>2. \A l \in Seq(S) : \A i \in 1 .. N : Next1(l, i) \in Seq(S)
  BY <1>1, AppendProperties
<1>3. \A n \in 0 .. N : n \in G
  <2>1. 0 \in G
    <3> DEFINE h == [i \in 0 .. 0 |-> <<>>]
    <3>1. h \in [0 .. 0 -> Seq(S)]
      OBVIOUS
    <3>2. Collects(h, doc, K, 0)
      BY DEF Collects
    <3> HIDE DEF h
    <3>3. 0 \in 0 .. N /\ \E g \in [0 .. 0 -> Seq(S)] : Collects(g, doc, K, 0)
      BY <3>1, <3>2, <1>1
    <3>4. QED BY <3>3
  <2>2. ASSUME NEW n \in 0 .. N, n \in G, n < N
        PROVE  n + 1 \in G
    <3>1. PICK g \in [0 .. n -> Seq(S)] : Collects(g, doc, K, n)
      BY <2>2
    <3> DEFINE h == [i \in 0 .. (n + 1) |-> IF i <= n THEN g[i] ELSE Next1(g[n], n + 1)]
    <3>2. g[n] \in Seq(S) /\ n + 1 \in 1 .. N
      BY <2>2, <1>1
    <3>3. Next1(g[n], n + 1) \in Seq(S)
      BY <3>2, <1>2
    <3> HIDE DEF Next1
    <3>4. h \in [0 .. (n + 1) -> Seq(S)]
      BY <3>3
    <3>5. h[n + 1] = Next1(g[n], n + 1) /\ \A i \in 0 .. n : h[i] = g[i]
      BY <1>1
    <3> HIDE DEF h
    <3>6. Collects(h, doc, K, n + 1)
      <4>1. h[0] = <<>>
        BY <3>1, <3>5, <1>1 DEF Collects
      <4>2. ASSUME NEW i \in 1 .. (n + 1)
            PROVE  h[i] = Next1(h[i - 1], i)
        <5>1. CASE i = n + 1
          <6>1. i - 1 = n /\ n \in 0 .. n
            BY <5>1, <1>1
          <6>2. QED BY <6>1, <5>1, <3>5
        <5>2. CASE i # n + 1
          <6>1. i \in 1 .. n /\ i \in 0 .. n /\ i - 1 \in 0 .. n
            BY <5>2, <1>1
          <6>2. g[i] = Next1(g[i - 1], i)
            BY <6>1, <3>1 DEF Collects, Next1
          <6>3. QED BY <6>1, <6>2, <3>5
        <5>3. QED BY <5>1, <5>2
      <4>3. QED BY <4>1, <4>2 DEF Collects, Next1
    <3>7. QED BY <3>2, <3>4, <3>6
  <2> HIDE DEF G
  <2>3. QED BY <2>1, <2>2, <1>1, NumbersUpTo
<1>4. PICK g \in [0 .. N -> Seq(S)] : Collects(g, doc, K, N)
  <2>1. N \in 0 .. N
    BY <1>1
  <2>2. QED BY <2>1, <1>3
<1> HIDE DEF N
<1>5. g = Rec(g)
  <2>1. g = [i \in 0 .. N |-> g[i]]
    OBVIOUS
  <2>2. ASSUME NEW i \in 0 .. N
        PROVE  g[i] = IF i = 0 THEN <<>> ELSE Next1(g[i - 1], i)
    <3>1. i = 0 \/ i \in 1 .. N
      BY <1>1
    <3>2. QED BY <3>1, <1>4 DEF Collects
  <2> HIDE DEF Next1
  <2>3. QED BY <2>1, <2>2
<1>6. F = Rec(F)
  <2> HIDE DEF Rec
  <2>1. QED BY <1>5
<1> HIDE DEF F
<1>7. \A i \in 0 .. N : F[i] = IF i = 0 THEN <<>> ELSE Next1(F[i - 1], i)
  BY <1>6
<1>8. Collects(F, doc, K, N)
  <2>1. 0 \in 0 .. N /\ \A i \in 1 .. N : i \in 0 .. N /\ i # 0
    BY <1>1
  <2>2. QED BY <2>1, <1>7 DEF Collects
<1>9. F \in [0 .. N -> Seq(S)]
  <2> DEFINE H == {n \in 0 .. N : F[n] \in Seq(S)}
  <2>1. 0 \in H
    <3>1. 0 \in 0 .. N /\ F[0] = <<>> /\ <<>> \in Seq(S)
      BY <1>1, <1>8, EmptySeq DEF Collects
    <3>2. QED BY <3>1
  <2>2. ASSUME NEW n \in 0 .. N, n \in H, n < N
        PROVE  n + 1 \in H
    <3>1. n + 1 \in 1 .. N /\ n + 1 \in 0 .. N /\ (n + 1) - 1 = n /\ n + 1 # 0
      BY <2>2, <1>1
    <3>2. F[n + 1] = Next1(F[n], n + 1)
      BY <3>1, <1>7
    <3>3. QED BY <2>2, <3>1, <3>2, <1>2
  <2> HIDE DEF H
  <2>3. \A n \in 0 .. N : n \in H
    BY <2>1, <2>2, <1>1, NumbersUpTo
  <2>4. F = [i \in 0 .. N |-> F[i]]
    BY <1>6
  <2>5. QED BY <2>3, <2>4 DEF H
<1>10. OfKinds(doc, K) = F[N]
  BY DEF OfKinds, F, N
<1>11. QED BY <1>8, <1>9, <1>10 DEF N

\* No line has no kind.
LEMMA KindsOfNothing == \A K : OfKinds(<<>>, K) = <<>>
<1> TAKE K
<1>1. <<>> \in Seq({}) /\ Len(<<>>) = 0
  BY EmptySeq
<1>2. PICK g \in [0 .. Len(<<>>) -> Seq({})] :
        Collects(g, <<>>, K, Len(<<>>)) /\ OfKinds(<<>>, K) = g[Len(<<>>)]
  <2>1. <<>> \in Seq({})
    BY <1>1
  <2>2. QED BY <2>1, KindsCollected
<1>3. QED BY <1>1, <1>2 DEF Collects

\* One more line.
LEMMA KindsOfAppend ==
  ASSUME NEW S, NEW doc \in Seq(S), NEW x \in S, NEW K
  PROVE  /\ OfKinds(doc, K) \in Seq(S)
         /\ OfKinds(Append(doc, x), K) =
              IF x.kind \in K THEN Append(OfKinds(doc, K), x) ELSE OfKinds(doc, K)
<1> DEFINE more == Append(doc, x)
           N == Len(doc)
<1>1. /\ N \in Nat /\ more \in Seq(S) /\ Len(more) = N + 1 /\ more[N + 1] = x
      /\ \A i \in 1 .. N : more[i] = doc[i]
  BY LenProperties, AppendProperties
<1>2. PICK g \in [0 .. N -> Seq(S)] : Collects(g, doc, K, N) /\ OfKinds(doc, K) = g[N]
  BY KindsCollected
<1> HIDE DEF more
<1>3. PICK h \in [0 .. (N + 1) -> Seq(S)] :
        Collects(h, more, K, N + 1) /\ OfKinds(more, K) = h[N + 1]
  <2>1. \E h \in [0 .. Len(more) -> Seq(S)] :
          Collects(h, more, K, Len(more)) /\ OfKinds(more, K) = h[Len(more)]
    BY <1>1, KindsCollected
  <2>2. QED BY <2>1, <1>1
<1> HIDE DEF N
<1> DEFINE G == {n \in 0 .. N : h[n] = g[n]}
<1>4. 0 \in G
  BY <1>1, <1>2, <1>3 DEF Collects
<1>5. ASSUME NEW n \in 0 .. N, n \in G, n < N
      PROVE  n + 1 \in G
  <2>1. n + 1 \in 1 .. N /\ n + 1 \in 1 .. (N + 1) /\ n + 1 \in 0 .. N /\ (n + 1) - 1 = n
    BY <1>1, <1>5
  <2>2. g[n + 1] = IF doc[n + 1].kind \in K THEN Append(g[n], doc[n + 1]) ELSE g[n]
    BY <2>1, <1>2 DEF Collects
  <2>3. h[n + 1] = IF more[n + 1].kind \in K THEN Append(h[n], more[n + 1]) ELSE h[n]
    BY <2>1, <1>3 DEF Collects
  <2>4. more[n + 1] = doc[n + 1] /\ h[n] = g[n]
    BY <2>1, <1>1, <1>5
  <2>5. QED BY <2>1, <2>2, <2>3, <2>4
<1> HIDE DEF G
<1>6. \A n \in 0 .. N : n \in G
  BY <1>1, <1>4, <1>5, NumbersUpTo
<1>7. N \in 0 .. N /\ N + 1 \in 1 .. (N + 1) /\ (N + 1) - 1 = N
  BY <1>1
<1>8. h[N] = g[N] /\ g[N] \in Seq(S)
  BY <1>6, <1>7 DEF G
<1>9. h[N + 1] = IF more[N + 1].kind \in K THEN Append(h[N], more[N + 1]) ELSE h[N]
  BY <1>3, <1>7 DEF Collects
<1>10. /\ OfKinds(doc, K) \in Seq(S)
       /\ OfKinds(more, K) = IF x.kind \in K THEN Append(OfKinds(doc, K), x) ELSE OfKinds(doc, K)
  BY <1>1, <1>2, <1>3, <1>8, <1>9
<1>11. QED BY <1>10 DEF more

\* What the lines of some kinds of a document are made of.
LEMMA KindsType ==
  ASSUME NEW S, NEW doc \in Seq(S), NEW K
  PROVE  OfKinds(doc, K) \in Seq(S)
<1>1. PICK g \in [0 .. Len(doc) -> Seq(S)] :
        Collects(g, doc, K, Len(doc)) /\ OfKinds(doc, K) = g[Len(doc)]
  BY KindsCollected
<1>2. Len(doc) \in 0 .. Len(doc)
  BY LenProperties
<1>3. QED BY <1>1, <1>2

\* Appending to the second part appends to the whole.
LEMMA AppendOfConcat ==
  ASSUME NEW S, NEW s \in Seq(S), NEW t \in Seq(S), NEW x \in S
  PROVE  s \o Append(t, x) = Append(s \o t, x)
<1>1. s \o t \in Seq(S) /\ <<x>> \in Seq(S)
  BY ConcatProperties
<1>2. Append(t, x) = t \o <<x>> /\ Append(s \o t, x) = (s \o t) \o <<x>>
  BY <1>1, AppendIsConcat
<1>3. QED BY <1>1, <1>2, ConcatAssociative

\* A document in two parts.
LEMMA KindsOfConcat ==
  ASSUME NEW S, NEW s \in Seq(S), NEW t \in Seq(S), NEW K
  PROVE  OfKinds(s \o t, K) = OfKinds(s, K) \o OfKinds(t, K)
<1> DEFINE G == {u \in Seq(S) : OfKinds(s \o u, K) = OfKinds(s, K) \o OfKinds(u, K)}
<1>1. OfKinds(s, K) \in Seq(S)
  BY KindsType
<1>2. <<>> \in G
  <2>1. <<>> \in Seq(S) /\ s \o <<>> = s /\ OfKinds(s, K) \o <<>> = OfKinds(s, K)
    BY <1>1, EmptySeq, ConcatEmptySeq
  <2>2. QED BY <2>1, KindsOfNothing
<1>3. ASSUME NEW u \in Seq(S), NEW x \in S, u \in G
      PROVE  Append(u, x) \in G
  <2>1. /\ s \o u \in Seq(S) /\ Append(u, x) \in Seq(S)
        /\ s \o Append(u, x) = Append(s \o u, x)
    BY ConcatProperties, AppendProperties, AppendOfConcat
  <2>2. OfKinds(u, K) \in Seq(S)
    BY KindsType
  <2>3. OfKinds(s, K) \o Append(OfKinds(u, K), x) = Append(OfKinds(s, K) \o OfKinds(u, K), x)
    BY <1>1, <2>2, AppendOfConcat
  <2>4. OfKinds(Append(u, x), K) = IF x.kind \in K THEN Append(OfKinds(u, K), x) ELSE OfKinds(u, K)
    BY KindsOfAppend
  <2>5. OfKinds(Append(s \o u, x), K) =
          IF x.kind \in K THEN Append(OfKinds(s \o u, K), x) ELSE OfKinds(s \o u, K)
    <3> DEFINE su == s \o u
    <3>1. su \in Seq(S)
      BY <2>1
    <3> HIDE DEF su
    <3>2. OfKinds(Append(su, x), K) = IF x.kind \in K THEN Append(OfKinds(su, K), x) ELSE OfKinds(su, K)
      BY <3>1, KindsOfAppend
    <3>3. QED BY <3>2 DEF su
  <2>6. OfKinds(s \o u, K) = OfKinds(s, K) \o OfKinds(u, K)
    BY <1>3
  <2>7. OfKinds(s \o Append(u, x), K) = OfKinds(s, K) \o OfKinds(Append(u, x), K)
    <3>1. CASE x.kind \in K
      BY <3>1, <2>1, <2>3, <2>4, <2>5, <2>6
    <3>2. CASE x.kind \notin K
      BY <3>2, <2>1, <2>4, <2>5, <2>6
    <3>3. QED BY <3>1, <3>2
  <2>8. QED BY <2>1, <2>7
<1> HIDE DEF G
<1>4. t \in G
  BY <1>2, <1>3, SequencesByAppending
<1>5. QED BY <1>4 DEF G

\* The same, as a fact about three values.
Adds(K, s, t) == OfKinds(s \o t, K) = OfKinds(s, K) \o OfKinds(t, K)

\* Documents in two parts, of any lines.
LEMMA KindsAdded == \A S : \A s, t \in Seq(S) : \A K : Adds(K, s, t)
BY KindsOfConcat DEF Adds

\* Documents without lines of these kinds have none.
Lacks(doc, K) == \A i \in 1 .. Len(doc) : doc[i].kind \notin K

LEMMA KindsOfOthers ==
  ASSUME NEW S, NEW doc \in Seq(S), NEW K
  PROVE  OfKinds(doc, K) = <<>> <=> Lacks(doc, K)
<1> DEFINE G == {u \in Seq(S) : OfKinds(u, K) = <<>> <=> Lacks(u, K)}
<1>1. <<>> \in G
  <2>1. <<>> \in Seq(S) /\ Len(<<>>) = 0
    BY EmptySeq
  <2>2. Lacks(<<>>, K)
    BY <2>1 DEF Lacks
  <2>3. QED BY <2>1, <2>2, KindsOfNothing
<1>2. ASSUME NEW u \in Seq(S), NEW x \in S, u \in G
      PROVE  Append(u, x) \in G
  <2> DEFINE v == Append(u, x)
  <2>1. /\ v \in Seq(S) /\ Len(v) = Len(u) + 1 /\ v[Len(u) + 1] = x
        /\ \A i \in 1 .. Len(u) : v[i] = u[i]
    BY AppendProperties
  <2>2. Len(u) \in Nat
    BY LenProperties
  <2>3. OfKinds(u, K) \in Seq(S)
    BY KindsType
  <2>4. OfKinds(v, K) = IF x.kind \in K THEN Append(OfKinds(u, K), x) ELSE OfKinds(u, K)
    BY KindsOfAppend
  <2>5. Append(OfKinds(u, K), x) # <<>>
    BY <2>3, AppendProperties
  <2> HIDE DEF v
  <2>6. Lacks(v, K) <=> Lacks(u, K) /\ x.kind \notin K
    <3>1. \A i : i \in 1 .. Len(v) <=> i \in 1 .. Len(u) \/ i = Len(u) + 1
      BY <2>1, <2>2
    <3>2. QED BY <3>1, <2>1 DEF Lacks
  <2>7. v \in G
    BY <1>2, <2>1, <2>4, <2>5, <2>6
  <2>8. QED BY <2>7 DEF v
<1> HIDE DEF G
<1>3. doc \in G
  BY <1>1, <1>2, SequencesByAppending
<1>4. QED BY <1>3 DEF G

\* Taking some kinds first and then fewer takes the fewer.
LEMMA KindsOfKinds ==
  ASSUME NEW S, NEW doc \in Seq(S), NEW K, NEW L, L \subseteq K
  PROVE  OfKinds(OfKinds(doc, K), L) = OfKinds(doc, L)
<1> DEFINE G == {u \in Seq(S) : OfKinds(OfKinds(u, K), L) = OfKinds(u, L)}
<1>1. <<>> \in G
  BY KindsOfNothing, EmptySeq
<1>2. ASSUME NEW u \in Seq(S), NEW x \in S, u \in G
      PROVE  Append(u, x) \in G
  <2>1. OfKinds(u, K) \in Seq(S) /\ Append(u, x) \in Seq(S)
    BY KindsType, AppendProperties
  <2>2. OfKinds(Append(u, x), K) = IF x.kind \in K THEN Append(OfKinds(u, K), x) ELSE OfKinds(u, K)
    BY KindsOfAppend
  <2>3. OfKinds(Append(u, x), L) = IF x.kind \in L THEN Append(OfKinds(u, L), x) ELSE OfKinds(u, L)
    BY KindsOfAppend
  <2>4. OfKinds(Append(OfKinds(u, K), x), L) =
          IF x.kind \in L THEN Append(OfKinds(OfKinds(u, K), L), x) ELSE OfKinds(OfKinds(u, K), L)
    BY <2>1, KindsOfAppend
  <2>5. OfKinds(OfKinds(u, K), L) = OfKinds(u, L)
    BY <1>2
  <2>6. OfKinds(OfKinds(Append(u, x), K), L) = OfKinds(Append(u, x), L)
    <3>1. CASE x.kind \in K
      BY <3>1, <2>2, <2>3, <2>4, <2>5
    <3>2. CASE x.kind \notin K
      BY <3>2, <2>2, <2>3, <2>5
    <3>3. QED BY <3>1, <3>2
  <2>7. QED BY <2>1, <2>6
<1> HIDE DEF G
<1>3. doc \in G
  BY <1>1, <1>2, SequencesByAppending
<1>4. QED BY <1>3 DEF G

-----------------------------------------------------------------------------
(***************************************************************************)
(* Replacing a text by another, as String.replace does.                    *)
(***************************************************************************)
Occurs(doc, text, i) ==
  /\ i \in 1 .. Len(doc) /\ i + Len(text) - 1 <= Len(doc)
  /\ \A j \in 1 .. Len(text) : doc[i + j - 1] = text[j]

\* SubSeqs holds the texts that occur.
LEMMA SubSeqsOccur ==
  ASSUME NEW S, NEW doc \in Seq(S), NEW text \in Seq(S), text # <<>>
  PROVE  text \in SubSeqs(doc) <=> \E i \in 1 .. Len(doc) : Occurs(doc, text, i)
<1> DEFINE N == Len(doc)
           n == Len(text)
<1>1. N \in Nat /\ n \in Nat \ {0} /\ \A i \in 1 .. N : doc[i] \in S
  BY LenProperties, EmptySeq, ElementOfSeq
<1> HIDE DEF N, n
<1>2. ASSUME NEW i \in 0 .. N, NEW j \in 0 .. N, text = SubSeq(doc, i + 1, j)
      PROVE  \E k \in 1 .. Len(doc) : Occurs(doc, text, k)
  <2> DEFINE a == i + 1
  <2>1. a \in Int /\ j \in Int /\ \A k \in a .. j : doc[k] \in S
    BY <1>1
  <2> HIDE DEF a
  <2>2. /\ Len(text) = IF a <= j THEN j - a + 1 ELSE 0
        /\ \A k \in 1 .. (j - a + 1) : text[k] = doc[a + k - 1]
    BY <2>1, <1>2, SubSeqProperties DEF a
  <2>3. a <= j /\ n = j - a + 1
    BY <2>1, <2>2, <1>1 DEF n
  <2>4. a \in 1 .. Len(doc) /\ a + Len(text) - 1 <= Len(doc)
    BY <2>1, <2>3, <1>1 DEF a, n, N
  <2>5. \A k \in 1 .. Len(text) : doc[a + k - 1] = text[k]
    BY <2>2, <2>3 DEF n
  <2>6. Occurs(doc, text, a)
    BY <2>4, <2>5 DEF Occurs
  <2>7. QED BY <2>4, <2>6
<1>3. ASSUME NEW i \in 1 .. N, Occurs(doc, text, i)
      PROVE  text \in SubSeqs(doc)
  <2> DEFINE b == i + n - 1
  <2>1. i \in Int /\ b \in Int /\ i <= b /\ b - i + 1 = n /\ b <= N
    BY <1>1, <1>3 DEF Occurs, n, N
  <2> HIDE DEF b
  <2>2. \A k \in i .. b : doc[k] \in S
    BY <2>1, <1>1
  <2>3. /\ SubSeq(doc, i, b) \in Seq(S)
        /\ Len(SubSeq(doc, i, b)) = n
        /\ \A k \in 1 .. n : SubSeq(doc, i, b)[k] = doc[i + k - 1]
    <3>1. /\ SubSeq(doc, i, b) \in Seq(S)
          /\ Len(SubSeq(doc, i, b)) = IF i <= b THEN b - i + 1 ELSE 0
          /\ \A k \in 1 .. (b - i + 1) : SubSeq(doc, i, b)[k] = doc[i + k - 1]
      BY <2>1, <2>2, SubSeqProperties
    <3>2. QED BY <3>1, <2>1
  <2> DEFINE t == SubSeq(doc, i, b)
  <2>4. t \in Seq(S) /\ Len(t) = Len(text) /\ \A k \in 1 .. Len(t) : t[k] = text[k]
    BY <2>3, <1>3 DEF Occurs, n
  <2> HIDE DEF t
  <2>5. t = text
    BY <2>4, SeqEqual
  <2>6. i - 1 \in 0 .. Len(doc) /\ b \in 0 .. Len(doc) /\ (i - 1) + 1 = i
    BY <2>1, <1>1 DEF N
  <2> DEFINE a == i - 1
  <2>7. a \in 0 .. Len(doc) /\ text = SubSeq(doc, a + 1, b)
    BY <2>5, <2>6 DEF t
  <2> HIDE DEF a
  <2>8. QED BY <2>6, <2>7 DEF SubSeqs
<1>4. text \in SubSeqs(doc) => \E k \in 1 .. Len(doc) : Occurs(doc, text, k)
  BY <1>2 DEF SubSeqs, N
<1>5. QED BY <1>3, <1>4 DEF N

\* The first m lines hold a text if it occurs and ends there.
LEMMA PrefixOccurs ==
  ASSUME NEW S, NEW doc \in Seq(S), NEW text \in Seq(S), text # <<>>, NEW m \in 0 .. Len(doc)
  PROVE  text \in SubSeqs(SubSeq(doc, 1, m)) <=>
           \E i \in 1 .. Len(doc) : Occurs(doc, text, i) /\ i + Len(text) - 1 <= m
<1> DEFINE d == SubSeq(doc, 1, m)
<1>1. Len(doc) \in Nat /\ m \in Nat /\ m <= Len(doc) /\ Len(text) \in Nat \ {0}
  BY LenProperties, EmptySeq
<1>2. d \in Seq(S) /\ Len(d) = m /\ \A i \in 1 .. m : d[i] = doc[i]
  <2>1. 1 \in Int /\ m \in Int /\ \A i \in 1 .. m : doc[i] \in S
    BY <1>1, ElementOfSeq
  <2>2. /\ d \in Seq(S) /\ Len(d) = IF 1 <= m THEN m - 1 + 1 ELSE 0
        /\ \A i \in 1 .. (m - 1 + 1) : d[i] = doc[1 + i - 1]
    BY <2>1, SubSeqProperties
  <2>3. m - 1 + 1 = m /\ (m = 0 \/ 1 <= m) /\ \A i \in 1 .. m : 1 + i - 1 = i
    BY <1>1
  <2> HIDE DEF d
  <2>4. QED BY <2>2, <2>3, <1>1
<1> HIDE DEF d
<1>3. text \in SubSeqs(d) <=> \E i \in 1 .. Len(d) : Occurs(d, text, i)
  BY <1>2, SubSeqsOccur
<1>4. ASSUME NEW i \in 1 .. Len(doc)
      PROVE  i \in 1 .. m /\ Occurs(d, text, i) <=> Occurs(doc, text, i) /\ i + Len(text) - 1 <= m
  <2>1. i + Len(text) - 1 <= m => i \in 1 .. m
    BY <1>1
  <2>2. ASSUME i + Len(text) - 1 <= m
        PROVE  \A j \in 1 .. Len(text) : i + j - 1 \in 1 .. m
    BY <1>1, <2>2
  <2>3. CASE i + Len(text) - 1 <= m
    <3>1. \A j \in 1 .. Len(text) : d[i + j - 1] = doc[i + j - 1]
      BY <2>2, <2>3, <1>2
    <3>2. i \in 1 .. Len(d) /\ i + Len(text) - 1 <= Len(d) /\ i + Len(text) - 1 <= Len(doc)
      BY <2>1, <2>3, <1>1, <1>2
    <3>3. QED BY <3>1, <3>2, <2>1, <2>3 DEF Occurs
  <2>4. CASE ~(i + Len(text) - 1 <= m)
    BY <2>4, <1>2 DEF Occurs
  <2>5. QED BY <2>3, <2>4
<1>5. \A i \in 1 .. Len(d) : i \in 1 .. Len(doc) /\ i \in 1 .. m
  BY <1>1, <1>2
<1>6. QED BY <1>2, <1>3, <1>4, <1>5 DEF d

\* The first occurrence gives way to the other text, if there is one.
LEMMA FirstGivesWay ==
  ASSUME NEW S, NEW doc \in Seq(S), NEW text \in Seq(S), text # <<>>, NEW by \in Seq(S)
  PROVE  /\ (\A i \in 1 .. Len(doc) : ~Occurs(doc, text, i)) => ReplaceFirstSubSeq(by, text, doc) = doc
         /\ \A i \in 1 .. Len(doc) :
              Occurs(doc, text, i) /\ (\A k \in 1 .. (i - 1) : ~Occurs(doc, text, k)) =>
                ReplaceFirstSubSeq(by, text, doc) =
                  SubSeq(doc, 1, i - 1) \o by \o SubSeq(doc, i + Len(text), Len(doc))
<1> DEFINE N == Len(doc)
           n == Len(text)
           In(m) == text \in SubSeqs(SubSeq(doc, 1, m))
<1>1. N \in Nat /\ n \in Nat \ {0}
  BY LenProperties, EmptySeq
<1>2. text \in SubSeqs(doc) <=> \E i \in 1 .. N : Occurs(doc, text, i)
  BY SubSeqsOccur
<1>3. \A m \in 0 .. N : In(m) <=> \E i \in 1 .. N : Occurs(doc, text, i) /\ i + n - 1 <= m
  BY PrefixOccurs
<1>4. (\A i \in 1 .. N : ~Occurs(doc, text, i)) => ReplaceFirstSubSeq(by, text, doc) = doc
  BY <1>2 DEF ReplaceFirstSubSeq
<1>5. ASSUME NEW i \in 1 .. N, Occurs(doc, text, i), \A k \in 1 .. (i - 1) : ~Occurs(doc, text, k)
      PROVE  ReplaceFirstSubSeq(by, text, doc) =
               SubSeq(doc, 1, i - 1) \o by \o SubSeq(doc, i + n, N)
  <2> DEFINE e == i + n - 1
  <2>1. e \in 0 .. N /\ e - (n - 1) = i
    BY <1>1, <1>5 DEF Occurs
  <2>2. \A k \in 1 .. N : Occurs(doc, text, k) => i <= k
    BY <1>1, <1>5
  <2> HIDE DEF In, N, n
  <2>3. In(e)
    BY <2>1, <1>3, <1>5
  <2>4. \A m \in 0 .. N : In(m) => e <= m
    <3> TAKE m \in 0 .. N
    <3> HAVE In(m)
    <3>1. PICK k \in 1 .. N : Occurs(doc, text, k) /\ k + n - 1 <= m
      BY <1>3
    <3>2. i <= k
      BY <3>1, <2>2
    <3>3. QED BY <3>1, <3>2, <1>1
  <2> HIDE DEF e
  <2>5. \A j \in 0 .. (e - 1) : ~In(j)
    <3> TAKE j \in 0 .. (e - 1)
    <3>1. j \in 0 .. N /\ ~(e <= j)
      BY <2>1, <1>1
    <3>2. QED BY <3>1, <2>4
  <2>6. \A m \in 0 .. N : In(m) /\ (\A j \in 0 .. (m - 1) : ~In(j)) => m = e
    <3> TAKE m \in 0 .. N
    <3> HAVE In(m) /\ \A j \in 0 .. (m - 1) : ~In(j)
    <3>1. e <= m
      BY <2>4
    <3>2. ~(e \in 0 .. (m - 1))
      BY <2>3
    <3>3. QED BY <3>1, <3>2, <2>1, <1>1
  <2>7. (CHOOSE m \in 0 .. N : In(m) /\ \A j \in 0 .. (m - 1) : ~In(j)) = e
    BY <2>1, <2>3, <2>5, <2>6
  <2>8. IndexFirstSubSeq(text, doc) = e - (n - 1)
    BY <2>7 DEF IndexFirstSubSeq, In, N, n
  <2>9. text \in SubSeqs(doc)
    BY <1>2, <1>5
  <2>10. ReplaceFirstSubSeq(by, text, doc) = ReplaceSubSeqAt(i, by, text, doc)
    BY <2>1, <2>8, <2>9 DEF ReplaceFirstSubSeq
  <2>11. QED BY <2>10 DEF ReplaceSubSeqAt, N, n
<1>6. QED BY <1>4, <1>5

\* A text whose first line is not before it.
LEMMA ReplacedInMiddle ==
  ASSUME NEW S, NEW p \in Seq(S), NEW r \in Seq(S), NEW text \in Seq(S), text # <<>>,
         NEW by \in Seq(S), ~Contains(p, text[1])
  PROVE  ReplaceFirstSubSeq(by, text, p \o text \o r) = p \o by \o r
<1> DEFINE q == text \o r
           doc == p \o q
           i == Len(p) + 1
           n == Len(text)
<1>1. q \in Seq(S) /\ doc \in Seq(S) /\ doc = p \o text \o r
  <2>1. q \in Seq(S)
    BY ConcatProperties
  <2>2. p \o text \o r = p \o (text \o r)
    BY ConcatAssociative
  <2>3. doc \in Seq(S)
    <3> HIDE DEF q
    <3>1. QED BY <2>1, ConcatProperties
  <2>4. QED BY <2>1, <2>2, <2>3
<1>2. Len(p) \in Nat /\ n \in Nat \ {0} /\ Len(r) \in Nat
  BY LenProperties, EmptySeq
<1>3. /\ Len(q) = n + Len(r)
      /\ \A j \in 1 .. n : q[j] = text[j]
      /\ \A j \in 1 .. Len(r) : q[n + j] = r[j]
  <2>1. /\ Len(q) = n + Len(r)
        /\ \A j \in 1 .. (n + Len(r)) : q[j] = IF j <= n THEN text[j] ELSE r[j - n]
    BY ConcatProperties
  <2> HIDE DEF q, n
  <2>2. \A j \in 1 .. Len(r) : n + j \in 1 .. (n + Len(r)) /\ ~(n + j <= n) /\ (n + j) - n = j
    BY <1>2
  <2>3. \A j \in 1 .. n : j \in 1 .. (n + Len(r)) /\ j <= n
    BY <1>2
  <2>4. QED BY <2>1, <2>2, <2>3
<1> HIDE DEF q
<1>4. /\ Len(doc) = Len(p) + n + Len(r)
      /\ \A j \in 1 .. Len(p) : doc[j] = p[j]
      /\ \A j \in 1 .. Len(q) : doc[Len(p) + j] = q[j]
  <2>1. /\ Len(doc) = Len(p) + Len(q)
        /\ \A j \in 1 .. (Len(p) + Len(q)) : doc[j] = IF j <= Len(p) THEN p[j] ELSE q[j - Len(p)]
    BY <1>1, ConcatProperties
  <2> HIDE DEF doc
  <2>2. Len(q) \in Nat
    BY <1>1, LenProperties
  <2>3. \A j \in 1 .. Len(q) :
          /\ Len(p) + j \in 1 .. (Len(p) + Len(q)) /\ ~(Len(p) + j <= Len(p))
          /\ (Len(p) + j) - Len(p) = j
    BY <1>2, <2>2
  <2>4. \A j \in 1 .. Len(p) : j \in 1 .. (Len(p) + Len(q)) /\ j <= Len(p)
    BY <1>2, <2>2
  <2>5. Len(doc) = Len(p) + n + Len(r)
    BY <2>1, <1>2, <1>3
  <2>6. QED BY <2>1, <2>3, <2>4, <2>5
<1>5. SubSeq(doc, 1, i - 1) = p
  <2>1. CASE p = <<>>
    <3>1. 1 \in Int /\ i - 1 \in Int /\ i - 1 < 1
      BY <2>1, <1>2
    <3>2. SubSeq(doc, 1, i - 1) = <<>>
      BY <3>1, SubSeqEmpty
    <3>3. QED BY <3>2, <2>1
  <2>2. CASE p # <<>>
    <3>1. 1 \in 1 .. Len(p) /\ Len(p) \in 1 .. Len(p) /\ i - 1 = Len(p)
      BY <2>2, <1>2, EmptySeq
    <3>2. SubSeq(doc, 1, i - 1) = SubSeq(p, 1, Len(p))
      BY <3>1, <1>1, SubSeqOfConcat1
    <3>3. QED BY <3>2, SubSeqFull
  <2>3. QED BY <2>1, <2>2
<1> HIDE DEF doc
<1>6. SubSeq(doc, i + n, Len(doc)) = r
  <2> DEFINE a == i + n
             b == Len(doc)
             t == SubSeq(doc, a, b)
  <2>1. a \in Int /\ b \in Int /\ a \in 1 .. (b + 1) /\ b - a + 1 = Len(r)
    BY <1>2, <1>4
  <2>2. \A k \in a .. b : doc[k] \in S
    <3>1. \A k \in a .. b : k \in 1 .. Len(doc)
      BY <2>1
    <3>2. QED BY <3>1, <1>1, ElementOfSeq
  <2>3. \A k \in 1 .. Len(r) : doc[a + k - 1] = r[k]
    <3> TAKE k \in 1 .. Len(r)
    <3>1. a + k - 1 = Len(p) + (n + k) /\ n + k \in 1 .. Len(q)
      BY <1>2, <1>3
    <3>2. QED BY <3>1, <1>3, <1>4
  <2> HIDE DEF a, b
  <2>4. /\ t \in Seq(S) /\ Len(t) = IF a <= b THEN b - a + 1 ELSE 0
        /\ \A k \in 1 .. (b - a + 1) : t[k] = doc[a + k - 1]
    BY <2>1, <2>2, SubSeqProperties
  <2> HIDE DEF t
  <2>5. Len(t) = Len(r) /\ \A k \in 1 .. Len(t) : t[k] = r[k]
    <3>1. a <= b \/ Len(r) = 0
      BY <2>1, <1>2
    <3>2. QED BY <3>1, <2>1, <2>3, <2>4
  <2>6. t = r
    BY <2>4, <2>5, SeqEqual
  <2>7. QED BY <2>6 DEF t, a, b
<1>7. i \in 1 .. Len(doc) /\ Occurs(doc, text, i)
  <2>1. i \in 1 .. Len(doc) /\ i + n - 1 <= Len(doc)
    BY <1>2, <1>4
  <2>2. ASSUME NEW j \in 1 .. n
        PROVE  doc[i + j - 1] = text[j]
    <3>1. i + j - 1 = Len(p) + j /\ j \in 1 .. Len(q)
      BY <1>2, <1>3
    <3>2. QED BY <3>1, <1>3, <1>4
  <2>3. QED BY <2>1, <2>2 DEF Occurs
<1>8. \A k \in 1 .. (i - 1) : ~Occurs(doc, text, k)
  <2> TAKE k \in 1 .. (i - 1)
  <2>1. k \in 1 .. Len(p) /\ k + 1 - 1 = k /\ 1 \in 1 .. n
    BY <1>2
  <2>2. doc[k] # text[1]
    BY <2>1, <1>4 DEF Contains
  <2>3. QED BY <2>1, <2>2 DEF Occurs
<1>9. ReplaceFirstSubSeq(by, text, doc) = p \o by \o r
  <2>1. ReplaceFirstSubSeq(by, text, doc) =
          SubSeq(doc, 1, i - 1) \o by \o SubSeq(doc, i + Len(text), Len(doc))
    <3> HIDE DEF i
    <3>1. doc \in Seq(S)
      BY <1>1
    <3>2. QED BY <3>1, <1>7, <1>8, FirstGivesWay
  <2>2. QED BY <2>1, <1>5, <1>6
<1>10. QED BY <1>1, <1>9

\* The document around an occurrence.
LEMMA OccurrenceSplits ==
  ASSUME NEW S, NEW doc \in Seq(S), NEW text \in Seq(S), text # <<>>,
         NEW i \in 1 .. Len(doc), Occurs(doc, text, i)
  PROVE  /\ SubSeq(doc, 1, i - 1) \in Seq(S) /\ SubSeq(doc, i + Len(text), Len(doc)) \in Seq(S)
         /\ doc = SubSeq(doc, 1, i - 1) \o text \o SubSeq(doc, i + Len(text), Len(doc))
<1> DEFINE N == Len(doc)
           n == Len(text)
           e == i + n - 1
           t == SubSeq(doc, i, e)
<1>1. N \in Nat /\ n \in Nat \ {0} /\ \A k \in 1 .. N : doc[k] \in S
  BY LenProperties, EmptySeq, ElementOfSeq
<1>2. e \in i .. N /\ e - i + 1 = n /\ e + 1 = i + n
  BY <1>1 DEF Occurs
<1>3. \A k \in 1 .. n : doc[i + k - 1] = text[k]
  BY DEF Occurs
<1> HIDE DEF e, n, N
<1>4. t = text
  <2>1. i \in Int /\ e \in Int /\ i <= e /\ \A k \in i .. e : doc[k] \in S
    BY <1>1, <1>2 DEF N
  <2>2. /\ t \in Seq(S) /\ Len(t) = IF i <= e THEN e - i + 1 ELSE 0
        /\ \A k \in 1 .. (e - i + 1) : t[k] = doc[i + k - 1]
    BY <2>1, SubSeqProperties
  <2> HIDE DEF t
  <2>3. Len(t) = Len(text) /\ \A k \in 1 .. Len(t) : t[k] = text[k]
    BY <2>1, <2>2, <1>2, <1>3 DEF n
  <2>4. QED BY <2>2, <2>3, SeqEqual
<1>5. SubSeq(doc, 1, i - 1) \in Seq(S) /\ SubSeq(doc, i + n, N) \in Seq(S)
  <2>1. \A k \in 1 .. (i - 1) : doc[k] \in S
    BY <1>1 DEF N
  <2>2. \A k \in (i + n) .. N : doc[k] \in S
    BY <1>1 DEF N
  <2> DEFINE a == i - 1
             b == i + n
  <2>3. 1 \in Int /\ a \in Int /\ b \in Int /\ N \in Int
    BY <1>1
  <2> HIDE DEF a, b
  <2>4. SubSeq(doc, 1, a) \in Seq(S) /\ SubSeq(doc, b, N) \in Seq(S)
    BY <2>1, <2>2, <2>3, SubSeqProperties DEF a, b
  <2>5. QED BY <2>4 DEF a, b
<1>6. doc = SubSeq(doc, 1, i - 1) \o t \o SubSeq(doc, i + n, N)
  <2> DEFINE a == i - 1
  <2>1. a + 1 = i
    OBVIOUS
  <2>2. 1 \in 1 .. (Len(doc) + 1) /\ a \in (1 - 1) .. Len(doc) /\ e \in a .. Len(doc)
        /\ e \in (1 - 1) .. Len(doc) /\ N \in e .. Len(doc)
    BY <1>1, <1>2 DEF N
  <2> HIDE DEF a
  <2>3. SubSeq(doc, 1, a) \o SubSeq(doc, a + 1, e) = SubSeq(doc, 1, e)
    BY <2>2, ConcatAdjacentSubSeq
  <2>4. SubSeq(doc, 1, e) \o SubSeq(doc, e + 1, N) = SubSeq(doc, 1, N)
    BY <2>2, ConcatAdjacentSubSeq
  <2>5. SubSeq(doc, 1, N) = doc
    BY SubSeqFull DEF N
  <2>6. SubSeq(doc, 1, a) \o t = SubSeq(doc, 1, e)
    BY <2>1, <2>3
  <2>7. QED BY <2>4, <2>5, <2>6, <1>2 DEF a
<1>7. QED BY <1>4, <1>5, <1>6 DEF n, N

\* A replacement of lines that are not of the kinds keeps the lines of these kinds.
LEMMA ReplacedKinds ==
  ASSUME NEW S, NEW doc \in Seq(S), NEW text \in Seq(S), text # <<>>, NEW by \in Seq(S)
  PROVE  /\ ReplaceFirstSubSeq(by, text, doc) \in Seq(S)
         /\ \A K : OfKinds(text, K) = OfKinds(by, K) =>
                     OfKinds(ReplaceFirstSubSeq(by, text, doc), K) = OfKinds(doc, K)
<1> DEFINE B == {i \in 1 .. Len(doc) : Occurs(doc, text, i)}
<1>1. CASE B = {}
  <2>1. ReplaceFirstSubSeq(by, text, doc) = doc
    BY <1>1, FirstGivesWay
  <2>2. QED BY <2>1
<1>2. CASE B # {}
  <2>1. B \in SUBSET Nat
    OBVIOUS
  <2> HIDE DEF B
  <2>2. PICK i \in B : \A j \in B : i <= j
    BY <1>2, <2>1, LeastNumber
  <2>3. i \in 1 .. Len(doc) /\ Occurs(doc, text, i) /\ \A k \in 1 .. (i - 1) : ~Occurs(doc, text, k)
    <3>1. i \in 1 .. Len(doc) /\ Occurs(doc, text, i)
      BY <2>2 DEF B
    <3>2. \A k \in 1 .. (i - 1) : k \in 1 .. Len(doc) /\ ~(i <= k)
      BY <3>1, LenProperties
    <3>3. QED BY <3>1, <3>2, <2>2 DEF B
  <2> DEFINE a == SubSeq(doc, 1, i - 1)
             b == SubSeq(doc, i + Len(text), Len(doc))
  <2>4. a \in Seq(S) /\ b \in Seq(S) /\ doc = a \o text \o b
    BY <2>3, OccurrenceSplits
  <2>5. ReplaceFirstSubSeq(by, text, doc) = a \o by \o b
    BY <2>3, FirstGivesWay
  <2> HIDE DEF a, b
  <2>12. a \in Seq(S)
    BY <2>4
  <2>13. b \in Seq(S)
    BY <2>4
  <2>6. ASSUME NEW u \in Seq(S), NEW K
        PROVE  a \o u \o b \in Seq(S)
               /\ OfKinds(a \o u \o b, K) = OfKinds(a, K) \o OfKinds(u, K) \o OfKinds(b, K)
    <3> DEFINE au == a \o u
    <3>1. au \in Seq(S)
      BY <2>12, ConcatProperties
    <3>2. Adds(K, a, u)
      BY <2>12, KindsAdded
    <3>3. OfKinds(au, K) = OfKinds(a, K) \o OfKinds(u, K)
      BY <3>2 DEF Adds
    <3> HIDE DEF au
    <3>4. au \o b \in Seq(S)
      BY <3>1, <2>13, ConcatProperties
    <3>5. Adds(K, au, b)
      BY <3>1, <2>13, KindsAdded
    <3>6. OfKinds(au \o b, K) = OfKinds(au, K) \o OfKinds(b, K)
      BY <3>5 DEF Adds
    <3>7. QED BY <3>3, <3>4, <3>6 DEF au
  <2>7. a \o by \o b \in Seq(S)
    BY <2>6
  <2>8. ASSUME NEW K, OfKinds(text, K) = OfKinds(by, K)
        PROVE  OfKinds(a \o by \o b, K) = OfKinds(doc, K)
    <3>1. OfKinds(a \o by \o b, K) = OfKinds(a, K) \o OfKinds(by, K) \o OfKinds(b, K)
      BY <2>6
    <3>2. OfKinds(a \o text \o b, K) = OfKinds(a, K) \o OfKinds(text, K) \o OfKinds(b, K)
      BY <2>6
    <3>3. QED BY <3>1, <3>2, <2>4, <2>8
  <2>9. QED BY <2>5, <2>7, <2>8
<1>3. QED BY <1>1, <1>2

\* The lines of some kinds of one line.
LEMMA KindsOfLine ==
  ASSUME NEW S, NEW l \in S, NEW K
  PROVE  OfKinds(<<l>>, K) = IF l.kind \in K THEN <<l>> ELSE <<>>
<1>1. <<>> \in Seq(S) /\ Append(<<>>, l) = <<l>>
  BY EmptySeq
<1> DEFINE e == <<>>
<1>2. e \in Seq(S)
  BY <1>1
<1> HIDE DEF e
<1>3. OfKinds(Append(e, l), K) = IF l.kind \in K THEN Append(OfKinds(e, K), l) ELSE OfKinds(e, K)
  BY <1>2, KindsOfAppend
<1>4. OfKinds(e, K) = <<>> /\ Append(e, l) = <<l>>
  BY <1>1, KindsOfNothing DEF e
<1>5. QED BY <1>1, <1>3, <1>4

\* A line is in one part or in the other.
LEMMA ContainsConcat ==
  ASSUME NEW S, NEW s \in Seq(S), NEW t \in Seq(S), NEW l
  PROVE  Contains(s \o t, l) <=> Contains(s, l) \/ Contains(t, l)
<1> DEFINE u == s \o t
<1>1. /\ Len(u) = Len(s) + Len(t)
      /\ \A i \in 1 .. (Len(s) + Len(t)) : u[i] = IF i <= Len(s) THEN s[i] ELSE t[i - Len(s)]
  BY ConcatProperties
<1>2. Len(s) \in Nat /\ Len(t) \in Nat
  BY LenProperties
<1> HIDE DEF u
<1>3. \A i \in 1 .. Len(s) : i \in 1 .. Len(u) /\ u[i] = s[i]
  BY <1>1, <1>2
<1>4. \A i \in 1 .. Len(t) : Len(s) + i \in 1 .. Len(u) /\ u[Len(s) + i] = t[i]
  <2> TAKE i \in 1 .. Len(t)
  <2>1. Len(s) + i \in 1 .. (Len(s) + Len(t)) /\ ~(Len(s) + i <= Len(s)) /\ (Len(s) + i) - Len(s) = i
    BY <1>2
  <2>2. QED BY <2>1, <1>1
<1>5. \A i \in 1 .. Len(u) : i \in 1 .. Len(s) \/ i - Len(s) \in 1 .. Len(t)
  BY <1>1, <1>2
<1>6. ASSUME NEW i \in 1 .. Len(u), u[i] = l
      PROVE  Contains(s, l) \/ Contains(t, l)
  <2>1. CASE i \in 1 .. Len(s)
    BY <2>1, <1>3, <1>6 DEF Contains
  <2>2. CASE i - Len(s) \in 1 .. Len(t)
    <3>1. Len(s) + (i - Len(s)) = i
      BY <1>2
    <3>2. t[i - Len(s)] = l
      BY <3>1, <2>2, <1>4, <1>6
    <3>3. QED BY <3>2, <2>2 DEF Contains
  <2>3. QED BY <2>1, <2>2, <1>5
<1>7. Contains(u, l) <=> Contains(s, l) \/ Contains(t, l)
  BY <1>3, <1>4, <1>6 DEF Contains
<1>8. QED BY <1>7 DEF u

\* One line contains itself.
LEMMA ContainsLine == \A x, l : Contains(<<x>>, l) <=> x = l
<1> TAKE x, l
<1>1. Len(<<x>>) = 1 /\ <<x>>[1] = x
  OBVIOUS
<1>2. QED BY <1>1 DEF Contains

\* The first line of a kind.
LEMMA FirstOfKind ==
  ASSUME NEW S, NEW doc \in Seq(S), NEW kind
  PROVE  \/ FirstOf(doc, kind) = 0 /\ Lacks(doc, {kind})
         \/ /\ FirstOf(doc, kind) \in 1 .. Len(doc) /\ doc[FirstOf(doc, kind)].kind = kind
            /\ ~Lacks(doc, {kind})
<1> DEFINE I == {i \in 1 .. Len(doc) : doc[i].kind = kind}
<1>1. FirstOf(doc, kind) = IF I # {} THEN Min(I) ELSE 0
  BY DEF FirstOf, SelectInSeq
<1>2. CASE I = {}
  BY <1>1, <1>2 DEF Lacks
<1>3. CASE I # {}
  <2>1. I \in SUBSET Nat
    OBVIOUS
  <2> HIDE DEF I
  <2>2. PICK m \in I : \A j \in I : m <= j
    BY <1>3, <2>1, LeastNumber
  <2>3. Min(I) \in I
    BY <2>2 DEF Min
  <2>4. QED BY <1>1, <1>3, <2>3 DEF I, Lacks
<1>4. QED BY <1>2, <1>3

\* A document has a table of the profiler if it has lines of that kind.
LEMMA HasBlockIsKind ==
  ASSUME NEW S, NEW doc \in Seq(S)
  PROVE  HasBlock(doc) <=> OfKinds(doc, {"block"}) # <<>>
<1>1. HasBlock(doc) <=> ~Lacks(doc, {"block"})
  <2>1. \A i \in 1 .. Len(doc) : i # 0
    OBVIOUS
  <2>2. QED BY <2>1, FirstOfKind DEF HasBlock
<1>2. QED BY <1>1, KindsOfOthers

-----------------------------------------------------------------------------
(***************************************************************************)
(* Documents made of parts.  The proofs below never look into Join.        *)
(***************************************************************************)
Join(s, t) == s \o t

\* The whole has the lines of its parts.
LEMMA JoinType == \A S : \A s, t \in Seq(S) : Join(s, t) \in Seq(S)
BY ConcatProperties DEF Join

\* Where the parts are divided does not matter.
LEMMA JoinAssociative ==
  \A S : \A s, t, u \in Seq(S) : Join(Join(s, t), u) = Join(s, Join(t, u))
BY ConcatAssociative DEF Join

\* A part without lines.
LEMMA JoinNothing == \A S : \A s \in Seq(S) : Join(s, <<>>) = s /\ Join(<<>>, s) = s
BY ConcatEmptySeq DEF Join

\* The lines of some kinds are those of the parts.
LEMMA JoinKinds ==
  \A S : \A s, t \in Seq(S) : \A K : OfKinds(Join(s, t), K) = Join(OfKinds(s, K), OfKinds(t, K))
<1> TAKE S
<1> TAKE s, t \in Seq(S)
<1> TAKE K
<1>1. Adds(K, s, t)
  BY KindsAdded
<1>2. QED BY <1>1 DEF Adds, Join

\* A line of the whole is a line of a part.
LEMMA JoinContains ==
  \A S : \A s, t \in Seq(S) : \A l : Contains(Join(s, t), l) <=> Contains(s, l) \/ Contains(t, l)
<1> TAKE S
<1> TAKE s, t \in Seq(S)
<1> TAKE l
<1>1. Contains(s \o t, l) <=> Contains(s, l) \/ Contains(t, l)
  BY ContainsConcat
<1>2. QED BY <1>1 DEF Join

\* A text whose first line is not before it gives way.
LEMMA JoinReplaced ==
  ASSUME NEW S, NEW p \in Seq(S), NEW r \in Seq(S), NEW text \in Seq(S), text # <<>>,
         NEW by \in Seq(S), ~Contains(p, text[1])
  PROVE  ReplaceFirstSubSeq(by, text, Join(p, Join(text, r))) = Join(p, Join(by, r))
<1>1. ReplaceFirstSubSeq(by, text, p \o text \o r) = p \o by \o r
  BY ReplacedInMiddle
<1>2. Join(Join(p, text), r) = Join(p, Join(text, r))
  BY JoinAssociative
<1>3. Join(Join(p, by), r) = Join(p, Join(by, r))
  BY JoinAssociative
<1>4. ReplaceFirstSubSeq(by, text, Join(Join(p, text), r)) = Join(Join(p, by), r)
  BY <1>1 DEF Join
<1>5. QED BY <1>2, <1>3, <1>4

\* Lines joined to one.
LEMMA LinesJoined ==
  \A a, b, c : Join(<<a>>, <<b>>) = <<a, b>> /\ Join(<<a>>, <<b, c>>) = <<a, b, c>>
<1> TAKE a, b, c
<1>1. ASSUME NEW S, NEW s \in Seq(S), NEW t \in Seq(S), NEW u \in Seq(S), Len(s) = 1,
             Len(u) = Len(t) + 1, s[1] = u[1],
             \A i \in 1 .. Len(t) : t[i] = u[i + 1]
      PROVE  Join(s, t) = u
  <2> DEFINE v == s \o t
  <2>1. /\ v \in Seq(S) /\ Len(v) = Len(s) + Len(t)
        /\ \A i \in 1 .. (Len(s) + Len(t)) : v[i] = IF i <= Len(s) THEN s[i] ELSE t[i - Len(s)]
    BY ConcatProperties
  <2>2. Len(t) \in Nat
    BY LenProperties
  <2> HIDE DEF v
  <2>3. ASSUME NEW i \in 1 .. Len(v) PROVE v[i] = u[i]
    <3>1. CASE i = 1
      BY <3>1, <1>1, <2>1, <2>2
    <3>2. CASE i # 1
      <4>1. i - 1 \in 1 .. Len(t) /\ (i - 1) + 1 = i /\ v[i] = t[i - 1]
        BY <3>2, <1>1, <2>1, <2>2
      <4>2. QED BY <4>1, <1>1
    <3>3. QED BY <3>1, <3>2
  <2>4. v = u
    BY <1>1, <2>1, <2>2, <2>3, SeqEqual
  <2>5. QED BY <2>4 DEF v, Join
<1> DEFINE S == {a, b, c}
           s == <<a>>
           t == <<b>>
           u == <<a, b>>
           v == <<b, c>>
           w == <<a, b, c>>
<1>2. s \in Seq(S) /\ t \in Seq(S) /\ u \in Seq(S) /\ v \in Seq(S) /\ w \in Seq(S)
  OBVIOUS
<1>3. /\ Len(s) = 1 /\ Len(t) = 1 /\ Len(u) = 2 /\ Len(v) = 2 /\ Len(w) = 3
      /\ s[1] = a /\ t[1] = b /\ u[1] = a /\ u[2] = b /\ v[1] = b /\ v[2] = c
      /\ w[1] = a /\ w[2] = b /\ w[3] = c
  OBVIOUS
<1> HIDE DEF S, s, t, u, v, w
<1>4. Join(s, t) = u
  <2>1. \A i \in 1 .. Len(t) : t[i] = u[i + 1]
    BY <1>3
  <2>2. Len(s) = 1 /\ Len(u) = Len(t) + 1 /\ s[1] = u[1]
    BY <1>3
  <2>3. s \in Seq(S) /\ t \in Seq(S) /\ u \in Seq(S)
    BY <1>2
  <2>4. QED BY <2>1, <2>2, <2>3, <1>1
<1>5. Join(s, v) = w
  <2>1. \A i \in 1 .. Len(v) : v[i] = w[i + 1]
    BY <1>3
  <2>2. Len(s) = 1 /\ Len(w) = Len(v) + 1 /\ s[1] = w[1]
    BY <1>3
  <2>3. s \in Seq(S) /\ v \in Seq(S) /\ w \in Seq(S)
    BY <1>2
  <2>4. QED BY <2>1, <2>2, <2>3, <1>1
<1>6. QED BY <1>4, <1>5 DEF s, t, u, v, w

\* Appending a line is joining it.
LEMMA JoinLine == \A S : \A s \in Seq(S) : \A l \in S : Append(s, l) = Join(s, <<l>>)
BY AppendIsConcat DEF Join

\* A document of some lines contains no other.
LEMMA OnlyItsLines == \A S : \A s \in Seq(S) : \A l : Contains(s, l) => l \in S
<1> TAKE S
<1> TAKE s \in Seq(S)
<1> TAKE l
<1> HAVE Contains(s, l)
<1>1. PICK i \in 1 .. Len(s) : s[i] = l
  BY DEF Contains
<1>2. QED BY <1>1, ElementOfSeq

\* A document of one line.
LEMMA OneLine == \A S : \A l \in S : <<l>> \in Seq(S) /\ <<l>> # <<>> /\ <<l>>[1] = l
<1> TAKE S
<1> TAKE l \in S
<1>1. Append(<<>>, l) = <<l>> /\ <<>> \in Seq(S)
  BY EmptySeq
<1>2. <<l>> \in Seq(S) /\ <<l>> # <<>>
  BY <1>1, AppendProperties
<1>3. QED BY <1>2

\* Lines of a set are lines of a larger one.
LEMMA MoreLines == \A S, T : S \subseteq T => \A s \in Seq(S) : s \in Seq(T)
BY SeqMonotonic

-----------------------------------------------------------------------------
(***************************************************************************)
(* The lines of a document: those of the user, and those of the profiler.  *)
(***************************************************************************)
Blocks == {Block(url) : url \in Urls}
Replaceable == {Provider(v) : v \in Providers}
Unblocked == UserLines \cup {Provider(Managed), Marker, Blank}
Lines == Unblocked \cup Blocks

\* What enable saves: the line it replaced, if any, and the table it added.
Saveable == [previous : Replaceable \cup {None}, block : Blocks]

\* The kinds of the lines tell those of the profiler from those of the user.
LEMMA LineKinds ==
  /\ \A l \in UserLines : l.kind \in {"provider", "table", "other"} /\ l # Provider(Managed)
  /\ \A l \in UserLines : l.kind = "provider" => l \in Replaceable
  /\ \A l \in UserLines : l # None
  /\ \A l \in Replaceable : l.kind = "provider" /\ l \in UserLines
  /\ \A l \in Blocks : l.kind = "block"
  /\ Provider(Managed).kind = "provider" /\ Marker.kind = "marker" /\ Blank.kind = "blank"
  /\ Provider(Managed) \notin UserLines /\ Marker \notin UserLines /\ Blank \notin UserLines
  /\ \A l \in Blocks : l \notin Unblocked
<1>1. Extra.kind \in {"table", "other"}
  BY RoutingAssumption
<1>2. \A v, w : Provider(v) = Provider(w) => v = w
  <2> TAKE v, w
  <2> HAVE Provider(v) = Provider(w)
  <2>1. Provider(v).value = Provider(w).value
    OBVIOUS
  <2>2. QED BY <2>1 DEF Provider, Line
<1>3. \A v : Provider(v).kind = "provider"
  BY DEF Provider, Line
<1>4. \A u : Block(u).kind = "block"
  BY DEF Block, Line
<1>5. /\ Marker.kind = "marker" /\ Blank.kind = "blank"
      /\ Line("table", None).kind = "table" /\ Line("other", None).kind = "other"
  BY DEF Marker, Blank, Line
<1>6. \A l \in UserLines : l \in Replaceable \/ l.kind \in {"table", "other"}
  BY <1>1, <1>5 DEF UserLines, Replaceable
<1>7. \A l \in Replaceable : l.kind = "provider" /\ l \in UserLines /\ l # Provider(Managed)
  BY <1>2, <1>3, RoutingAssumption DEF Replaceable, UserLines
<1>8. \A l \in UserLines : l.kind \in {"provider", "table", "other"} /\ l # Provider(Managed)
  BY <1>3, <1>6, <1>7
<1>9. \A l \in Blocks : l.kind = "block"
  BY <1>4 DEF Blocks
<1>10. \A l \in Unblocked : l.kind # "block"
  BY <1>3, <1>5, <1>8 DEF Unblocked
<1>11. \A l \in UserLines : l.kind = "provider" => l \in Replaceable
  BY <1>6
<1>12. \A l \in UserLines : l # None
  BY RoutingAssumption
<1>13. Marker \notin UserLines /\ Blank \notin UserLines /\ Provider(Managed) \notin UserLines
  BY <1>5, <1>8
<1>14. \A l \in Blocks : l \notin Unblocked
  BY <1>9, <1>10
<1>15. QED BY <1>3, <1>5, <1>7, <1>8, <1>9, <1>11, <1>12, <1>13, <1>14

\* Documents of these lines are documents.
LEMMA LinesAreDocuments == \A s \in Seq(Lines) : s \in Document
<1> DEFINE D == [kind : Kinds, value : Providers \cup Urls \cup {Managed, None, "extra"}]
<1>1. \A v \in Providers \cup {Managed} : Provider(v) \in D
  BY DEF Provider, Line, Kinds
<1>2. \A u \in Urls : Block(u) \in D
  BY DEF Block, Line, Kinds
<1>3. /\ Marker \in D /\ Blank \in D /\ Line("table", None) \in D /\ Line("other", None) \in D
  BY DEF Marker, Blank, Line, Kinds
<1>4. Extra \in D
  BY RoutingAssumption DEF Kinds
<1> HIDE DEF D
<1>5. Lines \subseteq D
  BY <1>1, <1>2, <1>3, <1>4 DEF Lines, Unblocked, UserLines, Blocks
<1>6. QED BY <1>5, MoreLines DEF Document, D

\* The lines that no command and no rerouting touches.
Kept(doc) == OfKinds(doc, {"table", "other"})

-----------------------------------------------------------------------------
(***************************************************************************)
(* What an enable makes of a document, and what became of it: doc is mine  *)
(* with the managed line in the place of the one it replaced, or inserted, *)
(* and with the table of the profiler further down.                        *)
(***************************************************************************)
Put(state) == IF state.previous = None THEN Insertion ELSE <<Provider(Managed)>>
Was(state) == IF state.previous = None THEN <<>> ELSE <<state.previous>>

RoutedBy(S, doc, mine, state) ==
  \E p, r, x \in Seq(S) :
    /\ doc = Join(p, Join(Put(state), Join(r, Join(<<state.block>>, x))))
    /\ mine = Join(p, Join(Was(state), Join(r, x)))

\* The inserted lines, one by one.
LEMMA InsertionParts ==
  /\ Insertion = Join(<<Marker>>, <<Provider(Managed), Blank>>)
  /\ Insertion = Join(<<Marker>>, Join(<<Provider(Managed)>>, <<Blank>>))
  /\ <<Provider(Managed), Blank>> = Join(<<Provider(Managed)>>, <<Blank>>)
BY LinesJoined DEF Insertion

\* What the inserted and the replaced lines are.
LEMMA PutAndWas ==
  ASSUME NEW state \in Saveable
  PROVE  /\ Put(state) \in Seq(Unblocked) /\ Was(state) \in Seq(UserLines)
         /\ <<state.block>> \in Seq(Blocks)
         /\ Kept(Put(state)) = <<>> /\ Kept(Was(state)) = <<>> /\ Kept(<<state.block>>) = <<>>
         /\ OfKinds(Put(state), {"block"}) = <<>>
         /\ OfKinds(<<state.block>>, {"block"}) = <<state.block>>
         /\ Contains(Put(state), Provider(Managed))
         /\ Contains(<<state.block>>, state.block)
<1> DEFINE M == Provider(Managed)
<1>1. /\ M \in Unblocked /\ Marker \in Unblocked /\ Blank \in Unblocked
      /\ UserLines \subseteq Unblocked
  BY DEF Unblocked
<1>2. state.block \in Blocks /\ state.previous \in Replaceable \cup {None}
  BY DEF Saveable
<1>3. <<M>> \in Seq(Unblocked) /\ <<Marker>> \in Seq(Unblocked) /\ <<Blank>> \in Seq(Unblocked)
  BY <1>1, OneLine
<1>4. <<state.block>> \in Seq(Blocks)
  BY <1>2, OneLine
<1>5. \A K : OfKinds(<<state.block>>, K) = IF state.block.kind \in K THEN <<state.block>> ELSE <<>>
  BY <1>2, KindsOfLine
<1>6. state.block.kind = "block"
  BY <1>2, LineKinds
<1>7. Kept(<<state.block>>) = <<>> /\ OfKinds(<<state.block>>, {"block"}) = <<state.block>>
  BY <1>5, <1>6 DEF Kept
<1>8. Contains(<<state.block>>, state.block) /\ Contains(<<M>>, M)
  BY ContainsLine
<1>9. \A K : /\ "provider" \notin K => OfKinds(<<M>>, K) = <<>>
             /\ "marker" \notin K => OfKinds(<<Marker>>, K) = <<>>
             /\ "blank" \notin K => OfKinds(<<Blank>>, K) = <<>>
  <2> TAKE K
  <2>1. /\ OfKinds(<<M>>, K) = IF M.kind \in K THEN <<M>> ELSE <<>>
        /\ OfKinds(<<Marker>>, K) = IF Marker.kind \in K THEN <<Marker>> ELSE <<>>
        /\ OfKinds(<<Blank>>, K) = IF Blank.kind \in K THEN <<Blank>> ELSE <<>>
    BY <1>1, KindsOfLine
  <2>2. M.kind = "provider" /\ Marker.kind = "marker" /\ Blank.kind = "blank"
    BY LineKinds
  <2> HIDE DEF M
  <2>3. QED BY <2>1, <2>2
<1> HIDE DEF M
<1>10. CASE state.previous = None
  <2> DEFINE t == Join(<<M>>, <<Blank>>)
  <2>1. Put(state) = Join(<<Marker>>, t) /\ Was(state) = <<>>
    BY <1>10, InsertionParts DEF Put, Was, M
  <2>2. t \in Seq(Unblocked)
    BY <1>3, JoinType
  <2>3. Join(<<>>, <<>>) = <<>>
    BY DEF Join
  <2>4. ASSUME NEW K, "provider" \notin K, "blank" \notin K
        PROVE  OfKinds(t, K) = <<>>
    <3> DEFINE m == <<M>>
               n == <<Blank>>
    <3>1. m \in Seq(Unblocked) /\ n \in Seq(Unblocked)
      BY <1>3
    <3>2. OfKinds(m, K) = <<>> /\ OfKinds(n, K) = <<>>
      BY <1>9, <2>4
    <3> HIDE DEF m, n
    <3>3. OfKinds(Join(m, n), K) = <<>>
      BY <3>1, <3>2, <2>3, JoinKinds
    <3>4. QED BY <3>3 DEF m, n
  <2>5. Contains(t, M)
    BY <1>3, <1>8, JoinContains
  <2> HIDE DEF t
  <2>6. ASSUME NEW K, "provider" \notin K, "blank" \notin K, "marker" \notin K
        PROVE  OfKinds(Join(<<Marker>>, t), K) = <<>>
    <3> DEFINE m == <<Marker>>
    <3>1. m \in Seq(Unblocked) /\ OfKinds(m, K) = <<>>
      BY <1>3, <1>9, <2>6
    <3>2. OfKinds(t, K) = <<>>
      BY <2>4, <2>6
    <3> HIDE DEF m
    <3>3. OfKinds(Join(m, t), K) = <<>>
      BY <3>1, <3>2, <2>2, <2>3, JoinKinds
    <3>4. QED BY <3>3 DEF m
  <2>7. Put(state) \in Seq(Unblocked) /\ Contains(Put(state), M)
    BY <2>1, <2>2, <2>5, <1>3, JoinType, JoinContains
  <2>8. OfKinds(Put(state), {"table", "other"}) = <<>> /\ OfKinds(Put(state), {"block"}) = <<>>
    BY <2>1, <2>6
  <2>9. Was(state) \in Seq(UserLines) /\ OfKinds(Was(state), {"table", "other"}) = <<>>
    BY <2>1, EmptySeq, KindsOfNothing
  <2>10. QED BY <1>4, <1>7, <1>8, <2>7, <2>8, <2>9 DEF Kept, M
<1>11. CASE state.previous # None
  <2>1. Put(state) = <<M>> /\ Was(state) = <<state.previous>>
    BY <1>11 DEF Put, Was, M
  <2>2. state.previous \in UserLines /\ state.previous.kind = "provider"
    BY <1>2, <1>11, LineKinds
  <2>3. \A K : OfKinds(<<state.previous>>, K) =
                 IF state.previous.kind \in K THEN <<state.previous>> ELSE <<>>
    BY <2>2, KindsOfLine
  <2>4. Was(state) \in Seq(UserLines)
    BY <2>1, <2>2, OneLine
  <2>5. OfKinds(Was(state), {"table", "other"}) = <<>>
    BY <2>1, <2>2, <2>3
  <2>6. OfKinds(Put(state), {"table", "other"}) = <<>> /\ OfKinds(Put(state), {"block"}) = <<>>
    BY <2>1, <1>9
  <2>7. Put(state) \in Seq(Unblocked) /\ Contains(Put(state), M)
    BY <2>1, <1>3, <1>8
  <2>8. QED BY <1>4, <1>7, <1>8, <2>4, <2>5, <2>6, <2>7 DEF Kept, M
<1>12. QED BY <1>10, <1>11

\* The parts of a routed document, as documents of the lines they may have.
LEMMA PartsType ==
  ASSUME NEW S, S \subseteq Lines, NEW state \in Saveable,
         NEW p \in Seq(S), NEW r \in Seq(S), NEW x \in Seq(S)
  PROVE  /\ p \in Seq(Lines) /\ r \in Seq(Lines) /\ x \in Seq(Lines)
         /\ Put(state) \in Seq(Lines) /\ Was(state) \in Seq(Lines) /\ <<state.block>> \in Seq(Lines)
<1>1. Blocks \subseteq Lines /\ Unblocked \subseteq Lines /\ UserLines \subseteq Lines
  BY DEF Lines, Unblocked
<1>2. p \in Seq(Lines) /\ r \in Seq(Lines) /\ x \in Seq(Lines)
  BY MoreLines
<1>3. Put(state) \in Seq(Lines) /\ Was(state) \in Seq(Lines) /\ <<state.block>> \in Seq(Lines)
  BY <1>1, PutAndWas, MoreLines
<1>4. QED BY <1>2, <1>3

\* The lines of some kinds of such a document.
LEMMA KindsInParts ==
  ASSUME NEW S, S \subseteq Lines, NEW state \in Saveable,
         NEW p \in Seq(S), NEW r \in Seq(S), NEW x \in Seq(S), NEW K
  PROVE  /\ OfKinds(Join(p, Join(Put(state), Join(r, Join(<<state.block>>, x)))), K) =
              Join(OfKinds(p, K), Join(OfKinds(Put(state), K),
                Join(OfKinds(r, K), Join(OfKinds(<<state.block>>, K), OfKinds(x, K)))))
         /\ OfKinds(Join(p, Join(Was(state), Join(r, x))), K) =
              Join(OfKinds(p, K), Join(OfKinds(Was(state), K), Join(OfKinds(r, K), OfKinds(x, K))))
<1> DEFINE b == <<state.block>>
           put == Put(state)
           was == Was(state)
<1>1. /\ p \in Seq(Lines) /\ r \in Seq(Lines) /\ x \in Seq(Lines)
      /\ put \in Seq(Lines) /\ was \in Seq(Lines) /\ b \in Seq(Lines)
  BY PartsType
<1> HIDE DEF b, put, was
<1>2. Join(b, x) \in Seq(Lines) /\ Join(r, x) \in Seq(Lines)
  BY <1>1, JoinType
<1>3. Join(r, Join(b, x)) \in Seq(Lines) /\ Join(was, Join(r, x)) \in Seq(Lines)
  BY <1>1, <1>2, JoinType
<1>4. Join(put, Join(r, Join(b, x))) \in Seq(Lines)
  BY <1>1, <1>3, JoinType
<1>5. /\ OfKinds(Join(b, x), K) = Join(OfKinds(b, K), OfKinds(x, K))
      /\ OfKinds(Join(r, x), K) = Join(OfKinds(r, K), OfKinds(x, K))
  BY <1>1, JoinKinds
<1>6. /\ OfKinds(Join(r, Join(b, x)), K) = Join(OfKinds(r, K), OfKinds(Join(b, x), K))
      /\ OfKinds(Join(was, Join(r, x)), K) = Join(OfKinds(was, K), OfKinds(Join(r, x), K))
  BY <1>1, <1>2, JoinKinds
<1>7. /\ OfKinds(Join(put, Join(r, Join(b, x))), K) = Join(OfKinds(put, K), OfKinds(Join(r, Join(b, x)), K))
      /\ OfKinds(Join(p, Join(was, Join(r, x))), K) = Join(OfKinds(p, K), OfKinds(Join(was, Join(r, x)), K))
  BY <1>1, <1>3, JoinKinds
<1>8. OfKinds(Join(p, Join(put, Join(r, Join(b, x)))), K) =
        Join(OfKinds(p, K), OfKinds(Join(put, Join(r, Join(b, x))), K))
  BY <1>1, <1>4, JoinKinds
<1>9. QED BY <1>5, <1>6, <1>7, <1>8 DEF b, put, was

\* A document with a table of the profiler has one.
LEMMA ContainedBlock == \A S : \A doc \in Seq(S) : \A l \in Blocks : Contains(doc, l) => HasBlock(doc)
<1> TAKE S
<1> TAKE doc \in Seq(S)
<1> TAKE l \in Blocks
<1> HAVE Contains(doc, l)
<1>1. ~Lacks(doc, {"block"})
  BY LineKinds DEF Contains, Lacks
<1>2. QED BY <1>1, KindsOfOthers, HasBlockIsKind

\* A routed document has the managed line and the table, and keeps what the user wrote.
LEMMA RoutedKeeps ==
  ASSUME NEW S, S \subseteq Lines, NEW state \in Saveable, NEW doc, NEW mine,
         RoutedBy(S, doc, mine, state)
  PROVE  /\ doc \in Seq(Lines) /\ Kept(doc) = Kept(mine)
         /\ IsIntact(doc, state) /\ HasBlock(doc)
<1> DEFINE b == <<state.block>>
           put == Put(state)
           was == Was(state)
<1>1. PICK p, r, x \in Seq(S) :
        doc = Join(p, Join(put, Join(r, Join(b, x)))) /\ mine = Join(p, Join(was, Join(r, x)))
  BY DEF RoutedBy
<1>2. /\ p \in Seq(Lines) /\ r \in Seq(Lines) /\ x \in Seq(Lines)
      /\ put \in Seq(Lines) /\ was \in Seq(Lines) /\ b \in Seq(Lines)
  BY PartsType
<1>3. /\ Kept(doc) = Join(Kept(p), Join(Kept(put), Join(Kept(r), Join(Kept(b), Kept(x)))))
      /\ Kept(mine) = Join(Kept(p), Join(Kept(was), Join(Kept(r), Kept(x))))
  BY <1>1, KindsInParts DEF Kept
<1>4. Kept(put) = <<>> /\ Kept(was) = <<>> /\ Kept(b) = <<>>
  BY PutAndWas
<1>5. Contains(put, Provider(Managed)) /\ Contains(b, state.block)
  BY PutAndWas
<1> HIDE DEF b, put, was
<1>6. Kept(p) \in Seq(Lines) /\ Kept(r) \in Seq(Lines) /\ Kept(x) \in Seq(Lines)
  BY <1>2, KindsType DEF Kept
<1>7. Kept(doc) = Kept(mine)
  <2>1. Join(<<>>, Kept(x)) = Kept(x)
    BY <1>6, JoinNothing
  <2>2. QED BY <1>3, <1>4, <2>1
<1>8. Join(b, x) \in Seq(Lines) /\ Contains(Join(b, x), state.block)
  BY <1>2, <1>5, JoinType, JoinContains
<1>9. Join(r, Join(b, x)) \in Seq(Lines) /\ Contains(Join(r, Join(b, x)), state.block)
  BY <1>2, <1>8, JoinType, JoinContains
<1>10. /\ Join(put, Join(r, Join(b, x))) \in Seq(Lines)
       /\ Contains(Join(put, Join(r, Join(b, x))), state.block)
       /\ Contains(Join(put, Join(r, Join(b, x))), Provider(Managed))
  BY <1>2, <1>5, <1>9, JoinType, JoinContains
<1>11. doc \in Seq(Lines) /\ Contains(doc, state.block) /\ Contains(doc, Provider(Managed))
  BY <1>1, <1>2, <1>10, JoinType, JoinContains
<1>12. state.block \in Blocks
  BY DEF Saveable
<1>13. QED BY <1>7, <1>11, <1>12, ContainedBlock DEF IsIntact, IsRouted

\* Nothing of the profiler is in the lines of the user.
LEMMA OwnLines ==
  ASSUME NEW s \in Seq(UserLines)
  PROVE  /\ s \in Seq(Lines) /\ s \in Seq(Unblocked)
         /\ ~Contains(s, Provider(Managed)) /\ ~Contains(s, Marker)
         /\ OfKinds(s, {"block"}) = <<>>
<1>1. UserLines \subseteq Unblocked /\ UserLines \subseteq Lines
  BY DEF Unblocked, Lines
<1>2. s \in Seq(Lines) /\ s \in Seq(Unblocked)
  BY <1>1, MoreLines
<1>3. ~Contains(s, Provider(Managed)) /\ ~Contains(s, Marker)
  BY LineKinds, OnlyItsLines
<1>4. Lacks(s, {"block"})
  <2> SUFFICES ASSUME NEW i \in 1 .. Len(s) PROVE s[i].kind # "block"
    BY DEF Lacks
  <2>1. s[i] \in UserLines
    BY ElementOfSeq
  <2>2. QED BY <2>1, LineKinds
<1>5. QED BY <1>2, <1>3, <1>4, KindsOfOthers

\* A document that an enable routed and the user appended to has one table of the
\* profiler, and disable gives back the user's own.
LEMMA RoutedIsRestored ==
  ASSUME NEW state \in Saveable, NEW doc, NEW mine, RoutedBy(UserLines, doc, mine, state)
  PROVE  /\ mine \in Seq(UserLines)
         /\ OfKinds(doc, {"block"}) = <<state.block>>
         /\ Restored(doc, state) = mine
<1> DEFINE b == <<state.block>>
           put == Put(state)
           was == Was(state)
           m == <<Provider(Managed)>>
           k == <<Marker>>
           t == <<Provider(Managed), Blank>>
           B == {"block"}
<1>1. PICK p, r, x \in Seq(UserLines) :
        doc = Join(p, Join(put, Join(r, Join(b, x)))) /\ mine = Join(p, Join(was, Join(r, x)))
  BY DEF RoutedBy
<1>2. UserLines \subseteq Lines
  BY DEF Lines, Unblocked
<1>3. OfKinds(doc, B) = Join(OfKinds(p, B), Join(OfKinds(put, B),
                          Join(OfKinds(r, B), Join(OfKinds(b, B), OfKinds(x, B)))))
  BY <1>1, <1>2, KindsInParts
<1>4. /\ put \in Seq(Unblocked) /\ was \in Seq(UserLines) /\ b \in Seq(Blocks)
      /\ OfKinds(put, B) = <<>> /\ OfKinds(b, B) = b
  BY PutAndWas
<1>5. /\ put \in Seq(Lines) /\ was \in Seq(Lines) /\ b \in Seq(Lines) /\ b # <<>> /\ b[1] = state.block
      /\ state.block \in Blocks
  <2>1. state.block \in Blocks
    BY DEF Saveable
  <2>2. b # <<>> /\ b[1] = state.block
    BY <2>1, OneLine
  <2>3. Blocks \subseteq Lines /\ Unblocked \subseteq Lines
    BY DEF Lines
  <2>4. put \in Seq(Lines) /\ was \in Seq(Lines) /\ b \in Seq(Lines)
    BY <1>4, <1>2, <2>3, MoreLines
  <2>5. QED BY <2>1, <2>2, <2>4
<1>6. /\ m \in Seq(Lines) /\ m # <<>> /\ m[1] = Provider(Managed)
      /\ k \in Seq(Lines) /\ k # <<>> /\ k[1] = Marker
      /\ t \in Seq(Lines) /\ t # <<>> /\ t[1] = Provider(Managed)
      /\ Insertion = Join(k, t)
  <2>1. Provider(Managed) \in Lines /\ Marker \in Lines /\ Blank \in Lines
    BY DEF Lines, Unblocked
  <2>2. t = Join(m, <<Blank>>) /\ m \in Seq(Lines) /\ <<Blank>> \in Seq(Lines)
    BY <2>1, OneLine, InsertionParts
  <2>3. t \in Seq(Lines)
    <3> DEFINE n == <<Blank>>
    <3>1. n \in Seq(Lines)
      BY <2>2
    <3> HIDE DEF m, n, t
    <3>2. QED BY <2>2, <3>1, JoinType DEF n
  <2>4. t # <<>> /\ t[1] = Provider(Managed)
    OBVIOUS
  <2>5. QED BY <2>1, <2>3, <2>4, OneLine, InsertionParts
<1>7. /\ p \in Seq(Lines) /\ r \in Seq(Lines) /\ x \in Seq(Lines)
      /\ p \in Seq(Unblocked) /\ r \in Seq(Unblocked)
      /\ ~Contains(p, Provider(Managed)) /\ ~Contains(p, Marker)
      /\ OfKinds(p, B) = <<>> /\ OfKinds(r, B) = <<>> /\ OfKinds(x, B) = <<>>
  BY OwnLines
<1>8. OfKinds(doc, B) = b
  <2>1. Join(<<>>, b) = b /\ Join(b, <<>>) = b
    BY <1>5, JoinNothing
  <2>2. QED BY <1>3, <1>4, <1>7, <2>1
<1>9. Restored(doc, state) =
        LET unblocked == ReplaceFirstSubSeq(<<>>, b, doc)
            unmarked == ReplaceFirstSubSeq(<<>>, k, unblocked)
        IN  IF state.previous # None
            THEN ReplaceFirstSubSeq(<<state.previous>>, m, unblocked)
            ELSE ReplaceFirstSubSeq(<<>>, t, unmarked)
  BY DEF Restored
<1>10. /\ state.previous # None => put = m /\ was = <<state.previous>>
       /\ state.previous = None => put = Join(k, t) /\ was = <<>>
  BY <1>6 DEF Put, Was
<1> HIDE DEF b, put, was, m, k, t
<1> DEFINE e == <<>>
           rx == Join(r, x)
           bx == Join(b, x)
<1>11. e \in Seq(Lines) /\ rx \in Seq(Lines) /\ bx \in Seq(Lines)
  BY <1>5, <1>7, EmptySeq, JoinType
<1>12. mine \in Seq(UserLines)
  <2>1. rx \in Seq(UserLines)
    BY JoinType
  <2> HIDE DEF rx
  <2>2. Join(was, rx) \in Seq(UserLines)
    BY <1>4, <2>1, JoinType
  <2>3. QED BY <1>1, <2>2, JoinType DEF rx
<1> HIDE DEF e
<1>13. ReplaceFirstSubSeq(e, b, doc) = Join(p, Join(put, rx))
  <2> DEFINE pr == Join(put, r)
             P == Join(p, pr)
  <2>1. pr \in Seq(Unblocked) /\ pr \in Seq(Lines)
    BY <1>4, <1>5, <1>7, JoinType
  <2>2. /\ Join(pr, bx) = Join(put, Join(r, bx))
        /\ Join(pr, x) = Join(put, rx)
    BY <1>5, <1>7, <1>11, JoinAssociative
  <2> HIDE DEF pr
  <2>3. P \in Seq(Unblocked) /\ P \in Seq(Lines)
    BY <2>1, <1>7, JoinType
  <2>4. Join(P, bx) = Join(p, Join(pr, bx)) /\ Join(P, x) = Join(p, Join(pr, x))
    BY <2>1, <1>7, <1>11, JoinAssociative
  <2> HIDE DEF P
  <2>5. ~Contains(P, b[1])
    BY <2>3, <1>5, LineKinds, OnlyItsLines
  <2>6. ReplaceFirstSubSeq(e, b, Join(P, Join(b, x))) = Join(P, Join(e, x))
    BY <2>3, <2>5, <1>5, <1>7, <1>11, JoinReplaced
  <2>7. Join(e, x) = x
    BY <1>7, JoinNothing DEF e
  <2>8. QED BY <2>2, <2>4, <2>6, <2>7, <1>1
<1> HIDE DEF rx, bx
<1>14. CASE state.previous # None
  <2>1. ReplaceFirstSubSeq(was, m, Join(p, Join(m, rx))) = Join(p, Join(was, rx))
    BY <1>5, <1>6, <1>7, <1>11, JoinReplaced
  <2>2. Restored(doc, state) = Join(p, Join(was, rx))
    BY <1>9, <1>10, <1>13, <1>14, <2>1 DEF e
  <2>3. QED BY <1>1, <1>8, <1>12, <2>2 DEF rx, b
<1>15. CASE state.previous = None
  <2> DEFINE trx == Join(t, rx)
  <2>1. trx \in Seq(Lines) /\ Join(put, rx) = Join(k, trx)
    BY <1>6, <1>10, <1>11, <1>15, JoinType, JoinAssociative
  <2>2. Join(e, trx) = trx
    BY <2>1, JoinNothing DEF e
  <2> HIDE DEF trx
  <2>3. ReplaceFirstSubSeq(e, k, Join(p, Join(k, trx))) = Join(p, Join(e, trx))
    BY <2>1, <1>6, <1>7, <1>11, JoinReplaced
  <2>4. ReplaceFirstSubSeq(e, t, Join(p, Join(t, rx))) = Join(p, Join(e, rx))
    BY <1>6, <1>7, <1>11, JoinReplaced
  <2>5. Restored(doc, state) = Join(p, Join(was, rx))
    BY <1>9, <1>10, <1>13, <1>15, <2>1, <2>2, <2>3, <2>4 DEF e, trx
  <2>6. QED BY <1>1, <1>8, <1>12, <2>5 DEF rx, b
<1>16. QED BY <1>14, <1>15

\* Codex appends to both documents.
LEMMA AppendedKeeps ==
  ASSUME NEW doc \in Seq(Lines)
  PROVE  /\ Append(doc, Extra) \in Seq(Lines)
         /\ Kept(Append(doc, Extra)) = Append(Kept(doc), Extra)
         /\ OfKinds(Append(doc, Extra), {"block"}) = OfKinds(doc, {"block"})
         /\ HasBlock(Append(doc, Extra)) <=> HasBlock(doc)
         /\ IsRouted(Append(doc, Extra)) <=> IsRouted(doc)
<1>1. Extra \in UserLines /\ Extra.kind \in {"table", "other"} /\ Extra \in Lines
  BY RoutingAssumption DEF UserLines, Lines, Unblocked
<1>2. Append(doc, Extra) \in Seq(Lines)
  BY <1>1, AppendProperties
<1>3. \A K : OfKinds(Append(doc, Extra), K) =
               IF Extra.kind \in K THEN Append(OfKinds(doc, K), Extra) ELSE OfKinds(doc, K)
  BY <1>1, KindsOfAppend
<1>4. Kept(Append(doc, Extra)) = Append(Kept(doc), Extra)
  BY <1>1, <1>3 DEF Kept
<1>5. OfKinds(Append(doc, Extra), {"block"}) = OfKinds(doc, {"block"})
  BY <1>1, <1>3
<1>6. HasBlock(Append(doc, Extra)) <=> HasBlock(doc)
  BY <1>2, <1>5, HasBlockIsKind
<1>7. IsRouted(Append(doc, Extra)) <=> IsRouted(doc)
  <2> DEFINE x == <<Extra>>
  <2>1. Append(doc, Extra) = Join(doc, x)
    BY <1>1, JoinLine
  <2>2. x \in Seq(Lines) /\ ~Contains(x, Provider(Managed))
    <3>1. Extra # Provider(Managed)
      BY <1>1, LineKinds
    <3>2. QED BY <3>1, <1>1, OneLine, ContainsLine
  <2> HIDE DEF x
  <2>3. QED BY <2>1, <2>2, JoinContains DEF IsRouted
<1>8. QED BY <1>2, <1>4, <1>5, <1>6, <1>7

\* A routed document stays one.
LEMMA RoutedAppended ==
  ASSUME NEW state \in Saveable, NEW doc, NEW mine, RoutedBy(UserLines, doc, mine, state)
  PROVE  RoutedBy(UserLines, Append(doc, Extra), Append(mine, Extra), state)
<1> DEFINE b == <<state.block>>
           put == Put(state)
           was == Was(state)
           e == <<Extra>>
<1>1. PICK p, r, x \in Seq(UserLines) :
        doc = Join(p, Join(put, Join(r, Join(b, x)))) /\ mine = Join(p, Join(was, Join(r, x)))
  BY DEF RoutedBy
<1>2. UserLines \subseteq Lines /\ Extra \in UserLines /\ Extra \in Lines
  BY DEF Lines, Unblocked, UserLines
<1>3. /\ p \in Seq(Lines) /\ r \in Seq(Lines) /\ x \in Seq(Lines)
      /\ put \in Seq(Lines) /\ was \in Seq(Lines) /\ b \in Seq(Lines)
  BY <1>2, PartsType
<1>4. e \in Seq(Lines) /\ e \in Seq(UserLines)
  BY <1>2, OneLine
<1>5. \A s \in Seq(Lines) : Append(s, Extra) = Join(s, e)
  BY <1>2, JoinLine
<1> HIDE DEF b, put, was, e
<1> DEFINE bx == Join(b, x)
           rx == Join(r, x)
           rbx == Join(r, bx)
           xe == Join(x, e)
<1>6. bx \in Seq(Lines) /\ rx \in Seq(Lines) /\ xe \in Seq(UserLines)
  BY <1>1, <1>3, <1>4, JoinType
<1>7. Join(bx, e) = Join(b, xe) /\ Join(rx, e) = Join(r, xe)
  BY <1>3, <1>4, JoinAssociative
<1> HIDE DEF bx, rx, xe
<1> DEFINE wrx == Join(was, rx)
           prbx == Join(put, rbx)
<1>8. rbx \in Seq(Lines) /\ wrx \in Seq(Lines)
  BY <1>3, <1>6, JoinType
<1>9. Join(rbx, e) = Join(r, Join(b, xe)) /\ Join(wrx, e) = Join(was, Join(r, xe))
  BY <1>3, <1>4, <1>6, <1>7, JoinAssociative
<1> HIDE DEF rbx, wrx
<1>10. prbx \in Seq(Lines)
  BY <1>3, <1>8, JoinType
<1>11. Join(prbx, e) = Join(put, Join(r, Join(b, xe)))
  BY <1>3, <1>4, <1>8, <1>9, JoinAssociative
<1> HIDE DEF prbx
<1>12. doc = Join(p, prbx) /\ mine = Join(p, wrx)
  BY <1>1 DEF prbx, rbx, bx, wrx, rx
<1>13. doc \in Seq(Lines) /\ mine \in Seq(Lines)
  BY <1>3, <1>8, <1>10, <1>12, JoinType
<1>14. /\ Join(doc, e) = Join(p, Join(put, Join(r, Join(b, xe))))
       /\ Join(mine, e) = Join(p, Join(was, Join(r, xe)))
  BY <1>3, <1>4, <1>8, <1>9, <1>10, <1>11, <1>12, JoinAssociative
<1>15. /\ Append(doc, Extra) = Join(p, Join(put, Join(r, Join(b, xe))))
       /\ Append(mine, Extra) = Join(p, Join(was, Join(r, xe)))
  BY <1>5, <1>13, <1>14
<1>16. xe \in Seq(UserLines)
  BY <1>6
<1>17. QED BY <1>1, <1>15, <1>16 DEF RoutedBy, b, put, was

\* Disable moves and loses no line, and leaves no line that was not there or saved.
LEMMA RestoredKeeps ==
  ASSUME NEW doc \in Seq(Lines), NEW state \in Saveable
  PROVE  Restored(doc, state) \in Seq(Lines) /\ Kept(Restored(doc, state)) = Kept(doc)
<1> DEFINE b == <<state.block>>
           m == <<Provider(Managed)>>
           n == <<Blank>>
           k == <<Marker>>
           t == <<Provider(Managed), Blank>>
           was == <<state.previous>>
           e == <<>>
           K == {"table", "other"}
           un == ReplaceFirstSubSeq(e, b, doc)
           unmarked == ReplaceFirstSubSeq(e, k, un)
<1>1. /\ Provider(Managed) \in Lines /\ Marker \in Lines /\ Blank \in Lines /\ Blocks \subseteq Lines
      /\ UserLines \subseteq Lines
  BY DEF Lines, Unblocked
<1>2. state.block \in Lines /\ state.block.kind = "block"
  <2>1. state.block \in Blocks
    BY DEF Saveable
  <2>2. QED BY <2>1, <1>1, LineKinds
<1>3. b \in Seq(Lines) /\ b # <<>> /\ OfKinds(b, K) = <<>>
  BY <1>2, OneLine, KindsOfLine
<1>4. /\ m \in Seq(Lines) /\ m # <<>> /\ OfKinds(m, K) = <<>>
      /\ k \in Seq(Lines) /\ k # <<>> /\ OfKinds(k, K) = <<>>
      /\ n \in Seq(Lines) /\ OfKinds(n, K) = <<>>
  <2>1. Provider(Managed).kind = "provider" /\ Marker.kind = "marker" /\ Blank.kind = "blank"
    BY LineKinds
  <2>2. OfKinds(m, K) = IF Provider(Managed).kind \in K THEN m ELSE <<>>
    BY <1>1, KindsOfLine
  <2>3. OfKinds(k, K) = IF Marker.kind \in K THEN k ELSE <<>>
    BY <1>1, KindsOfLine
  <2>4. OfKinds(n, K) = IF Blank.kind \in K THEN n ELSE <<>>
    BY <1>1, KindsOfLine
  <2>5. QED BY <2>1, <2>2, <2>3, <2>4, <1>1, OneLine
<1>5. e \in Seq(Lines) /\ OfKinds(e, K) = <<>> /\ Join(e, e) = e
  BY EmptySeq, KindsOfNothing DEF Join
<1>6. t = Join(m, n) /\ t # <<>>
  BY InsertionParts
<1>7. state.previous # None => was \in Seq(Lines) /\ OfKinds(was, K) = <<>>
  <2> SUFFICES ASSUME state.previous # None PROVE was \in Seq(Lines) /\ OfKinds(was, K) = <<>>
    OBVIOUS
  <2>1. state.previous \in Replaceable
    BY DEF Saveable
  <2>2. state.previous \in Lines /\ state.previous.kind = "provider"
    BY <2>1, <1>1, LineKinds
  <2>3. QED BY <2>2, OneLine, KindsOfLine
<1>8. Restored(doc, state) = IF state.previous # None
                             THEN ReplaceFirstSubSeq(was, m, un)
                             ELSE ReplaceFirstSubSeq(e, t, unmarked)
  BY DEF Restored
<1> HIDE DEF b, m, n, k, t, was, un, unmarked, K, e
<1>9. t \in Seq(Lines) /\ OfKinds(t, K) = e
  BY <1>4, <1>5, <1>6, JoinType, JoinKinds DEF e
<1>10. un \in Seq(Lines) /\ OfKinds(un, K) = OfKinds(doc, K)
  BY <1>3, <1>5, ReplacedKinds DEF un
<1>11. unmarked \in Seq(Lines) /\ OfKinds(unmarked, K) = OfKinds(doc, K)
  BY <1>4, <1>5, <1>10, ReplacedKinds DEF unmarked
<1>12. CASE state.previous # None
  <2>1. /\ ReplaceFirstSubSeq(was, m, un) \in Seq(Lines)
        /\ OfKinds(ReplaceFirstSubSeq(was, m, un), K) = OfKinds(un, K)
    BY <1>4, <1>7, <1>10, <1>12, ReplacedKinds
  <2>2. QED BY <1>8, <1>10, <1>12, <2>1 DEF Kept, K
<1>13. CASE state.previous = None
  <2>1. t # <<>> /\ OfKinds(t, K) = OfKinds(e, K)
    BY <1>5, <1>6, <1>9 DEF e
  <2>2. e \in Seq(Lines) /\ t \in Seq(Lines) /\ unmarked \in Seq(Lines)
    BY <1>5, <1>9, <1>11
  <2>3. /\ ReplaceFirstSubSeq(e, t, unmarked) \in Seq(Lines)
        /\ OfKinds(ReplaceFirstSubSeq(e, t, unmarked), K) = OfKinds(unmarked, K)
    BY <2>1, <2>2, ReplacedKinds
  <2>4. QED BY <1>8, <1>11, <1>13, <2>3 DEF Kept, K
<1>14. QED BY <1>12, <1>13

\* The document of a user who takes another provider over the managed one.
ReroutedTo(v, doc) == ReplaceFirstSubSeq(<<Provider(v)>>, <<Provider(Managed)>>, doc)

\* It has the same lines, that one apart.
LEMMA ReroutedKeeps ==
  ASSUME NEW doc \in Seq(Lines), NEW v \in Providers
  PROVE  /\ ReroutedTo(v, doc) \in Seq(Lines) /\ Kept(ReroutedTo(v, doc)) = Kept(doc)
         /\ OfKinds(ReroutedTo(v, doc), {"block"}) = OfKinds(doc, {"block"})
<1> DEFINE m == <<Provider(Managed)>>
           w == <<Provider(v)>>
<1>1. Provider(Managed) \in Lines /\ Provider(v) \in Lines
  BY DEF Lines, Unblocked, UserLines
<1>2. Provider(Managed).kind = "provider" /\ Provider(v).kind = "provider"
  BY DEF Provider, Line
<1>3. \A K : /\ OfKinds(m, K) = IF Provider(Managed).kind \in K THEN m ELSE <<>>
             /\ OfKinds(w, K) = IF Provider(v).kind \in K THEN w ELSE <<>>
  BY <1>1, KindsOfLine
<1>4. /\ OfKinds(m, {"table", "other"}) = OfKinds(w, {"table", "other"})
      /\ OfKinds(m, {"block"}) = OfKinds(w, {"block"})
  BY <1>2, <1>3
<1>5. m \in Seq(Lines) /\ m # <<>> /\ w \in Seq(Lines)
  BY <1>1, OneLine
<1>6. ReroutedTo(v, doc) = ReplaceFirstSubSeq(w, m, doc)
  BY DEF ReroutedTo
<1> HIDE DEF m, w
<1>7. QED BY <1>4, <1>5, <1>6, ReplacedKinds DEF Kept

\* The profiler is out of a document that the user took another provider for.
LEMMA ReroutedAway ==
  ASSUME NEW state \in Saveable, NEW doc, NEW mine, RoutedBy(UserLines, doc, mine, state),
         NEW v \in Providers
  PROVE  ~IsRouted(ReroutedTo(v, doc))
<1> DEFINE Others == Lines \ {Provider(Managed)}
           b == <<state.block>>
           put == Put(state)
           m == <<Provider(Managed)>>
           n == <<Blank>>
           k == <<Marker>>
           w == <<Provider(v)>>
           after == ReroutedTo(v, doc)
<1>1. PICK p, r, x \in Seq(UserLines) : doc = Join(p, Join(put, Join(r, Join(b, x))))
  BY DEF RoutedBy
<1>2. /\ Provider(Managed) \in Lines /\ Marker \in Lines /\ Blank \in Lines /\ Blocks \subseteq Lines
      /\ UserLines \subseteq Lines /\ Provider(v) \in UserLines
  BY DEF Lines, Unblocked, UserLines
<1>3. UserLines \subseteq Others /\ Marker \in Others /\ Blank \in Others /\ Blocks \subseteq Others
  <2>1. Marker # Provider(Managed) /\ Blank # Provider(Managed)
    BY LineKinds
  <2>2. \A l \in Blocks : l # Provider(Managed)
    BY LineKinds
  <2>3. \A l \in UserLines : l # Provider(Managed)
    BY LineKinds
  <2>4. QED BY <1>2, <2>1, <2>2, <2>3
<1>4. /\ p \in Seq(Others) /\ r \in Seq(Others) /\ x \in Seq(Others)
      /\ w \in Seq(Others) /\ k \in Seq(Others) /\ n \in Seq(Others)
  <2>1. Provider(v) \in Others
    BY <1>2, <1>3
  <2> HIDE DEF Others
  <2>2. QED BY <2>1, <1>3, OneLine, MoreLines
<1>5. b \in Seq(Others)
  <2>1. state.block \in Others
    BY <1>3 DEF Saveable
  <2>2. QED BY <2>1, OneLine
<1>6. m \in Seq(Lines) /\ m # <<>> /\ m[1] = Provider(Managed)
  BY <1>2, OneLine
<1>7. \A s \in Seq(Others) : s \in Seq(Lines) /\ ~Contains(s, Provider(Managed))
  BY MoreLines, OnlyItsLines
<1>8. put = m \/ put = Join(k, Join(m, n))
  BY InsertionParts DEF Put
<1>9. after = ReplaceFirstSubSeq(w, m, doc)
  BY DEF ReroutedTo
<1> HIDE DEF b, put, m, n, k, w, Others, after
<1> DEFINE bx == Join(b, x)
           rbx == Join(r, bx)
<1>10. bx \in Seq(Others)
  BY <1>4, <1>5, JoinType
<1> HIDE DEF bx
<1>11. rbx \in Seq(Others)
  BY <1>4, <1>10, JoinType
<1>12. doc = Join(p, Join(put, rbx))
  BY <1>1 DEF rbx, bx
<1> HIDE DEF rbx
<1>13. ASSUME NEW s \in Seq(Others), NEW u \in Seq(Others), doc = Join(s, Join(m, u))
       PROVE  after \in Seq(Others)
  <2>1. /\ s \in Seq(Lines) /\ u \in Seq(Lines) /\ w \in Seq(Lines)
        /\ ~Contains(s, m[1])
    BY <1>4, <1>6, <1>7
  <2>2. after = Join(s, Join(w, u))
    BY <2>1, <1>6, <1>9, <1>13, JoinReplaced
  <2>3. Join(w, u) \in Seq(Others)
    BY <1>4, JoinType
  <2>4. QED BY <2>2, <2>3, JoinType
<1>14. CASE put = m
  <2>1. doc = Join(p, Join(m, rbx))
    BY <1>12, <1>14
  <2>2. QED BY <2>1, <1>4, <1>7, <1>11, <1>13 DEF IsRouted, after
<1>15. CASE put = Join(k, Join(m, n))
  <2> DEFINE nr == Join(n, rbx)
             pk == Join(p, k)
             mn == Join(m, n)
  <2>1. nr \in Seq(Others) /\ pk \in Seq(Others)
    BY <1>4, <1>11, JoinType
  <2>2. p \in Seq(Lines) /\ k \in Seq(Lines) /\ n \in Seq(Lines) /\ rbx \in Seq(Lines)
    BY <1>4, <1>7, <1>11
  <2>3. Join(mn, rbx) = Join(m, nr) /\ mn \in Seq(Lines) /\ nr \in Seq(Lines)
    BY <2>2, <1>6, JoinAssociative, JoinType
  <2> HIDE DEF nr, mn
  <2>4. Join(put, rbx) = Join(k, Join(m, nr)) /\ Join(m, nr) \in Seq(Lines)
    <3>1. put = Join(k, mn)
      BY <1>15 DEF mn
    <3>2. QED BY <3>1, <2>2, <2>3, <1>6, JoinAssociative, JoinType
  <2> DEFINE mnr == Join(m, nr)
  <2>5. Join(pk, mnr) = Join(p, Join(k, mnr))
    <3>1. mnr \in Seq(Lines)
      BY <2>4
    <3> HIDE DEF mnr
    <3>2. QED BY <3>1, <2>2, JoinAssociative
  <2>6. doc = Join(pk, Join(m, nr))
    BY <2>4, <2>5, <1>12
  <2> HIDE DEF pk, mnr
  <2>7. QED BY <2>1, <2>6, <1>7, <1>13 DEF IsRouted, after
<1>16. QED BY <1>8, <1>14, <1>15

\* A line replaced.
LEMMA ReplacedAt ==
  ASSUME NEW S, NEW T, S \subseteq T, NEW doc \in Seq(S), NEW i \in 1 .. Len(doc), NEW l \in T
  PROVE  \E a, c \in Seq(S) : /\ doc = Join(a, Join(<<doc[i]>>, c))
                              /\ ReplaceAt(doc, i, l) = Join(a, Join(<<l>>, c))
<1> DEFINE N == Len(doc)
           a == SubSeq(doc, 1, i - 1)
           c == SubSeq(doc, i + 1, N)
           x == ReplaceAt(doc, i, l)
<1>1. /\ x \in Seq(T) /\ Len(x) = N
      /\ \A j \in 1 .. N : x[j] = IF j = i THEN l ELSE doc[j]
  <2>1. doc \in Seq(T)
    BY MoreLines
  <2>2. QED BY <2>1, ExceptSeq DEF ReplaceAt
<1>2. N \in Nat /\ doc[i] \in S
  BY LenProperties, ElementOfSeq
<1>3. ASSUME NEW R, NEW d \in Seq(R), Len(d) = N
      PROVE  /\ SubSeq(d, 1, i - 1) \in Seq(R) /\ SubSeq(d, i + 1, N) \in Seq(R)
             /\ d = Join(SubSeq(d, 1, i - 1), Join(<<d[i]>>, SubSeq(d, i + 1, N)))
  <2> DEFINE t == <<d[i]>>
             f == SubSeq(d, 1, i - 1)
             g == SubSeq(d, i + 1, N)
  <2>1. d[i] \in R
    BY <1>3, ElementOfSeq
  <2>2. t \in Seq(R) /\ t # <<>> /\ t[1] = d[i]
    BY <2>1, OneLine
  <2>3. Len(t) = 1
    OBVIOUS
  <2> HIDE DEF t
  <2>4. i \in 1 .. Len(d) /\ Occurs(d, t, i)
    <3>1. \A j \in 1 .. 1 : d[i + j - 1] = t[j]
      BY <2>2
    <3>2. QED BY <3>1, <2>3, <1>2, <1>3 DEF Occurs
  <2>5. f \in Seq(R) /\ g \in Seq(R) /\ d = f \o t \o g
    <3>1. /\ SubSeq(d, 1, i - 1) \in Seq(R) /\ SubSeq(d, i + Len(t), Len(d)) \in Seq(R)
          /\ d = SubSeq(d, 1, i - 1) \o t \o SubSeq(d, i + Len(t), Len(d))
      <4> HIDE DEF N
      <4>1. t \in Seq(R) /\ t # <<>> /\ i \in 1 .. Len(d) /\ Occurs(d, t, i)
        BY <2>2, <2>4
      <4>2. QED BY <4>1, OccurrenceSplits
    <3>2. QED BY <3>1, <2>3, <1>3
  <2> HIDE DEF f, g
  <2>6. d = Join(Join(f, t), g)
    BY <2>5 DEF Join
  <2>7. d = Join(f, Join(t, g))
    BY <2>2, <2>5, <2>6, JoinAssociative
  <2>8. QED BY <2>5, <2>7 DEF f, g, t
<1>4. a \in Seq(S) /\ c \in Seq(S) /\ doc = Join(a, Join(<<doc[i]>>, c))
  BY <1>3
<1> HIDE DEF x
<1>5. x[i] = l /\ x = Join(SubSeq(x, 1, i - 1), Join(<<l>>, SubSeq(x, i + 1, N)))
  BY <1>1, <1>3
<1>6. SubSeq(x, 1, i - 1) = a /\ SubSeq(x, i + 1, N) = c
  <2>1. ASSUME NEW f \in Int, NEW g \in Int, 1 <= f, g <= N, g < i \/ i < f
        PROVE  SubSeq(x, f, g) = SubSeq(doc, f, g)
    <3> DEFINE s == SubSeq(x, f, g)
               t == SubSeq(doc, f, g)
    <3>1. \A j \in f .. g : j \in 1 .. N /\ j # i
      BY <2>1, <1>2
    <3>2. \A j \in f .. g : x[j] \in T /\ doc[j] \in T /\ x[j] = doc[j]
      <4>1. \A j \in 1 .. N : x[j] \in T /\ doc[j] \in T
        BY <1>1, ElementOfSeq
      <4>2. QED BY <3>1, <4>1, <1>1
    <3>3. /\ s \in Seq(T) /\ Len(s) = (IF f <= g THEN g - f + 1 ELSE 0)
          /\ \A j \in 1 .. (g - f + 1) : s[j] = x[f + j - 1]
      BY <3>2, SubSeqProperties
    <3>4. /\ t \in Seq(T) /\ Len(t) = (IF f <= g THEN g - f + 1 ELSE 0)
          /\ \A j \in 1 .. (g - f + 1) : t[j] = doc[f + j - 1]
      BY <3>2, SubSeqProperties
    <3> HIDE DEF s, t
    <3>5. Len(s) = Len(t) /\ \A j \in 1 .. Len(s) : j \in 1 .. (g - f + 1) /\ f + j - 1 \in f .. g
      BY <2>1, <3>3, <3>4
    <3>6. \A j \in 1 .. Len(s) : s[j] = t[j]
      BY <3>2, <3>3, <3>4, <3>5
    <3>7. s = t
      BY <3>3, <3>4, <3>5, <3>6, SeqEqual
    <3>8. QED BY <3>7 DEF s, t
  <2> DEFINE before == i - 1
             after == i + 1
  <2>2. before \in Int /\ after \in Int /\ 1 <= after /\ before <= N /\ before < i /\ i < after
        /\ 1 \in Int /\ N \in Int /\ 1 <= 1 /\ N <= N
    BY <1>2
  <2> HIDE DEF before, after
  <2>3. SubSeq(x, 1, before) = SubSeq(doc, 1, before)
    BY <2>1, <2>2
  <2>4. SubSeq(x, after, N) = SubSeq(doc, after, N)
    BY <2>1, <2>2
  <2>5. QED BY <2>3, <2>4 DEF before, after
<1> DEFINE y == <<l>>
           z == <<doc[i]>>
<1>7. x = Join(a, Join(y, c)) /\ doc = Join(a, Join(z, c))
  BY <1>4, <1>5, <1>6
<1> HIDE DEF a, c, y, z
<1>8. \E a1, c1 \in Seq(S) : doc = Join(a1, Join(z, c1)) /\ x = Join(a1, Join(y, c1))
  BY <1>4, <1>7
<1>9. QED BY <1>8 DEF x, y, z

\* Enable makes a routed document of one without the profiler.
LEMMA EnabledRoutes ==
  ASSUME NEW S, S \subseteq Lines, NEW doc \in Seq(S), ~IsRouted(doc), NEW url \in Urls
  PROVE  /\ Enabled(doc, url).state \in Saveable
         /\ RoutedBy(S, Enabled(doc, url).config, doc, Enabled(doc, url).state)
<1> DEFINE match == FirstOf(doc, "provider")
           table == FirstOf(doc, "table")
           place == IF table = 0 THEN Len(doc) ELSE table - 1
           state == [previous |-> IF match # 0 THEN doc[match] ELSE None, block |-> Block(url)]
           updated == IF match # 0
                      THEN ReplaceAt(doc, match, Provider(Managed))
                      ELSE SubSeq(doc, 1, place) \o Insertion \o SubSeq(doc, place + 1, Len(doc))
           new == Enabled(doc, url)
           b == <<state.block>>
           put == Put(state)
           was == Was(state)
           e == <<>>
<1>1. new.config = Append(updated, state.block) /\ new.state = state
  BY DEF Enabled
<1>2. state.block \in Blocks /\ state.block \in Lines
  BY DEF Blocks, Lines
<1>3. b \in Seq(Lines) /\ e \in Seq(S) /\ e \in Seq(Lines)
  BY <1>2, OneLine, EmptySeq
<1>4. Join(b, e) = b /\ \A s \in Seq(Lines) : Join(s, e) = s /\ Join(e, s) = s
  BY <1>3, JoinNothing
<1>5. \A s \in Seq(Lines) : Append(s, state.block) = Join(s, b)
  BY <1>2, JoinLine
<1>6. ASSUME NEW p \in Seq(S), NEW r \in Seq(S), put \in Seq(Lines), was \in Seq(Lines),
             updated = Join(p, Join(put, r)), doc = Join(p, Join(was, r))
      PROVE  RoutedBy(S, new.config, doc, state)
  <2> DEFINE putr == Join(put, r)
             wasr == Join(was, r)
  <2>1. p \in Seq(Lines) /\ r \in Seq(Lines)
    BY MoreLines
  <2> HIDE DEF b, put, was, e, state, updated, new
  <2>2. putr \in Seq(Lines)
    BY <1>6, <2>1, JoinType
  <2>3. Join(putr, b) = Join(put, Join(r, b))
    BY <1>3, <1>6, <2>1, JoinAssociative
  <2> HIDE DEF putr
  <2>4. updated = Join(p, putr) /\ updated \in Seq(Lines)
    BY <1>6, <2>1, <2>2, JoinType DEF putr
  <2>5. Join(updated, b) = Join(p, Join(put, Join(r, b)))
    BY <1>3, <2>1, <2>2, <2>3, <2>4, JoinAssociative
  <2>6. new.config = Join(p, Join(put, Join(r, Join(b, e))))
    BY <1>1, <1>4, <1>5, <2>4, <2>5
  <2>7. doc = Join(p, Join(was, Join(r, e)))
    BY <1>4, <1>6, <2>1
  <2>8. \E p1, r1, x1 \in Seq(S) :
          /\ new.config = Join(p1, Join(put, Join(r1, Join(b, x1))))
          /\ doc = Join(p1, Join(was, Join(r1, x1)))
    BY <1>3, <2>6, <2>7
  <2>9. QED BY <2>8 DEF RoutedBy, put, was, b
<1>7. CASE match # 0
  <2>1. match \in 1 .. Len(doc) /\ doc[match].kind = "provider"
    BY <1>7, FirstOfKind
  <2>2. doc[match] \in S /\ doc[match] \in Lines /\ doc[match] # Provider(Managed)
    BY <2>1, ElementOfSeq DEF IsRouted, Contains
  <2>3. doc[match] \in Replaceable /\ doc[match] # None
    <3> DEFINE l == doc[match]
    <3>1. l \in Lines /\ l.kind = "provider" /\ l # Provider(Managed)
      BY <2>1, <2>2
    <3> HIDE DEF l
    <3>2. l \in UserLines
      BY <3>1, LineKinds DEF Lines, Unblocked
    <3>3. QED BY <3>1, <3>2, LineKinds DEF l
  <2>4. state.previous = doc[match] /\ state.previous # None
    BY <1>7, <2>3
  <2>5. state \in Saveable
    BY <1>2, <1>7, <2>3 DEF Saveable
  <2>6. put = <<Provider(Managed)>> /\ was = <<doc[match]>>
    BY <2>4 DEF Put, Was
  <2>7. put \in Seq(Lines) /\ was \in Seq(Lines)
    <3>1. Provider(Managed) \in Lines
      BY DEF Lines, Unblocked
    <3>2. QED BY <3>1, <2>2, <2>6, OneLine
  <2>8. updated = ReplaceAt(doc, match, Provider(Managed))
    BY <1>7
  <2>9. PICK p, r \in Seq(S) : /\ doc = Join(p, Join(<<doc[match]>>, r))
                               /\ ReplaceAt(doc, match, Provider(Managed)) =
                                    Join(p, Join(<<Provider(Managed)>>, r))
    <3>1. Provider(Managed) \in Lines
      BY DEF Lines, Unblocked
    <3> HIDE DEF match
    <3>2. QED BY <3>1, <2>1, ReplacedAt
  <2>10. RoutedBy(S, new.config, doc, state)
    <3> HIDE DEF state, updated, new, put, was, b, match
    <3>1. QED BY <1>6, <2>6, <2>7, <2>8, <2>9
  <2>11. QED BY <1>1, <2>5, <2>10
<1>8. CASE match = 0
  <2> DEFINE p == SubSeq(doc, 1, place)
             r == SubSeq(doc, place + 1, Len(doc))
  <2>1. Len(doc) \in Nat
    BY LenProperties
  <2>2. place \in 0 .. Len(doc)
    <3>1. table = 0 \/ table \in 1 .. Len(doc)
      BY FirstOfKind
    <3> HIDE DEF table
    <3>2. QED BY <3>1, <2>1
  <2> HIDE DEF place
  <2>3. p \in Seq(S) /\ r \in Seq(S)
    <3> DEFINE q == place + 1
    <3>1. 1 \in Int /\ place \in Int /\ q \in Int /\ Len(doc) \in Int
      BY <2>1, <2>2
    <3>2. \A j \in 1 .. place : doc[j] \in S
      BY <2>1, <2>2, ElementOfSeq
    <3>3. \A j \in q .. Len(doc) : doc[j] \in S
      BY <2>1, <2>2, ElementOfSeq
    <3> HIDE DEF q
    <3>4. SubSeq(doc, 1, place) \in Seq(S) /\ SubSeq(doc, q, Len(doc)) \in Seq(S)
      BY <3>1, <3>2, <3>3, SubSeqProperties
    <3>5. QED BY <3>4 DEF q
  <2>4. doc = Join(p, r)
    <3>1. 1 \in 1 .. (Len(doc) + 1) /\ place \in (1 - 1) .. Len(doc) /\ Len(doc) \in place .. Len(doc)
      BY <2>1, <2>2
    <3>2. SubSeq(doc, 1, place) \o SubSeq(doc, place + 1, Len(doc)) = SubSeq(doc, 1, Len(doc))
      BY <3>1, ConcatAdjacentSubSeq
    <3>3. QED BY <3>2, SubSeqFull DEF Join
  <2>5. updated = Join(Join(p, Insertion), r)
    BY <1>8 DEF Join
  <2>6. state \in Saveable /\ state.previous = None
    BY <1>2, <1>8 DEF Saveable
  <2>7. put = Insertion /\ was = e
    BY <2>6 DEF Put, Was
  <2>8. put \in Seq(Lines) /\ was \in Seq(Lines)
    <3> HIDE DEF state
    <3>1. Unblocked \subseteq Lines
      BY DEF Lines
    <3>2. QED BY <3>1, <2>6, <2>7, <1>3, PutAndWas, MoreLines
  <2> HIDE DEF p, r, e, state, updated, new, put, was, b, match
  <2>9. p \in Seq(Lines) /\ r \in Seq(Lines)
    BY <2>3, MoreLines
  <2>10. updated = Join(p, Join(put, r)) /\ doc = Join(p, Join(was, r))
    BY <1>4, <2>4, <2>5, <2>7, <2>8, <2>9, JoinAssociative
  <2>11. RoutedBy(S, new.config, doc, state)
    BY <1>6, <2>3, <2>8, <2>10
  <2>12. QED BY <1>1, <2>6, <2>11 DEF new
<1>9. QED BY <1>7, <1>8

-----------------------------------------------------------------------------
(***************************************************************************)
(* The inductive invariant.                                                *)
(***************************************************************************)
Steps == {"idle", "enable: config", "enable: state", "disable"}
Outcomes == {"none", "enabled", "already enabled", "disabled", "not enabled", "refused", "died"}
Commands == [step : Steps, config : Seq(Lines), state : Saveable \cup {None}]

Typed ==
  /\ config \in Seq(Lines) /\ own \in Seq(Lines)
  /\ saved \in Saveable \cup {None} /\ command \in Commands
  /\ outcome \in Outcomes /\ edits \in 0 .. MaxEdits /\ deaths \in 0 .. MaxDeaths

\* What holds whichever command dies: the lines the user wrote are in config.toml and
\* in what a command is about to write, and a config that was routed without a state
\* to undo it has the table of the profiler.
Sound(c, o, s, cmd, out) ==
  /\ cmd.step \in {"enable: config", "enable: state"} => cmd.state \in Saveable /\ HasBlock(cmd.config)
  /\ cmd.step \in {"enable: config", "disable"} => Kept(cmd.config) = Kept(o)
  /\ Kept(c) = Kept(o)
  /\ s = None /\ IsRouted(c) => HasBlock(c)
  /\ cmd.step # "idle" => out = "none"
  /\ cmd.step = "disable" => s # None

\* The user's own document, one that enable made of it, or one that the user took
\* the profiler out of and left its table.
Whole(c, o) == c = o /\ o \in Seq(UserLines)
Routed(c, o, s) == s \in Saveable /\ RoutedBy(UserLines, c, o, s)
Rerouted(c) == ~IsRouted(c) /\ HasBlock(c) /\ Len(OfKinds(c, {"block"})) = 1

\* What holds as long as no command has died.
Sane(c, o, s, cmd, out) ==
  /\ cmd.step = "idle" => Whole(c, o) \/ Routed(c, o, s) \/ Rerouted(c)
  /\ cmd.step = "enable: config" => Whole(c, o) /\ Routed(cmd.config, o, cmd.state)
  /\ cmd.step = "enable: state" => Routed(c, o, cmd.state)
  /\ cmd.step = "disable" => Routed(c, o, s) /\ cmd.config = o
  /\ out = "disabled" => c = o

IInv ==
  /\ Typed
  /\ Sound(config, own, saved, command, outcome)
  /\ deaths = 0 => Sane(config, own, saved, command, outcome)

\* The documents of the user are the first of all.
LEMMA Init1 == Init => IInv
<1> SUFFICES ASSUME Init PROVE IInv
  OBVIOUS
<1>1. config \in Seq(UserLines) /\ own = config /\ saved = None
  BY RoutingAssumption DEF Init
<1>2. config \in Seq(Lines) /\ ~IsRouted(config)
  BY <1>1, OwnLines DEF IsRouted
<1>3. Typed
  <2>1. <<>> \in Seq(Lines)
    BY EmptySeq
  <2>2. command \in Commands
    BY <2>1 DEF Init, Idle, Commands, Steps
  <2>3. outcome \in Outcomes /\ edits \in 0 .. MaxEdits /\ deaths \in 0 .. MaxDeaths
    BY RoutingAssumption DEF Init, Outcomes
  <2>4. QED BY <1>1, <1>2, <2>2, <2>3 DEF Typed
<1>4. command.step = "idle" /\ outcome = "none"
  BY DEF Init, Idle
<1>5. Sound(config, own, saved, command, outcome)
  BY <1>1, <1>2, <1>4 DEF Sound
<1>6. Sane(config, own, saved, command, outcome)
  BY <1>1, <1>4 DEF Sane, Whole
<1>7. QED BY <1>3, <1>5, <1>6 DEF IInv

\* A command that fails has changed nothing.
LEMMA FailStep ==
  ASSUME IInv, IsIdle, NEW how \in Outcomes \ {"disabled"}, Fail(how)
  PROVE  IInv'
<1>1. UNCHANGED <<config, saved, command, own, edits, deaths>> /\ outcome' = how
  BY DEF Fail
<1>2. command.step = "idle"
  BY DEF IsIdle
<1>3. Typed'
  BY <1>1 DEF IInv, Typed
<1>4. Sound(config, own, saved, command, how)
  BY <1>2 DEF IInv, Sound
<1>5. deaths = 0 => Sane(config, own, saved, command, how)
  BY <1>2 DEF IInv, Sane
<1>6. QED BY <1>1, <1>3, <1>4, <1>5 DEF IInv

\* Enable decides on a document without the profiler.
LEMMA EnableReadsStep ==
  ASSUME IInv, NEW url \in Urls, EnableReads(url)
  PROVE  IInv'
<1>1. IsIdle /\ command.step = "idle"
  BY DEF EnableReads, IsIdle
<1>2. CASE saved # None /\ IsRouted(config)
  <2>1. Fail("already enabled")
    BY <1>2 DEF EnableReads
  <2>2. QED BY <1>1, <2>1, FailStep DEF Outcomes
<1>3. CASE ~(saved # None /\ IsRouted(config)) /\ HasBlock(config)
  <2>1. Fail("refused")
    BY <1>3 DEF EnableReads
  <2>2. QED BY <1>1, <2>1, FailStep DEF Outcomes
<1>4. CASE ~(saved # None /\ IsRouted(config)) /\ ~HasBlock(config)
  <2> DEFINE new == Enabled(config, url)
  <2>1. /\ command' = [step |-> "enable: config", config |-> new.config, state |-> new.state]
        /\ outcome' = "none" /\ UNCHANGED <<config, saved, own, edits, deaths>>
    BY <1>4 DEF EnableReads
  <2>2. Typed /\ Sound(config, own, saved, command, outcome)
    BY DEF IInv
  <2>3. ~IsRouted(config) /\ config \in Seq(Lines)
    BY <2>2, <1>4 DEF Sound, Typed
  <2>4. new.state \in Saveable /\ RoutedBy(Lines, new.config, config, new.state)
    BY <2>3, EnabledRoutes
  <2> HIDE DEF new
  <2>5. new.config \in Seq(Lines) /\ Kept(new.config) = Kept(config) /\ HasBlock(new.config)
    BY <2>4, RoutedKeeps
  <2>6. command' \in Commands
    BY <2>1, <2>4, <2>5 DEF Commands, Steps
  <2>7. Typed'
    BY <2>1, <2>2, <2>6 DEF Typed, Outcomes
  <2>8. command'.step = "enable: config" /\ command'.config = new.config /\ command'.state = new.state
    BY <2>1
  <2>9. Sound(config, own, saved, command', "none")
    BY <2>2, <2>4, <2>5, <2>8 DEF Sound
  <2>10. ASSUME deaths = 0
         PROVE  Sane(config, own, saved, command', "none")
    <3>1. Whole(config, own) \/ Routed(config, own, saved) \/ Rerouted(config)
      BY <1>1, <2>10 DEF IInv, Sane
    <3>2. ~Rerouted(config)
      BY <1>4 DEF Rerouted
    <3>3. ~Routed(config, own, saved)
      <4> SUFFICES ASSUME Routed(config, own, saved) PROVE FALSE
        OBVIOUS
      <4>1. UserLines \subseteq Lines
        BY DEF Lines, Unblocked
      <4>2. HasBlock(config)
        BY <4>1, RoutedKeeps DEF Routed
      <4>3. QED BY <4>2, <1>4
    <3>4. config = own /\ own \in Seq(UserLines)
      BY <3>1, <3>2, <3>3 DEF Whole
    <3>5. UserLines \subseteq Lines
      BY DEF Lines, Unblocked
    <3>6. RoutedBy(UserLines, new.config, config, new.state)
      BY <2>3, <3>4, <3>5, EnabledRoutes DEF new
    <3>7. Whole(config, own) /\ Routed(new.config, own, new.state)
      BY <2>4, <3>4, <3>6 DEF Whole, Routed
    <3>8. QED BY <2>8, <3>7 DEF Sane
  <2>11. QED BY <2>1, <2>7, <2>9, <2>10 DEF IInv
<1>5. QED BY <1>2, <1>3, <1>4

\* Enable replaces config.toml.
LEMMA EnableWritesConfigStep ==
  ASSUME IInv, EnableWritesConfig
  PROVE  IInv'
<1>1. /\ command.step = "enable: config" /\ config' = command.config
      /\ command' = [command EXCEPT !.step = "enable: state"]
      /\ UNCHANGED <<saved, outcome, own, edits, deaths>>
  BY DEF EnableWritesConfig
<1>2. Typed /\ Sound(config, own, saved, command, outcome)
  BY DEF IInv
<1>3. /\ command' \in Commands /\ command'.step = "enable: state"
      /\ command'.config = command.config /\ command'.state = command.state
  BY <1>1, <1>2 DEF Typed, Commands, Steps
<1>4. Typed'
  BY <1>1, <1>2, <1>3 DEF Typed, Commands
<1>5. Sound(command.config, own, saved, command', outcome)
  BY <1>1, <1>2, <1>3 DEF Sound
<1>6. ASSUME deaths = 0
      PROVE  Sane(command.config, own, saved, command', outcome)
  <2>1. Routed(command.config, own, command.state) /\ outcome = "none"
    BY <1>1, <1>2, <1>6 DEF IInv, Sane, Sound
  <2>2. QED BY <1>3, <2>1 DEF Sane
<1>7. QED BY <1>1, <1>4, <1>5, <1>6 DEF IInv

\* The idle command is one.
LEMMA IdleCommand == Idle \in Commands /\ Idle.step = "idle"
<1>1. <<>> \in Seq(Lines)
  BY EmptySeq
<1>2. QED BY <1>1 DEF Idle, Commands, Steps

\* A state is something.
LEMMA NothingSaved == \A state \in Saveable : state # None
<1> TAKE state \in Saveable
<1>1. Replaceable \subseteq UserLines
  BY LineKinds
<1>2. state \in States
  BY <1>1 DEF Saveable, States, Blocks
<1>3. QED BY <1>2, RoutingAssumption

\* Enable writes what undoes it.
LEMMA EnableWritesStateStep ==
  ASSUME IInv, EnableWritesState
  PROVE  IInv'
<1>1. /\ command.step = "enable: state" /\ saved' = command.state /\ command' = Idle
      /\ outcome' = "enabled" /\ UNCHANGED <<config, own, edits, deaths>>
  BY DEF EnableWritesState
<1>2. Typed /\ Sound(config, own, saved, command, outcome)
  BY DEF IInv
<1>3. command.state \in Saveable
  BY <1>1, <1>2 DEF Sound
<1>4. Typed'
  BY <1>1, <1>2, <1>3, IdleCommand DEF Typed, Outcomes
<1>5. command.state # None
  BY <1>3, NothingSaved
<1>6. Sound(config, own, command.state, Idle, "enabled")
  BY <1>2, <1>5, IdleCommand DEF Sound
<1>7. ASSUME deaths = 0
      PROVE  Sane(config, own, command.state, Idle, "enabled")
  <2>1. Routed(config, own, command.state)
    BY <1>1, <1>7 DEF IInv, Sane
  <2>2. QED BY <2>1, IdleCommand DEF Sane
<1>8. QED BY <1>1, <1>4, <1>6, <1>7 DEF IInv

\* Disable decides on a document that holds what enable wrote.
LEMMA DisableReadsStep ==
  ASSUME IInv, DisableReads
  PROVE  IInv'
<1>1. IsIdle /\ command.step = "idle"
  BY DEF DisableReads, IsIdle
<1>2. CASE saved = None
  <2>1. Fail("not enabled")
    BY <1>2 DEF DisableReads
  <2>2. QED BY <1>1, <2>1, FailStep DEF Outcomes
<1>3. CASE saved # None /\ ~IsIntact(config, saved)
  <2>1. Fail("refused")
    BY <1>3 DEF DisableReads
  <2>2. QED BY <1>1, <2>1, FailStep DEF Outcomes
<1>4. CASE saved # None /\ IsIntact(config, saved)
  <2> DEFINE old == Restored(config, saved)
  <2>1. /\ command' = [step |-> "disable", config |-> old, state |-> None]
        /\ outcome' = "none" /\ UNCHANGED <<config, saved, own, edits, deaths>>
    BY <1>4 DEF DisableReads
  <2>2. Typed /\ Sound(config, own, saved, command, outcome)
    BY DEF IInv
  <2>3. saved \in Saveable /\ config \in Seq(Lines)
    BY <2>2, <1>4 DEF Typed
  <2>4. old \in Seq(Lines) /\ Kept(old) = Kept(config)
    BY <2>3, RestoredKeeps
  <2> HIDE DEF old
  <2>5. command' \in Commands
    BY <2>1, <2>4 DEF Commands, Steps
  <2>6. Typed'
    BY <2>1, <2>2, <2>5 DEF Typed, Outcomes
  <2>7. command'.step = "disable" /\ command'.config = old
    BY <2>1
  <2>8. Sound(config, own, saved, command', "none")
    BY <2>2, <2>4, <2>7, <1>4 DEF Sound
  <2>9. ASSUME deaths = 0
        PROVE  Sane(config, own, saved, command', "none")
    <3>1. Whole(config, own) \/ Routed(config, own, saved) \/ Rerouted(config)
      BY <1>1, <2>9 DEF IInv, Sane
    <3>2. ~Rerouted(config)
      BY <1>4 DEF Rerouted, IsIntact
    <3>3. ~Whole(config, own)
      BY <1>4, OwnLines DEF Whole, IsIntact, IsRouted
    <3>4. Routed(config, own, saved)
      BY <3>1, <3>2, <3>3
    <3>5. old = own
      BY <3>4, RoutedIsRestored DEF Routed, old
    <3>6. QED BY <2>7, <3>4, <3>5 DEF Sane
  <2>10. QED BY <2>1, <2>6, <2>8, <2>9 DEF IInv
<1>5. QED BY <1>2, <1>3, <1>4

\* Disable replaces config.toml.
LEMMA DisableWritesStep ==
  ASSUME IInv, DisableWrites
  PROVE  IInv'
<1>1. /\ command.step = "disable" /\ config' = command.config /\ command' = Idle
      /\ outcome' = "disabled" /\ UNCHANGED <<saved, own, edits, deaths>>
  BY DEF DisableWrites
<1>2. Typed /\ Sound(config, own, saved, command, outcome)
  BY DEF IInv
<1>3. Typed'
  BY <1>1, <1>2, IdleCommand DEF Typed, Commands, Outcomes
<1>4. Sound(command.config, own, saved, Idle, "disabled")
  BY <1>1, <1>2, IdleCommand DEF Sound
<1>5. ASSUME deaths = 0
      PROVE  Sane(command.config, own, saved, Idle, "disabled")
  <2>1. Routed(config, own, saved) /\ command.config = own
    BY <1>1, <1>5 DEF IInv, Sane
  <2>2. Whole(command.config, own)
    BY <2>1, RoutedIsRestored DEF Routed, Whole
  <2>3. QED BY <2>1, <2>2, IdleCommand DEF Sane
<1>6. QED BY <1>1, <1>3, <1>4, <1>5 DEF IInv

\* A command dies with what it has read.
LEMMA CommandDiesStep ==
  ASSUME IInv, CommandDies
  PROVE  IInv'
<1>1. /\ deaths < MaxDeaths /\ deaths' = deaths + 1 /\ command' = Idle /\ outcome' = "died"
      /\ UNCHANGED <<config, saved, own, edits>>
  BY DEF CommandDies
<1>2. Typed /\ Sound(config, own, saved, command, outcome)
  BY DEF IInv
<1>3. deaths' \in 0 .. MaxDeaths /\ deaths' # 0
  BY <1>1, <1>2, RoutingAssumption DEF Typed
<1>4. Typed'
  BY <1>1, <1>2, <1>3, IdleCommand DEF Typed, Outcomes
<1>5. Sound(config, own, saved, Idle, "died")
  BY <1>2, IdleCommand DEF Sound
<1>6. QED BY <1>1, <1>3, <1>4, <1>5 DEF IInv

\* What an edit has to keep.
LEMMA EditStep ==
  ASSUME IInv, NEW doc \in Seq(Lines), NEW mine \in Seq(Lines), Edit(doc, mine),
         Kept(doc) = Kept(mine),
         saved = None /\ IsRouted(doc) => HasBlock(doc),
         deaths = 0 => Whole(doc, mine) \/ Routed(doc, mine, saved) \/ Rerouted(doc)
  PROVE  IInv'
<1>1. /\ command.step = "idle" /\ edits < MaxEdits /\ edits' = edits + 1
      /\ config' = doc /\ own' = mine /\ outcome' = "none" /\ UNCHANGED <<saved, command, deaths>>
  BY DEF Edit, IsIdle
<1>2. Typed'
  <2>1. Typed
    BY DEF IInv
  <2>2. edits' \in 0 .. MaxEdits
    BY <1>1, <2>1, RoutingAssumption DEF Typed
  <2>3. QED BY <1>1, <2>1, <2>2 DEF Typed, Outcomes
<1>3. Sound(doc, mine, saved, command, "none")
  BY <1>1 DEF Sound
<1>4. deaths = 0 => Sane(doc, mine, saved, command, "none")
  BY <1>1 DEF Sane
<1>5. QED BY <1>1, <1>2, <1>3, <1>4 DEF IInv

\* The user rewrites the document.
LEMMA UserWritesStep ==
  ASSUME IInv, NEW doc \in Documents, UserWrites(doc)
  PROVE  IInv'
<1>1. doc \in Seq(UserLines)
  BY RoutingAssumption
<1>2. doc \in Seq(Lines) /\ ~IsRouted(doc)
  BY <1>1, OwnLines DEF IsRouted
<1>3. Edit(doc, doc) /\ Whole(doc, doc)
  BY <1>1 DEF UserWrites, Whole
<1>4. QED BY <1>2, <1>3, EditStep

\* A line is added.
LEMMA UserAppendsStep ==
  ASSUME IInv, UserAppends
  PROVE  IInv'
<1> DEFINE doc == Append(config, Extra)
           mine == Append(own, Extra)
<1>1. Typed /\ Sound(config, own, saved, command, outcome) /\ Edit(doc, mine)
  BY DEF IInv, UserAppends
<1>2. command.step = "idle"
  BY <1>1 DEF Edit, IsIdle
<1>3. config \in Seq(Lines) /\ own \in Seq(Lines)
  BY <1>1 DEF Typed
<1>4. /\ doc \in Seq(Lines) /\ mine \in Seq(Lines)
      /\ Kept(doc) = Append(Kept(config), Extra) /\ Kept(mine) = Append(Kept(own), Extra)
      /\ HasBlock(doc) <=> HasBlock(config)
      /\ IsRouted(doc) <=> IsRouted(config)
      /\ OfKinds(doc, {"block"}) = OfKinds(config, {"block"})
  BY <1>3, AppendedKeeps
<1>5. Kept(doc) = Kept(mine) /\ (saved = None /\ IsRouted(doc) => HasBlock(doc))
  BY <1>1, <1>4 DEF Sound
<1>6. ASSUME deaths = 0
      PROVE  Whole(doc, mine) \/ Routed(doc, mine, saved) \/ Rerouted(doc)
  <2>1. Whole(config, own) \/ Routed(config, own, saved) \/ Rerouted(config)
    BY <1>2, <1>6 DEF IInv, Sane
  <2>2. CASE Whole(config, own)
    <3>1. Extra \in UserLines
      BY DEF UserLines
    <3>2. QED BY <2>2, <3>1, AppendProperties DEF Whole
  <2>3. CASE Routed(config, own, saved)
    BY <2>3, RoutedAppended DEF Routed
  <2>4. CASE Rerouted(config)
    <3> HIDE DEF doc
    <3>1. QED BY <2>4, <1>4 DEF Rerouted
  <2>5. QED BY <2>1, <2>2, <2>3, <2>4
<1> HIDE DEF doc, mine
<1>7. QED BY <1>1, <1>4, <1>5, <1>6, EditStep

\* The user takes another provider.
LEMMA UserReroutesStep ==
  ASSUME IInv, NEW v \in Providers, UserReroutes(v)
  PROVE  IInv'
<1> DEFINE doc == ReroutedTo(v, config)
           mine == OfKinds(doc, Kinds \ {"block"})
<1>1. Typed /\ Sound(config, own, saved, command, outcome)
  BY DEF IInv
<1>2. Edit(doc, mine) /\ IsRouted(config)
  BY DEF UserReroutes, ReroutedTo
<1>3. command.step = "idle"
  BY <1>2 DEF Edit, IsIdle
<1>4. config \in Seq(Lines)
  BY <1>1 DEF Typed
<1>5. doc \in Seq(Lines) /\ OfKinds(doc, {"block"}) = OfKinds(config, {"block"})
  BY <1>4, ReroutedKeeps
<1>6. HasBlock(doc) <=> HasBlock(config)
  BY <1>4, <1>5, HasBlockIsKind
<1>7. saved = None /\ IsRouted(doc) => HasBlock(doc)
  BY <1>1, <1>2, <1>6 DEF Sound
<1>8. ASSUME deaths = 0
      PROVE  Rerouted(doc)
  <2>1. Whole(config, own) \/ Routed(config, own, saved) \/ Rerouted(config)
    BY <1>3, <1>8 DEF IInv, Sane
  <2>2. ~Whole(config, own) /\ ~Rerouted(config)
    BY <1>2, OwnLines DEF Whole, Rerouted, IsRouted
  <2>3. saved \in Saveable /\ RoutedBy(UserLines, config, own, saved)
    BY <2>1, <2>2 DEF Routed
  <2>4. ~IsRouted(doc)
    BY <2>3, ReroutedAway
  <2>5. OfKinds(config, {"block"}) = <<saved.block>>
    BY <2>3, RoutedIsRestored
  <2>6. UserLines \subseteq Lines
    BY DEF Lines, Unblocked
  <2>7. HasBlock(config)
    BY <2>3, <2>6, RoutedKeeps
  <2>8. Len(<<saved.block>>) = 1
    OBVIOUS
  <2>9. QED BY <1>5, <1>6, <2>4, <2>5, <2>7, <2>8 DEF Rerouted
<1> HIDE DEF doc
<1>9. mine \in Seq(Lines)
  BY <1>5, KindsType
<1>10. Kept(mine) = Kept(doc)
  <2>1. {"table", "other"} \subseteq Kinds \ {"block"}
    BY DEF Kinds
  <2>2. QED BY <2>1, <1>5, KindsOfKinds DEF Kept
<1> HIDE DEF mine
<1>11. QED BY <1>2, <1>5, <1>7, <1>8, <1>9, <1>10, EditStep

-----------------------------------------------------------------------------
(***************************************************************************)
(* The theorems.                                                           *)
(***************************************************************************)
\* The invariant is inductive.
LEMMA Step == ASSUME IInv, [Next]_vars PROVE IInv'
<1>1. CASE UNCHANGED vars
  BY <1>1 DEF vars, IInv, Typed
<1>2. ASSUME NEW url \in Urls, EnableReads(url) PROVE IInv'
  BY <1>2, EnableReadsStep
<1>3. CASE EnableWritesConfig
  BY <1>3, EnableWritesConfigStep
<1>4. CASE EnableWritesState
  BY <1>4, EnableWritesStateStep
<1>5. CASE DisableReads
  BY <1>5, DisableReadsStep
<1>6. CASE DisableWrites
  BY <1>6, DisableWritesStep
<1>7. CASE CommandDies
  BY <1>7, CommandDiesStep
<1>8. ASSUME NEW doc \in Documents, UserWrites(doc) PROVE IInv'
  BY <1>8, UserWritesStep
<1>9. CASE UserAppends
  BY <1>9, UserAppendsStep
<1>10. ASSUME NEW v \in Providers, UserReroutes(v) PROVE IInv'
  BY <1>10, UserReroutesStep
<1>11. QED BY <1>1, <1>2, <1>3, <1>4, <1>5, <1>6, <1>7, <1>8, <1>9, <1>10 DEF Next

\* The inductive invariant: whichever commands ran or died, and whatever the user
\* edited, config.toml is one that enable, disable and the edits account for.
THEOREM Invariance == Spec => []IInv
<1>1. Init => IInv
  BY Init1
<1>2. IInv /\ [Next]_vars => IInv'
  BY Step
<1>3. QED BY <1>1, <1>2, PTL DEF Spec

\* Disable gives the user's own document back, with the edits made in between, and a
\* config that routes Codex to the proxy defines it once, as long as no command died:
\* enableCodexProxyConfig and disableCodexProxyConfig of config.ts.
THEOREM RoutingHolds == Spec => []RoutingInv
<1>1. IInv => RoutingInv
  <2> SUFFICES ASSUME IInv PROVE RoutingInv
    OBVIOUS
  <2>1. Typed /\ Sound(config, own, saved, command, outcome)
    BY DEF IInv
  <2>2. TypeOK
    <3>1. config \in Document /\ own \in Document /\ command.config \in Document
      BY <2>1, LinesAreDocuments DEF Typed, Commands
    <3>2. Replaceable \subseteq UserLines
      BY LineKinds
    <3>3. saved \in States \cup {None}
      BY <2>1, <3>2 DEF Typed, Saveable, States, Blocks
    <3>4. QED BY <2>1, <3>1, <3>3 DEF TypeOK, Typed, Commands, Steps, Outcomes
  <2>3. RestoresOwnDocument
    BY DEF IInv, Sane, RestoresOwnDocument
  <2>4. ASSUME deaths = 0
        PROVE  IsUsable
    <3>1. Sane(config, own, saved, command, outcome)
      BY <2>4 DEF IInv
    <3>2. CASE Whole(config, own)
      <4>1. ~IsRouted(config) /\ OfKinds(config, {"block"}) = <<>>
        BY <3>2, OwnLines DEF Whole, IsRouted
      <4>2. Len(<<>>) <= 1
        BY EmptySeq
      <4>3. QED BY <4>1, <4>2 DEF IsUsable
    <3>3. CASE \E state \in Saveable : RoutedBy(UserLines, config, own, state)
      <4>1. PICK state \in Saveable : RoutedBy(UserLines, config, own, state)
        BY <3>3
      <4>2. UserLines \subseteq Lines
        BY DEF Lines, Unblocked
      <4>3. HasBlock(config)
        BY <4>1, <4>2, RoutedKeeps
      <4>4. OfKinds(config, {"block"}) = <<state.block>>
        BY <4>1, RoutedIsRestored
      <4>5. Len(<<state.block>>) <= 1
        OBVIOUS
      <4>6. QED BY <4>3, <4>4, <4>5 DEF IsUsable
    <3>4. CASE Rerouted(config)
      BY <3>4 DEF Rerouted, IsUsable
    <3>5. command.step \in Steps
      BY <2>1 DEF Typed, Commands
    <3>6. QED BY <3>1, <3>2, <3>3, <3>4, <3>5 DEF Sane, Routed, Steps
  <2>5. QED BY <2>2, <2>3, <2>4 DEF RoutingInv, RoutedConfigIsUsable
<1>2. QED BY <1>1, Invariance, PTL

\* No command and no death of one loses or moves a line of the user, the provider line
\* that enable replaces apart.
THEOREM LinesSurvive == Spec => []UserLinesSurvive
<1>1. IInv => UserLinesSurvive
  BY DEF IInv, Sound, Kept, UserLinesSurvive
<1>2. QED BY <1>1, Invariance, PTL
-----------------------------------------------------------------------------
(***************************************************************************)
(* What a caller of `codex disable` may rely on (`token-profiler daemon`). *)
(***************************************************************************)

\* A disable that found no saved state leaves none: runCodexConfig.
LEMMA NothingIsSaved ==
  ASSUME outcome = "not enabled" => saved = None, [Next]_vars
  PROVE  (outcome = "not enabled" => saved = None)'
<1>1. CASE UNCHANGED vars
  BY <1>1 DEF vars
<1>2. ASSUME NEW url \in Urls, EnableReads(url) PROVE (outcome = "not enabled" => saved = None)'
  BY <1>2 DEF EnableReads, Fail
<1>3. CASE EnableWritesConfig
  BY <1>3 DEF EnableWritesConfig
<1>4. CASE EnableWritesState
  BY <1>4 DEF EnableWritesState
<1>5. CASE DisableReads
  BY <1>5 DEF DisableReads, Fail
<1>6. CASE DisableWrites
  BY <1>6 DEF DisableWrites
<1>7. CASE CommandDies
  BY <1>7 DEF CommandDies
<1>8. ASSUME NEW doc, NEW mine, Edit(doc, mine)
      PROVE  (outcome = "not enabled" => saved = None)'
  BY <1>8 DEF Edit
<1> QED
  BY <1>1, <1>2, <1>3, <1>4, <1>5, <1>6, <1>7, <1>8
  DEF Next, UserWrites, UserAppends, UserReroutes

\* Codex is on a provider of the user after a disable, and where nothing is saved.
LEMMA DisabledIsUnrouted ==
  ASSUME IInv, deaths = 0, command.step = "idle", outcome = "disabled" \/ saved = None
  PROVE  ~IsRouted(config)
<1>1. /\ Whole(config, own) \/ Routed(config, own, saved) \/ Rerouted(config)
      /\ outcome = "disabled" => config = own
  BY DEF IInv, Sane
<1>2. own \in Seq(UserLines) => ~IsRouted(own)
  BY OwnLines DEF IsRouted
<1>3. CASE Whole(config, own)
  BY <1>2, <1>3 DEF Whole
<1>4. CASE Routed(config, own, saved)
  <2>1. own \in Seq(UserLines)
    BY <1>4, RoutedIsRestored DEF Routed
  <2>2. None \notin Saveable
    <3>1. Replaceable \subseteq UserLines
      BY LineKinds
    <3>2. Saveable \subseteq States
      BY <3>1 DEF Saveable, States, Blocks
    <3> QED
      BY <3>2, RoutingAssumption
  <2> QED
    BY <1>1, <1>2, <1>4, <2>1, <2>2 DEF Routed
<1>5. CASE Rerouted(config)
  BY <1>5 DEF Rerouted
<1> QED
  BY <1>1, <1>3, <1>4, <1>5
=============================================================================
