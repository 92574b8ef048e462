------------------------ MODULE SessionCatalogProofs ------------------------
(***************************************************************************)
(* Proofs that the session list, the catalog and the pages of large runs   *)
(* are what their readers take them for, for any number of runs, clients   *)
(* and scans, whatever the runs hold and however large they grow.          *)
(***************************************************************************)
EXTENDS SessionCatalog, FiniteSetTheorems, SequenceTheorems, TLAPS

-----------------------------------------------------------------------------
(***************************************************************************)
(* The inductive invariant.                                                *)
(***************************************************************************)
Maps(S, T) == UNION {[D -> T] : D \in SUBSET S}

RowType == [state : {"complete", "partial", "unavailable"}, of : Nat]

ScanType ==
  [step : {"idle", "list", "catalog", "read", "cache", "stream", "store", "entries", "write"},
   since : [Runs -> Nat], left : SUBSET Runs, sources : Maps(Runs, Nat),
   run : Runs \cup {None}, source : Nat, read : Nat, rows : Maps(Runs, RowType)]

ListType ==
  [run : Runs \cup {None}, request : {f.request : f \in Followed} \cup {None},
   pages : Seq(Nat), of : SUBSET Nat, next : Nat \cup {None}, at : Nat]

ClientType ==
  [list : ListType, step : {"idle", "cache", "stream", "store", "artifacts"},
   source : Nat, read : Nat]

Mishaps == [requests : 0..MaxRequests, removals : 0..MaxRemovals, writes : 0..MaxWriteFails]

(***************************************************************************)
(* What is said of one client, scan or answer takes the sizes of the files *)
(* (sz), the deleted runs (gone) and whether a read was raced (dirty) as   *)
(* parameters, so that it can be said before and after a step.             *)
(***************************************************************************)

\* A run has not shrunk below n unless it was deleted.
Reaches(r, n, sz, gone) == r \in gone \/ n <= sz[r]

\* One who reads a summary asked for a version the run has had, and reads no older one.
ReaderOK(step, run, source, read, sz, gone, dirty) ==
  /\ step \in {"cache", "stream", "store"} =>
       run \in Runs /\ source \in Versions(run) /\ Reaches(run, source, sz, gone)
  /\ step = "store" =>
       read \in Versions(run) /\ source <= read /\ (~dirty => read = source)

\* The cursor of a list is the number of its items, and these are the first of the list.
ListOK(list, sz, gone, dirty) ==
  /\ list \in ListType
  /\ list.next # None => list.run \in Runs /\ list.next = Len(list.pages)
  /\ list.of = {} => list.pages = <<>>
  /\ list.request # None => list.run \in Runs
  /\ list.request # None /\ list.run \notin gone =>
       IsPrefix(list.pages, ArtifactsOf(list.run, sz[list.run], list.request))
  /\ ~dirty /\ list.run # None /\ list.request = None =>
       \A v \in list.of : v = list.at /\ IsPrefix(list.pages, Requests(list.run, v))

\* A client that waits for a page asks for the one after those it has, of their version.
ClientOK(k, sz, gone, dirty) ==
  /\ k \in ClientType
  /\ ListOK(k.list, sz, gone, dirty)
  /\ ReaderOK(k.step, k.list.run, k.source, k.read, sz, gone, dirty)
  /\ k.step # "idle" =>
       /\ k.list.run \in Runs /\ k.list.next = Len(k.list.pages)
       /\ k.list.of # {} => k.list.at = k.source
       /\ k.list.request = None <=> k.step # "artifacts"

\* The rows of a scan are of runs that were there, and as new as the call that scans.
RowsOK(since, rows, sz, gone) ==
  \A r \in DOMAIN rows :
    /\ Reaches(r, 1, sz, gone)
    /\ rows[r].state # "unavailable" => rows[r].of >= since[r]

\* All runs that were there when the call began, unless they are gone.
Covers(since, runs, gone) == \A r \in Runs \ gone : since[r] > 0 => r \in runs

\* A scan has come past, is at, or has yet to come to each of these.
ScanOK(s, sz, gone, dirty) ==
  /\ s \in ScanType
  /\ \A r \in Runs : Reaches(r, s.since[r], sz, gone)
  /\ RowsOK(s.since, s.rows, sz, gone)
  /\ ReaderOK(s.step, s.run, s.source, s.read, sz, gone, dirty)
  /\ s.step \in {"read", "cache", "stream", "store"} =>
       /\ s.run \in Runs /\ Reaches(s.run, 1, sz, gone) /\ s.since[s.run] <= s.source
       /\ Covers(s.since, s.left \cup {s.run} \cup DOMAIN s.rows, gone)
  /\ s.step \in {"entries", "write"} => Covers(s.since, DOMAIN s.rows, gone)

AnswerOK(a, gone) ==
  /\ a.kind \in {"none", "full", "catalog", "stat", "error"}
  /\ a.kind \in {"full", "catalog"} => Covers(a.since, DOMAIN a.rows, gone)
  /\ a.kind = "full" =>
       \A r \in DOMAIN a.rows : a.rows[r].state # "unavailable" => a.rows[r].of >= a.since[r]

\* A deleted run stays away, and a summary has the version it says or, if a file grew
\* while it was read, a newer one.
FilesOK ==
  /\ size \in [Runs -> Nat] /\ \A r \in Runs : size[r] \in Versions(r)
  /\ removed \in SUBSET Runs /\ \A r \in removed : size[r] = 0
  /\ DOMAIN summaries = Runs
  /\ \A r \in Runs : summaries[r] # None =>
       /\ summaries[r] \in [at : Versions(r), of : Versions(r)]
       /\ summaries[r].at <= summaries[r].of
       /\ ~raced => summaries[r].of = summaries[r].at
  /\ catalog # None => DOMAIN catalog \in SUBSET Runs
  /\ alive \in BOOLEAN /\ raced \in BOOLEAN
  /\ mishaps \in Mishaps

ClientsOK == DOMAIN client = Clients /\ \A c \in Clients : ClientOK(client[c], size, removed, raced)

ScansOK == DOMAIN scan = Scans /\ \A p \in Scans : ScanOK(scan[p], size, removed, raced)

AnswersOK == DOMAIN answer = Lists /\ \A h \in Lists : AnswerOK(answer[h], removed)

\* Only a deleted run kills the process.
ProcessOK == removed = {} => alive

IInv == FilesOK /\ ClientsOK /\ ScansOK /\ AnswersOK /\ ProcessOK

-----------------------------------------------------------------------------
(***************************************************************************)
(* Sequences: prefixes, pages, and the members of a set in order.          *)
(***************************************************************************)

\* A prefix agrees with the whole at each of its places.
LEMMA PrefixByItems ==
  ASSUME NEW s \in Seq(Nat), NEW t \in Seq(Nat)
  PROVE  IsPrefix(s, t) <=> Len(s) <= Len(t) /\ \A i \in 1..Len(s) : s[i] = t[i]
<1>1. CASE ~(Len(s) <= Len(t))
  BY <1>1 DEF IsPrefix
<1>2. CASE Len(s) <= Len(t)
  <2>1. SubSeq(s, 1, Len(s)) = [i \in 1..Len(s) |-> s[i]]
    OBVIOUS
  <2>2. SubSeq(t, 1, Len(s)) = [i \in 1..Len(s) |-> t[i]]
    BY <1>2
  <2>3. IsPrefix(s, t) <=> [i \in 1..Len(s) |-> s[i]] = [i \in 1..Len(s) |-> t[i]]
    BY <1>2, <2>1, <2>2 DEF IsPrefix
  <2> DEFINE F == [i \in 1..Len(s) |-> s[i]]
             G == [i \in 1..Len(s) |-> t[i]]
  <2>4. F = G <=> \A i \in 1..Len(s) : s[i] = t[i]
    <3>1. ASSUME F = G, NEW i \in 1..Len(s) PROVE s[i] = t[i]
      <4>1. F[i] = s[i] /\ G[i] = t[i]
        OBVIOUS
      <4> QED BY <3>1, <4>1
    <3> QED BY <3>1
  <2> QED BY <1>2, <2>3, <2>4
<1> QED BY <1>1, <1>2

LEMMA PrefixTransitive ==
  ASSUME NEW s \in Seq(Nat), NEW t \in Seq(Nat), NEW u \in Seq(Nat),
         IsPrefix(s, t), IsPrefix(t, u)
  PROVE  IsPrefix(s, u)
BY PrefixByItems

LEMMA EmptyPrefix ==
  ASSUME NEW t \in Seq(Nat)
  PROVE  IsPrefix(<<>>, t)
<1>1. ASSUME NEW s \in Seq(Nat), Len(s) = 0 PROVE IsPrefix(s, t)
  <2>1. Len(s) <= Len(t) /\ 1..Len(s) = {}
    BY <1>1
  <2> QED BY <2>1, PrefixByItems
<1>2. <<>> \in Seq(Nat) /\ Len(<<>>) = 0
  OBVIOUS
<1> QED BY <1>1, <1>2

\* A page is the items from its offset on, and may be empty.
LEMMA PageType ==
  ASSUME NEW rows \in Seq(Nat), NEW offset \in Nat
  PROVE  /\ PageItems(rows, offset) \in Seq(Nat)
         /\ offset <= Len(rows) => /\ offset + Len(PageItems(rows, offset)) <= Len(rows)
                                   /\ \A i \in 1..Len(PageItems(rows, offset)) :
                                        PageItems(rows, offset)[i] = rows[offset + i]
<1> DEFINE last == IF offset + PageLimit < Len(rows) THEN offset + PageLimit ELSE Len(rows)
<1>1. last \in Nat /\ last <= Len(rows) /\ PageItems(rows, offset) = SubSeq(rows, offset + 1, last)
  BY LargeRunsAssumption DEF PageItems
<1> HIDE DEF last
<1>2. CASE offset <= last
  BY <1>1, <1>2
<1>3. CASE ~(offset <= last)
  <2>1. SubSeq(rows, offset + 1, last) = <<>>
    BY <1>1, <1>3
  <2>2. last = Len(rows) \/ offset <= last
    BY LargeRunsAssumption DEF last
  <2> QED BY <1>1, <1>3, <2>1, <2>2
<1> QED BY <1>2, <1>3

\* The next page of a list continues what the client has of it.
LEMMA NextPageContinues ==
  ASSUME NEW rows \in Seq(Nat), NEW pages \in Seq(Nat), IsPrefix(pages, rows)
  PROVE  IsPrefix(pages \o PageItems(rows, Len(pages)), rows)
<1> DEFINE items == PageItems(rows, Len(pages))
           both == pages \o items
<1>1. Len(pages) <= Len(rows) /\ \A i \in 1..Len(pages) : pages[i] = rows[i]
  BY PrefixByItems
<1>2. items \in Seq(Nat) /\ Len(pages) + Len(items) <= Len(rows)
      /\ \A i \in 1..Len(items) : items[i] = rows[Len(pages) + i]
  BY <1>1, PageType
<1> HIDE DEF items
<1>3. both \in Seq(Nat) /\ Len(both) = Len(pages) + Len(items)
  BY <1>2
<1>4. ASSUME NEW i \in 1..Len(both) PROVE both[i] = rows[i]
  <2>1. CASE i <= Len(pages)
    BY <1>1, <1>2, <1>3, <2>1
  <2>2. CASE ~(i <= Len(pages))
    <3>1. i - Len(pages) \in 1..Len(items)
      BY <1>2, <1>3, <2>2
    <3>2. both[i] = items[i - Len(pages)]
      BY <1>2, <1>3, <2>2, <3>1
    <3>3. items[i - Len(pages)] = rows[Len(pages) + (i - Len(pages))]
      BY <1>2, <3>1
    <3> QED BY <3>2, <3>3, <1>2
  <2> QED BY <2>1, <2>2
<1> QED BY <1>2, <1>3, <1>4, PrefixByItems DEF items

\* Each place in the order of a finite set is taken by one member.
LEMMA PlacesAreTaken ==
  ASSUME NEW A, IsFiniteSet(A), NEW R,
         \A x \in A : <<x, x>> \notin R,
         \A x, y \in A : x # y => <<x, y>> \in R \/ <<y, x>> \in R,
         \A x, y, z \in A : <<x, y>> \in R /\ <<y, z>> \in R => <<x, z>> \in R
  PROVE  /\ \A k \in 1..Cardinality(A) :
              \E x \in A : Cardinality({y \in A : <<y, x>> \in R}) = k - 1
         /\ \A x, z \in A :
              Cardinality({y \in A : <<y, x>> \in R}) = Cardinality({y \in A : <<y, z>> \in R}) => x = z
<1> DEFINE below(x) == {y \in A : <<y, x>> \in R}
           N == Cardinality(A)
           place == [x \in A |-> Cardinality(below(x)) + 1]
<1>0. N \in Nat
  BY FS_CardinalityType
<1>1. ASSUME NEW x \in A
      PROVE  IsFiniteSet(below(x)) /\ Cardinality(below(x)) \in Nat /\ Cardinality(below(x)) < N
  <2>1. below(x) \in SUBSET A /\ below(x) # A
    OBVIOUS
  <2>2. IsFiniteSet(below(x)) /\ Cardinality(below(x)) <= N /\ N # Cardinality(below(x))
    BY <2>1, FS_Subset
  <2>3. Cardinality(below(x)) \in Nat
    BY <2>2, FS_CardinalityType
  <2> QED BY <1>0, <2>2, <2>3
<1>2. ASSUME NEW x \in A, NEW z \in A, <<x, z>> \in R
      PROVE  Cardinality(below(x)) # Cardinality(below(z))
  <2>1. below(x) \in SUBSET below(z) /\ below(x) # below(z)
    <3>1. x \in below(z) /\ x \notin below(x)
      BY <1>2
    <3>2. ASSUME NEW y \in below(x) PROVE y \in below(z)
      BY <1>2
    <3> QED BY <3>1, <3>2
  <2> QED BY <1>1, <2>1, FS_Subset
<1>3. ASSUME NEW x \in A, NEW z \in A, Cardinality(below(x)) = Cardinality(below(z)) PROVE x = z
  BY <1>2, <1>3
<1>4. place \in Injection(A, 1..N)
  <2>1. place \in [A -> 1..N]
    <3>1. ASSUME NEW x \in A PROVE Cardinality(below(x)) + 1 \in 1..N
      BY <1>0, <1>1
    <3> QED BY <3>1
  <2>2. ASSUME NEW x \in A, NEW z \in A, place[x] = place[z] PROVE x = z
    <3> HIDE DEF below
    <3> QED BY <1>1, <1>3, <2>2
  <2> QED BY <2>1, <2>2 DEF Injection, IsInjective
<1>5. place \in Surjection(A, 1..N)
  <2>1. IsFiniteSet(1..N) /\ Cardinality(1..N) = N
    BY <1>0, FS_Interval
  <2> QED BY <1>4, <2>1, FS_Injection
<1>6. ASSUME NEW k \in 1..N PROVE \E x \in A : Cardinality(below(x)) = k - 1
  <2>1. PICK x \in A : place[x] = k
    BY <1>5 DEF Surjection
  <2>2. Cardinality(below(x)) + 1 = k
    BY <2>1
  <2> HIDE DEF below
  <2>3. Cardinality(below(x)) = k - 1
    BY <1>0, <1>1, <2>2
  <2> QED BY <2>3
<1> QED BY <1>3, <1>6

\* So it is for numbers in their own order.
LEMMA NumbersHavePlaces ==
  ASSUME NEW A \in SUBSET Nat, IsFiniteSet(A)
  PROVE  /\ \A k \in 1..Cardinality(A) : \E x \in A : Cardinality({y \in A : y < x}) = k - 1
         /\ \A x, z \in A : Cardinality({y \in A : y < x}) = Cardinality({y \in A : y < z}) => x = z
<1> DEFINE R == {e \in A \X A : e[1] < e[2]}
           below(x) == {y \in A : <<y, x>> \in R}
<1>1. ASSUME NEW x \in A, NEW y \in A PROVE <<x, y>> \in R <=> x < y
  OBVIOUS
<1>2. ASSUME NEW x \in A PROVE below(x) = {y \in A : y < x}
  BY <1>1
<1> HIDE DEF R
<1>3. \A x \in A : <<x, x>> \notin R
  BY <1>1
<1>4. \A x, y \in A : x # y => <<x, y>> \in R \/ <<y, x>> \in R
  BY <1>1
<1>5. \A x, y, z \in A : <<x, y>> \in R /\ <<y, z>> \in R => <<x, z>> \in R
  BY <1>1
<1>6. /\ \A k \in 1..Cardinality(A) : \E x \in A : Cardinality(below(x)) = k - 1
      /\ \A x, z \in A : Cardinality(below(x)) = Cardinality(below(z)) => x = z
  BY <1>3, <1>4, <1>5, PlacesAreTaken
<1> HIDE DEF below
<1> QED BY <1>2, <1>6

\* A finite set of numbers has a greatest one, if any.
LEMMA GreatestNumber ==
  ASSUME NEW A \in SUBSET Nat, IsFiniteSet(A), A # {}
  PROVE  \E m \in A : \A j \in A : j <= m
<1> DEFINE N == Cardinality(A)
<1>1. N \in Nat /\ N # 0
  BY FS_CardinalityType, FS_EmptySet
<1>2. PICK m \in A : Cardinality({y \in A : y < m}) = N - 1
  BY <1>1, NumbersHavePlaces
<1>3. A \ {m} \in SUBSET A /\ IsFiniteSet(A \ {m}) /\ Cardinality(A \ {m}) = N - 1
  BY FS_RemoveElement
<1>4. {y \in A : y < m} \in SUBSET (A \ {m})
  OBVIOUS
<1>5. {y \in A : y < m} = A \ {m}
  BY <1>2, <1>3, <1>4, FS_Subset
<1> QED BY <1>5

-----------------------------------------------------------------------------
(***************************************************************************)
(* The lists that the pages are of.                                        *)
(***************************************************************************)
LEMMA LinesAreFinite ==
  ASSUME NEW r, NEW n \in Nat, NEW A \in SUBSET Lines(r, n)
  PROVE  A \in SUBSET Nat /\ IsFiniteSet(A)
<1>1. IsFiniteSet(1..n) /\ A \in SUBSET (1..n)
  BY FS_Interval DEF Lines
<1>2. IsFiniteSet(A)
  BY <1>1, FS_Subset
<1>3. A \in SUBSET Nat
  BY <1>1
<1> QED BY <1>2, <1>3

LEMMA ArtifactsType ==
  ASSUME NEW r \in Runs, NEW n \in Versions(r), NEW q
  PROVE  /\ ArtifactsOf(r, n, q) \in Seq(Nat)
         /\ Len(ArtifactsOf(r, n, q)) = Cardinality(ArtifactLines(r, n, q))
<1> DEFINE A == ArtifactLines(r, n, q)
           item(k) == CHOOSE x \in A : Cardinality({y \in A : y < x}) = k - 1
<1>1. A \in SUBSET Nat /\ IsFiniteSet(A) /\ Cardinality(A) \in Nat
  <2>1. n \in Nat /\ A \in SUBSET Lines(r, n)
    BY LargeRunsAssumption DEF ArtifactLines, Versions
  <2>2. A \in SUBSET Nat /\ IsFiniteSet(A)
    BY <2>1, LinesAreFinite
  <2> QED BY <2>2, FS_CardinalityType
<1>2. ArtifactsOf(r, n, q) = [k \in 1..Cardinality(A) |-> item(k)]
  BY DEF ArtifactsOf, InOrder
<1>3. ASSUME NEW k \in 1..Cardinality(A) PROVE item(k) \in Nat
  BY <1>1, <1>3, NumbersHavePlaces
<1> HIDE DEF A, item
<1> QED BY <1>1, <1>2, <1>3 DEF A

\* The artifacts of a version are the first ones of every later version.
LEMMA ArtifactsGrow ==
  ASSUME NEW r \in Runs, NEW n \in Versions(r), NEW m \in Versions(r), n <= m, NEW q
  PROVE  IsPrefix(ArtifactsOf(r, n, q), ArtifactsOf(r, m, q))
<1> DEFINE A == ArtifactLines(r, n, q)
           B == ArtifactLines(r, m, q)
           inA(x) == {y \in A : y < x}
           inB(x) == {y \in B : y < x}
<1>0. n \in Nat /\ m \in Nat
  BY LargeRunsAssumption DEF Versions
<1>1. A \in SUBSET Nat /\ IsFiniteSet(A) /\ B \in SUBSET Nat /\ IsFiniteSet(B)
  BY <1>0, LinesAreFinite DEF ArtifactLines
<1>2. A \in SUBSET B /\ \A x \in A, y \in B : y < x => y \in A
  BY <1>0 DEF ArtifactLines, Lines
<1>3. Cardinality(A) \in Nat /\ Cardinality(B) \in Nat /\ Cardinality(A) <= Cardinality(B)
  BY <1>1, <1>2, FS_Subset, FS_CardinalityType
<1> HIDE DEF A, B
<1>4. ASSUME NEW x \in A PROVE inA(x) = inB(x)
  BY <1>2
<1>5. ASSUME NEW k \in 1..Cardinality(A)
      PROVE  ArtifactsOf(r, n, q)[k] = ArtifactsOf(r, m, q)[k]
  <2> DEFINE x == CHOOSE e \in A : Cardinality(inA(e)) = k - 1
             z == CHOOSE e \in B : Cardinality(inB(e)) = k - 1
  <2>1. x \in A /\ Cardinality(inA(x)) = k - 1
    BY <1>1, NumbersHavePlaces
  <2>2. z \in B /\ Cardinality(inB(z)) = k - 1
    <3>1. k \in 1..Cardinality(B)
      BY <1>3
    <3> QED BY <1>1, <3>1, NumbersHavePlaces
  <2>3. ArtifactsOf(r, n, q)[k] = x /\ ArtifactsOf(r, m, q)[k] = z
    <3>1. ArtifactsOf(r, n, q) =
            [j \in 1..Cardinality(A) |-> CHOOSE e \in A : Cardinality(inA(e)) = j - 1]
      BY DEF ArtifactsOf, InOrder, A
    <3>2. ArtifactsOf(r, m, q) =
            [j \in 1..Cardinality(B) |-> CHOOSE e \in B : Cardinality(inB(e)) = j - 1]
      BY DEF ArtifactsOf, InOrder, B
    <3>3. k \in 1..Cardinality(B)
      BY <1>3
    <3> QED BY <3>1, <3>2, <3>3
  <2> HIDE DEF x, z
  <2>4. Cardinality(inB(x)) = Cardinality(inB(z)) /\ x \in B
    BY <1>2, <1>4, <2>1, <2>2
  <2>5. x = z
    BY <1>1, <2>2, <2>4, NumbersHavePlaces
  <2> QED BY <2>3, <2>5
<1> QED BY <1>3, <1>5, ArtifactsType, PrefixByItems DEF A, B

LEMMA RequestsType ==
  ASSUME NEW r \in Runs, NEW n \in Versions(r)
  PROVE  Requests(r, n) \in Seq(Nat)
<1> DEFINE S == {Log[r][i].request : i \in Lines(r, n)}
           of(q) == {i \in Lines(r, n) : Log[r][i].request = q}
           R == {e \in S \X S : Latest(r, n, e[1]) > Latest(r, n, e[2])}
           below(x) == {y \in S : Latest(r, n, y) > Latest(r, n, x)}
           item(k) == CHOOSE x \in S : Cardinality(below(x)) = k - 1
<1>0. n \in Nat /\ \A i \in Lines(r, n) : i \in Nat /\ Log[r][i] \in Piece
  BY LargeRunsAssumption DEF Versions, Lines
<1>1. IsFiniteSet(S) /\ S \in SUBSET Nat
  <2>1. IsFiniteSet(Lines(r, n))
    BY <1>0, LinesAreFinite
  <2>2. IsFiniteSet(S)
    <3> DEFINE named == [i \in Lines(r, n) |-> Log[r][i].request]
    <3>1. named \in Surjection(Lines(r, n), S)
      BY DEF Surjection
    <3> QED BY <2>1, <3>1, FS_Surjection
  <2> QED BY <1>0, <2>2 DEF Piece
<1>2. ASSUME NEW q \in S
      PROVE  Latest(r, n, q) \in Nat /\ Log[r][Latest(r, n, q)].request = q
  <2>1. of(q) \in SUBSET Nat /\ IsFiniteSet(of(q)) /\ of(q) # {}
    BY <1>0, LinesAreFinite
  <2>2. PICK i \in of(q) : \A j \in of(q) : j <= i
    BY <2>1, GreatestNumber
  <2>3. \E e \in Lines(r, n) :
          Log[r][e].request = q /\ \A j \in Lines(r, n) : Log[r][j].request = q => j <= e
    BY <2>2
  <2>4. Latest(r, n, q) \in Lines(r, n) /\ Log[r][Latest(r, n, q)].request = q
    BY <2>3 DEF Latest
  <2> QED BY <1>0, <2>4
<1>3. ASSUME NEW x \in S, NEW y \in S PROVE <<x, y>> \in R <=> Latest(r, n, x) > Latest(r, n, y)
  OBVIOUS
<1> HIDE DEF S, R
<1>4. \A x \in S : <<x, x>> \notin R
  BY <1>2, <1>3
<1>5. \A x, y \in S : x # y => <<x, y>> \in R \/ <<y, x>> \in R
  BY <1>2, <1>3
<1>6. \A x, y, z \in S : <<x, y>> \in R /\ <<y, z>> \in R => <<x, z>> \in R
  BY <1>2, <1>3
<1>7. /\ \A k \in 1..Cardinality(S) :
           \E x \in S : Cardinality({y \in S : <<y, x>> \in R}) = k - 1
      /\ \A x, z \in S :
           Cardinality({y \in S : <<y, x>> \in R}) = Cardinality({y \in S : <<y, z>> \in R}) => x = z
  <2>1. IsFiniteSet(S)
    BY <1>1
  <2> HIDE DEF below, item
  <2> QED BY <2>1, <1>4, <1>5, <1>6, PlacesAreTaken
<1>8. ASSUME NEW x \in S PROVE {y \in S : <<y, x>> \in R} = below(x)
  BY <1>3
<1>9. ASSUME NEW k \in 1..Cardinality(S) PROVE item(k) \in Nat
  BY <1>1, <1>7, <1>8
<1>10. Requests(r, n) = [k \in 1..Cardinality(S) |-> item(k)]
  BY DEF Requests, InOrder, S
<1>11. Cardinality(S) \in Nat
  BY <1>1, FS_CardinalityType
<1> HIDE DEF item
<1> QED BY <1>9, <1>10, <1>11

-----------------------------------------------------------------------------
(***************************************************************************)
(* What holds of a client, a scan or an answer goes on to hold while the   *)
(* files change: runs grow or are deleted.                                 *)
(***************************************************************************)
Sizes == {sz \in [Runs -> Nat] : \A r \in Runs : sz[r] \in Versions(r)}

Later(sz, gone, dirty, sz2, gone2, dirty2) ==
  /\ sz \in Sizes /\ sz2 \in Sizes
  /\ gone \subseteq gone2 /\ (dirty => dirty2)
  /\ \A r \in Runs : Reaches(r, sz[r], sz2, gone2)

LEMMA ReachesLater ==
  ASSUME NEW sz, NEW gone, NEW dirty, NEW sz2, NEW gone2, NEW dirty2,
         Later(sz, gone, dirty, sz2, gone2, dirty2),
         NEW r \in Runs, NEW n \in Nat, Reaches(r, n, sz, gone)
  PROVE  Reaches(r, n, sz2, gone2)
BY DEF Later, Reaches, Sizes

LEMMA ReaderLater ==
  ASSUME NEW sz, NEW gone, NEW dirty, NEW sz2, NEW gone2, NEW dirty2,
         Later(sz, gone, dirty, sz2, gone2, dirty2),
         NEW step, NEW run, NEW source, NEW read,
         ReaderOK(step, run, source, read, sz, gone, dirty)
  PROVE  ReaderOK(step, run, source, read, sz2, gone2, dirty2)
<1>1. \A r \in Runs : Versions(r) \subseteq Nat
  BY LargeRunsAssumption DEF Versions
<1> QED BY <1>1, ReachesLater DEF ReaderOK, Later

LEMMA ListLater ==
  ASSUME NEW sz, NEW gone, NEW dirty, NEW sz2, NEW gone2, NEW dirty2,
         Later(sz, gone, dirty, sz2, gone2, dirty2),
         NEW list, ListOK(list, sz, gone, dirty)
  PROVE  ListOK(list, sz2, gone2, dirty2)
<1>1. ASSUME list.request # None, list.run \notin gone2
      PROVE  IsPrefix(list.pages, ArtifactsOf(list.run, sz2[list.run], list.request))
  <2>1. /\ list.run \in Runs /\ list.pages \in Seq(Nat)
        /\ IsPrefix(list.pages, ArtifactsOf(list.run, sz[list.run], list.request))
    BY <1>1 DEF ListOK, ListType, Later
  <2>2. /\ sz[list.run] \in Versions(list.run) /\ sz2[list.run] \in Versions(list.run)
        /\ sz[list.run] <= sz2[list.run]
    BY <1>1, <2>1 DEF Later, Sizes, Reaches
  <2> QED BY <2>1, <2>2, ArtifactsGrow, ArtifactsType, PrefixTransitive
<1> QED BY <1>1 DEF ListOK, Later

LEMMA ClientLater ==
  ASSUME NEW sz, NEW gone, NEW dirty, NEW sz2, NEW gone2, NEW dirty2,
         Later(sz, gone, dirty, sz2, gone2, dirty2),
         NEW k, ClientOK(k, sz, gone, dirty)
  PROVE  ClientOK(k, sz2, gone2, dirty2)
BY ReaderLater, ListLater DEF ClientOK

LEMMA ScanLater ==
  ASSUME NEW sz, NEW gone, NEW dirty, NEW sz2, NEW gone2, NEW dirty2,
         Later(sz, gone, dirty, sz2, gone2, dirty2),
         NEW s, ScanOK(s, sz, gone, dirty)
  PROVE  ScanOK(s, sz2, gone2, dirty2)
<1>1. s \in ScanType
  BY DEF ScanOK
<1>2. \A r \in Runs : Reaches(r, s.since[r], sz2, gone2)
  BY <1>1, ReachesLater DEF ScanOK, ScanType
<1>3. RowsOK(s.since, s.rows, sz2, gone2)
  <2>1. DOMAIN s.rows \subseteq Runs
    BY <1>1 DEF ScanType, Maps
  <2> QED BY <2>1, ReachesLater DEF ScanOK, RowsOK
<1>4. ReaderOK(s.step, s.run, s.source, s.read, sz2, gone2, dirty2)
  BY ReaderLater DEF ScanOK
<1>5. \A runs : Covers(s.since, runs, gone) => Covers(s.since, runs, gone2)
  BY DEF Covers, Later
<1>6. s.run \in Runs /\ Reaches(s.run, 1, sz, gone) => Reaches(s.run, 1, sz2, gone2)
  BY ReachesLater
<1> QED BY <1>1, <1>2, <1>3, <1>4, <1>5, <1>6 DEF ScanOK

LEMMA AnswerLater ==
  ASSUME NEW gone, NEW gone2, gone \subseteq gone2, NEW a, AnswerOK(a, gone)
  PROVE  AnswerOK(a, gone2)
BY DEF AnswerOK, Covers

\* The invariant of all of them after a step that changes some, each to what is right
\* of the files of before.
LEMMA StepKeepsAll ==
  ASSUME IInv, Later(size, removed, raced, size', removed', raced'),
         DOMAIN client' = Clients, DOMAIN scan' = Scans, DOMAIN answer' = Lists,
         \A c \in Clients : client'[c] = client[c] \/ ClientOK(client'[c], size', removed', raced'),
         \A p \in Scans : scan'[p] = scan[p] \/ ScanOK(scan'[p], size', removed', raced'),
         \A h \in Lists : answer'[h] = answer[h] \/ AnswerOK(answer'[h], removed')
  PROVE  ClientsOK' /\ ScansOK' /\ AnswersOK'
<1>1. ASSUME NEW c \in Clients PROVE ClientOK(client'[c], size', removed', raced')
  BY <1>1, ClientLater DEF IInv, ClientsOK
<1>2. ASSUME NEW p \in Scans PROVE ScanOK(scan'[p], size', removed', raced')
  BY <1>2, ScanLater DEF IInv, ScansOK
<1>3. ASSUME NEW h \in Lists PROVE AnswerOK(answer'[h], removed')
  BY <1>3, AnswerLater DEF IInv, AnswersOK, Later
<1> QED BY <1>1, <1>2, <1>3 DEF ClientsOK, ScansOK, AnswersOK

-----------------------------------------------------------------------------
(***************************************************************************)
(* The initial states.                                                     *)
(***************************************************************************)
LEMMA EmptyMap ==
  ASSUME NEW S, NEW T
  PROVE  <<>> \in Maps(S, T) /\ DOMAIN <<>> = {}
<1>1. <<>> = [r \in {} |-> 0]
  OBVIOUS
<1> QED BY <1>1 DEF Maps

LEMMA RestingIsOK ==
  ASSUME NEW sz, NEW gone, NEW dirty
  PROVE  ClientOK(Resting(NoList), sz, gone, dirty)
<1>1. Resting(NoList).list = NoList /\ Resting(NoList).step = "idle"
  BY DEF Resting
<1>2. NoList \in ListType /\ Resting(NoList) \in ClientType
  BY DEF NoList, ListType, Resting, ClientType
<1>3. ListOK(NoList, sz, gone, dirty)
  BY <1>2 DEF ListOK, NoList
<1> QED BY <1>1, <1>2, <1>3 DEF ClientOK, ReaderOK

LEMMA EmptyScanIsOK ==
  ASSUME NEW sz \in [Runs -> Nat], NEW gone, NEW dirty, NEW s \in ScanType,
         s.step \in {"idle", "list"}, s.rows = <<>>, s.since = [r \in Runs |-> 0]
  PROVE  ScanOK(s, sz, gone, dirty)
<1>1. \A r \in Runs : Reaches(r, s.since[r], sz, gone)
  BY DEF Reaches
<1>2. RowsOK(s.since, s.rows, sz, gone)
  BY EmptyMap DEF RowsOK
<1>3. s.step = "idle" \/ s.step = "list"
  OBVIOUS
<1> QED BY <1>1, <1>2, <1>3 DEF ScanOK, ReaderOK

LEMMA NoScanType == NoScan \in ScanType
BY EmptyMap DEF ScanType, NoScan

LEMMA IdleScanIsOK ==
  ASSUME NEW sz \in [Runs -> Nat], NEW gone, NEW dirty
  PROVE  ScanOK(NoScan, sz, gone, dirty)
<1>1. NoScan.step = "idle" /\ NoScan.rows = <<>> /\ NoScan.since = [r \in Runs |-> 0]
  BY DEF NoScan
<1> QED BY <1>1, NoScanType, EmptyScanIsOK

LEMMA NoAnswerIsOK ==
  ASSUME NEW gone
  PROVE  AnswerOK(NoAnswer, gone)
BY DEF AnswerOK, NoAnswer

LEMMA InitHolds == Init => IInv
<1> SUFFICES ASSUME Init PROVE IInv
  OBVIOUS
<1>1. FilesOK /\ ProcessOK
  <2>1. \A r \in Runs : 0 \in Versions(r)
    BY LargeRunsAssumption DEF Versions
  <2>2. mishaps \in Mishaps
    BY LargeRunsAssumption DEF Init, LargeInit, Mishaps
  <2> QED BY <2>1, <2>2 DEF Init, LargeInit, FilesOK, ProcessOK
<1>2. ClientsOK
  BY RestingIsOK DEF Init, LargeInit, ClientsOK, Resting
<1>3. ScansOK
  BY <1>1, IdleScanIsOK DEF Init, ScansOK, FilesOK
<1>4. AnswersOK
  BY NoAnswerIsOK DEF Init, AnswersOK
<1> QED BY <1>1, <1>2, <1>3, <1>4 DEF IInv

-----------------------------------------------------------------------------
(***************************************************************************)
(* The steps of the files and of the clients that load pages.              *)
(***************************************************************************)
LEMMA SameFiles ==
  ASSUME FilesOK, size' = size, removed' = removed, raced => raced'
  PROVE  Later(size, removed, raced, size', removed', raced')
BY DEF Later, Sizes, FilesOK, Reaches

\* The bounded steps are counted up to their bound.
LEMMA CountType ==
  ASSUME FilesOK,
         \/ Count("requests") /\ mishaps.requests < MaxRequests
         \/ Count("removals") /\ mishaps.removals < MaxRemovals
         \/ Count("writes") /\ mishaps.writes < MaxWriteFails
  PROVE  mishaps' \in Mishaps
BY LargeRunsAssumption DEF FilesOK, Count, Mishaps

LEMMA GrowKeeps ==
  ASSUME IInv, NEW r \in Runs, Grow(r), UNCHANGED catalogVars
  PROVE  IInv'
<1>1. FilesOK'
  BY LargeRunsAssumption DEF IInv, FilesOK, Grow, catalogVars, Versions
<1>2. Later(size, removed, raced, size', removed', raced')
  BY <1>1 DEF IInv, FilesOK, Grow, Later, Sizes, Reaches
<1>3. ClientsOK' /\ ScansOK' /\ AnswersOK'
  BY <1>2, StepKeepsAll DEF IInv, ClientsOK, ScansOK, AnswersOK, Grow, catalogVars
<1> QED BY <1>1, <1>3 DEF IInv, ProcessOK, Grow

LEMMA DeleteRunKeeps ==
  ASSUME IInv, NEW r \in Runs, DeleteRun(r), UNCHANGED catalogVars
  PROVE  IInv'
<1>1. FilesOK'
  BY LargeRunsAssumption, CountType DEF IInv, FilesOK, DeleteRun, catalogVars, Versions
<1>2. Later(size, removed, raced, size', removed', raced')
  BY <1>1 DEF IInv, FilesOK, DeleteRun, Later, Sizes, Reaches
<1>3. ClientsOK' /\ ScansOK' /\ AnswersOK'
  BY <1>2, StepKeepsAll DEF IInv, ClientsOK, ScansOK, AnswersOK, DeleteRun, catalogVars
<1> QED BY <1>1, <1>3 DEF IInv, ProcessOK, DeleteRun

\* A step of a client: the scans and answers stay.
LEMMA ClientStepKeeps ==
  ASSUME IInv, NEW c \in Clients, NEW k, client' = [client EXCEPT ![c] = k],
         FilesOK', Later(size, removed, raced, size', removed', raced'),
         ClientOK(k, size', removed', raced'),
         UNCHANGED <<removed, alive>>, UNCHANGED catalogVars
  PROVE  IInv'
<1>1. ClientsOK' /\ ScansOK' /\ AnswersOK'
  BY StepKeepsAll DEF IInv, ClientsOK, ScansOK, AnswersOK, catalogVars
<1> QED BY <1>1 DEF IInv, ProcessOK

LEMMA FetchKeeps ==
  ASSUME IInv, NEW c \in Clients, NEW list, Fetch(c, list), UNCHANGED catalogVars,
         ListOK(list, size, removed, raced),
         list.run \in Runs, list.next = Len(list.pages)
  PROVE  IInv'
<1>1. FilesOK'
  BY CountType DEF IInv, FilesOK, Fetch, catalogVars
<1>2. Later(size, removed, raced, size', removed', raced')
  BY SameFiles DEF IInv, Fetch
<1>3. CASE size[list.run] = 0 \/ (list.of # {} /\ list.at # size[list.run])
  BY <1>1, <1>2, <1>3, RestingIsOK, ClientStepKeeps DEF Fetch, Refuse
<1>4. CASE ~(size[list.run] = 0 \/ (list.of # {} /\ list.at # size[list.run]))
  <2> DEFINE k == [list |-> list, step |-> IF list.request = None THEN "cache" ELSE "artifacts",
                   source |-> size[list.run], read |-> 0]
  <2>1. client' = [client EXCEPT ![c] = k]
    BY <1>4 DEF Fetch
  <2>2. size[list.run] \in Nat /\ size[list.run] \in Versions(list.run) /\ list \in ListType
    BY DEF IInv, FilesOK, ListOK
  <2>3. k \in ClientType
    BY <2>2 DEF ClientType
  <2>4. ReaderOK(k.step, list.run, k.source, k.read, size, removed, raced)
    BY <2>2 DEF ReaderOK, Reaches
  <2>5. ClientOK(k, size, removed, raced)
    BY <1>4, <2>3, <2>4 DEF ClientOK
  <2>6. size' = size /\ removed' = removed /\ raced' = raced /\ alive' = alive
    BY DEF Fetch
  <2> HIDE DEF k
  <2> QED BY <1>1, <1>2, <2>1, <2>5, <2>6, ClientStepKeeps
<1> QED BY <1>3, <1>4

LEMMA FetchFirstKeeps ==
  ASSUME IInv, NEW c \in Clients, FetchFirst(c), UNCHANGED catalogVars
  PROVE  IInv'
<1>1. PICK f \in Followed :
        Fetch(c, [NoList EXCEPT !.run = f.run, !.request = f.request, !.next = 0])
  BY DEF FetchFirst
<1> DEFINE list == [NoList EXCEPT !.run = f.run, !.request = f.request, !.next = 0]
<1>2. /\ list.run = f.run /\ list.request = f.request /\ list.next = 0
      /\ list.pages = <<>> /\ list.of = {} /\ f.run \in Runs
  BY LargeRunsAssumption DEF NoList
<1>3. list \in ListType
  <2>1. NoList \in ListType
    BY DEF NoList, ListType
  <2> QED BY <1>2, <2>1 DEF ListType
<1>4. IsPrefix(<<>>, ArtifactsOf(f.run, size[f.run], f.request))
  BY <1>2, ArtifactsType, EmptyPrefix DEF IInv, FilesOK
<1>5. Len(list.pages) = 0
  BY <1>2
<1> HIDE DEF list
<1>6. ListOK(list, size, removed, raced)
  BY <1>2, <1>3, <1>4, <1>5 DEF ListOK
<1>7. Fetch(c, list)
  BY <1>1 DEF list
<1> QED BY <1>2, <1>5, <1>6, <1>7, FetchKeeps

LEMMA FetchNextKeeps ==
  ASSUME IInv, NEW c \in Clients, FetchNext(c), UNCHANGED catalogVars
  PROVE  IInv'
<1>1. ListOK(client[c].list, size, removed, raced) /\ client[c].list.next # None
  BY DEF IInv, ClientsOK, ClientOK, FetchNext
<1>2. client[c].list.run \in Runs /\ client[c].list.next = Len(client[c].list.pages)
  BY <1>1 DEF ListOK
<1> QED BY <1>1, <1>2, FetchKeeps DEF FetchNext

\* An answer adds the next page of the version that it is made from.
LEMMA AnswerKeepsClient ==
  ASSUME IInv, NEW c \in Clients, client[c].step # "idle",
         NEW rows \in Seq(Nat), NEW v \in Nat, Answer(c, rows, v),
         client[c].list.request # None =>
           rows = ArtifactsOf(client[c].list.run, size[client[c].list.run], client[c].list.request),
         client[c].list.request = None =>
           rows = Requests(client[c].list.run, v) /\ (~raced => v = client[c].source)
  PROVE  \E k : client' = [client EXCEPT ![c] = k] /\ ClientOK(k, size, removed, raced)
<1> DEFINE k == client[c]
           list == k.list
           items == PageItems(rows, list.next)
           next == [list EXCEPT !.pages = @ \o items, !.of = @ \cup {v},
                                !.next = NextOffset(rows, list.next), !.at = k.source]
<1>1. client' = [client EXCEPT ![c] = Resting(next)]
  BY DEF Answer
<1>2. /\ k \in ClientType /\ list \in ListType /\ ListOK(list, size, removed, raced)
      /\ list.run \in Runs /\ list.next = Len(list.pages)
      /\ list.of # {} => list.at = k.source
  BY DEF IInv, ClientsOK, ClientOK, ClientType
<1>3. list.pages \in Seq(Nat) /\ list.next \in Nat /\ k.source \in Nat /\ list.of \in SUBSET Nat
  BY <1>2 DEF ClientType, ListType
<1>4. items \in Seq(Nat)
  BY <1>3, PageType
<1> HIDE DEF items, k
<1>5. /\ next.run = list.run /\ next.request = list.request /\ next.pages = list.pages \o items
      /\ next.of = list.of \cup {v} /\ next.next = NextOffset(rows, list.next) /\ next.at = k.source
  BY <1>2 DEF ListType
<1>6. NextOffset(rows, list.next) # None =>
        NextOffset(rows, list.next) \in Nat /\ NextOffset(rows, list.next) = Len(list.pages \o items)
  <2>1. NextOffset(rows, list.next) # None => NextOffset(rows, list.next) = list.next + Len(items)
    BY DEF NextOffset, items
  <2>2. Len(list.pages \o items) = Len(list.pages) + Len(items) /\ Len(items) \in Nat
    BY <1>3, <1>4
  <2> QED BY <1>2, <1>3, <2>1, <2>2
<1>7. next \in ListType
  <2>1. NextOffset(rows, list.next) \in Nat \cup {None}
    BY <1>6
  <2>2. list.pages \o items \in Seq(Nat)
    BY <1>3, <1>4
  <2>3. list.of \cup {v} \in SUBSET Nat
    BY <1>3
  <2> QED BY <1>2, <1>3, <2>1, <2>2, <2>3 DEF ListType
<1>8. IsPrefix(list.pages, rows) => IsPrefix(list.pages \o items, rows)
  BY <1>2, <1>3, NextPageContinues DEF items
<1> HIDE DEF list, next
<1>9. ASSUME next.request # None, next.run \notin removed
      PROVE  IsPrefix(next.pages, ArtifactsOf(next.run, size[next.run], next.request))
  BY <1>2, <1>5, <1>8, <1>9 DEF ListOK, k, list
<1>10. ASSUME ~raced, next.run # None, next.request = None, NEW w \in next.of
       PROVE  w = next.at /\ IsPrefix(next.pages, Requests(next.run, w))
  <2>1. v = k.source /\ rows = Requests(list.run, v)
    BY <1>5, <1>10 DEF k, list
  <2>2. CASE list.of = {}
    <3>1. list.pages = <<>> /\ IsPrefix(<<>>, rows)
      BY <1>2, <2>2, EmptyPrefix DEF ListOK
    <3> QED BY <1>5, <1>8, <1>10, <2>1, <2>2, <3>1
  <2>3. CASE list.of # {}
    <3>1. \A u \in list.of : u = list.at /\ IsPrefix(list.pages, Requests(list.run, u))
      BY <1>2, <1>5, <1>10 DEF ListOK
    <3>2. w = k.source /\ IsPrefix(list.pages, rows)
      BY <1>2, <1>5, <1>10, <2>1, <2>3, <3>1
    <3> QED BY <1>5, <1>8, <2>1, <3>2
  <2> QED BY <2>2, <2>3
<1>11. next.of # {}
  BY <1>5
<1>12. ListOK(next, size, removed, raced)
  BY <1>2, <1>5, <1>6, <1>7, <1>9, <1>10, <1>11 DEF ListOK
<1>13. Resting(next).list = next /\ Resting(next).step = "idle" /\ Resting(next) \in ClientType
  BY <1>7 DEF Resting, ClientType
<1>14. ClientOK(Resting(next), size, removed, raced)
  BY <1>12, <1>13 DEF ClientOK, ReaderOK
<1> QED BY <1>1, <1>14 DEF next, list, k

LEMMA PageArtifactsKeeps ==
  ASSUME IInv, NEW c \in Clients, PageArtifacts(c), UNCHANGED catalogVars
  PROVE  IInv'
<1> DEFINE run == client[c].list.run
<1>1. FilesOK' /\ Later(size, removed, raced, size', removed', raced')
  <2>1. FilesOK'
    BY DEF IInv, FilesOK, PageArtifacts, fileVars, catalogVars
  <2> QED BY <2>1, SameFiles DEF IInv, PageArtifacts, fileVars
<1>2. size' = size /\ removed' = removed /\ raced' = raced /\ alive' = alive
  BY DEF PageArtifacts, fileVars
<1>3. ClientOK(client[c], size, removed, raced) /\ client[c].step = "artifacts"
  BY DEF IInv, ClientsOK, PageArtifacts
<1>4. run \in Runs /\ client[c].list.request # None /\ size[run] \in Versions(run) /\ size[run] \in Nat
  BY <1>3 DEF ClientOK, IInv, FilesOK
<1>5. CASE size[run] = 0
  <2>1. client' = [client EXCEPT ![c] = Resting(NoList)]
    BY <1>5 DEF PageArtifacts, Refuse
  <2> QED BY <1>1, <1>2, <2>1, RestingIsOK, ClientStepKeeps
<1>6. CASE size[run] # 0
  <2>1. Answer(c, ArtifactsOf(run, size[run], client[c].list.request), size[run])
    BY <1>6 DEF PageArtifacts
  <2>2. ArtifactsOf(run, size[run], client[c].list.request) \in Seq(Nat)
    BY <1>4, ArtifactsType
  <2>3. client[c].step # "idle"
    BY <1>3
  <2>4. PICK k : client' = [client EXCEPT ![c] = k] /\ ClientOK(k, size, removed, raced)
    BY <1>4, <2>1, <2>2, <2>3, AnswerKeepsClient
  <2> QED BY <1>1, <1>2, <2>4, ClientStepKeeps
<1> QED BY <1>5, <1>6

LEMMA PageCachedKeeps ==
  ASSUME IInv, NEW c \in Clients, PageCached(c), UNCHANGED catalogVars
  PROVE  IInv'
<1> DEFINE run == client[c].list.run
<1>1. FilesOK' /\ Later(size, removed, raced, size', removed', raced')
  <2>1. FilesOK'
    BY DEF IInv, FilesOK, PageCached, fileVars, catalogVars
  <2> QED BY <2>1, SameFiles DEF IInv, PageCached, fileVars
<1>2. size' = size /\ removed' = removed /\ raced' = raced /\ alive' = alive
  BY DEF PageCached, fileVars
<1>3. ClientOK(client[c], size, removed, raced) /\ client[c].step = "cache"
  BY DEF IInv, ClientsOK, PageCached
<1>4. run \in Runs /\ client[c].list.request = None
  BY <1>3 DEF ClientOK
<1>5. CASE IsCached(run, client[c].source)
  <2>1. Answer(c, Requests(run, summaries[run].of), summaries[run].of)
    BY <1>5 DEF PageCached
  <2>2. summaries[run].of \in Versions(run) /\ (~raced => summaries[run].of = client[c].source)
    BY <1>4, <1>5 DEF IsCached, IInv, FilesOK
  <2>3. summaries[run].of \in Nat /\ Requests(run, summaries[run].of) \in Seq(Nat)
    BY <1>4, <2>2, RequestsType, LargeRunsAssumption DEF Versions
  <2>4. client[c].step # "idle"
    BY <1>3
  <2>5. PICK k : client' = [client EXCEPT ![c] = k] /\ ClientOK(k, size, removed, raced)
    BY <1>4, <2>1, <2>2, <2>3, <2>4, AnswerKeepsClient
  <2> QED BY <1>1, <1>2, <2>5, ClientStepKeeps
<1>6. CASE ~IsCached(run, client[c].source)
  <2> DEFINE k == [client[c] EXCEPT !.step = "stream"]
  <2>1. client' = [client EXCEPT ![c] = k]
    BY <1>6 DEF PageCached
  <2>2. client[c] \in ClientType
    BY <1>3 DEF ClientOK
  <2>3. /\ k \in ClientType /\ k.step = "stream" /\ k.list = client[c].list
        /\ k.source = client[c].source /\ k.read = client[c].read
    BY <2>2 DEF ClientType
  <2> HIDE DEF k
  <2>4. ClientOK(k, size, removed, raced)
    BY <1>3, <2>3 DEF ClientOK, ReaderOK
  <2> QED BY <1>1, <1>2, <2>1, <2>4, ClientStepKeeps
<1> QED BY <1>5, <1>6

LEMMA PageStreamKeeps ==
  ASSUME IInv, NEW c \in Clients, PageStream(c), UNCHANGED catalogVars
  PROVE  IInv'
<1> DEFINE run == client[c].list.run
<1>1. FilesOK'
  BY DEF IInv, FilesOK, PageStream, fileVars, catalogVars
<1>2. size' = size /\ removed' = removed /\ alive' = alive /\ (raced => raced')
  BY DEF PageStream, fileVars
<1>3. Later(size, removed, raced, size', removed', raced')
  BY <1>2, SameFiles DEF IInv
<1>4. ClientOK(client[c], size, removed, raced) /\ client[c].step = "stream"
  BY DEF IInv, ClientsOK, PageStream
<1>5. CASE size[run] = 0
  <2>1. client' = [client EXCEPT ![c] = Resting(NoList)]
    BY <1>5 DEF PageStream, Refuse
  <2> QED BY <1>1, <1>2, <1>3, <2>1, RestingIsOK, ClientStepKeeps
<1>6. CASE size[run] # 0
  <2> DEFINE k == [client[c] EXCEPT !.step = "store", !.read = size[run]]
  <2>1. client' = [client EXCEPT ![c] = k]
    BY <1>6 DEF PageStream
  <2>2. client[c] \in ClientType /\ run \in Runs
    BY <1>4 DEF ClientOK
  <2>3. size[run] \in Nat /\ size[run] \in Versions(run) /\ run \notin removed
    BY <1>6, <2>2 DEF IInv, FilesOK
  <2>4. /\ k \in ClientType /\ k.step = "store" /\ k.list = client[c].list
        /\ k.source = client[c].source /\ k.read = size[run] /\ k.source \in Nat
    BY <2>2, <2>3 DEF ClientType
  <2>5. k.source <= k.read /\ (~raced' => k.read = k.source)
    <3>1. ~raced' => ~(size[run] > client[c].source)
      BY DEF PageStream
    <3>2. client[c].source <= size[run]
      BY <1>4, <2>3 DEF ClientOK, ReaderOK, Reaches
    <3> QED BY <2>3, <2>4, <3>1, <3>2
  <2> HIDE DEF k
  <2>6. ClientOK(client[c], size', removed', raced')
    BY <1>3, <1>4, ClientLater
  <2>7. ClientOK(k, size', removed', raced')
    BY <1>4, <2>3, <2>4, <2>5, <2>6 DEF ClientOK, ReaderOK
  <2> QED BY <1>1, <1>2, <1>3, <2>1, <2>7, ClientStepKeeps
<1> QED BY <1>5, <1>6

\* Whoever stores a summary, it is not older than it says.
LEMMA StoreKeepsFiles ==
  ASSUME FilesOK, NEW r \in Runs, NEW source \in Versions(r), NEW read \in Versions(r),
         source <= read, ~raced => read = source,
         StoreSummary(r, source, read) \/ StoreFails(r),
         UNCHANGED <<size, removed, raced>>,
         alive' \in BOOLEAN, catalog' = catalog
  PROVE  FilesOK'
<1>1. CASE StoreSummary(r, source, read)
  BY <1>1 DEF FilesOK, StoreSummary
<1>2. CASE StoreFails(r)
  <2>1. mishaps' \in Mishaps
    BY <1>2, CountType DEF StoreFails, FilesOK
  <2> QED BY <1>2, <2>1 DEF FilesOK, StoreFails
<1> QED BY <1>1, <1>2

LEMMA PageStoreKeeps ==
  ASSUME IInv, NEW c \in Clients, PageStore(c), UNCHANGED catalogVars
  PROVE  IInv'
<1> DEFINE run == client[c].list.run
           read == client[c].read
<1>1. size' = size /\ removed' = removed /\ raced' = raced /\ alive' = alive /\ catalog' = catalog
  BY DEF PageStore, catalogVars
<1>2. ClientOK(client[c], size, removed, raced) /\ client[c].step = "store"
  BY DEF IInv, ClientsOK, PageStore
<1>3. /\ run \in Runs /\ client[c].list.request = None
      /\ client[c].source \in Versions(run) /\ read \in Versions(run)
      /\ client[c].source <= read /\ (~raced => read = client[c].source)
  BY <1>2 DEF ClientOK, ReaderOK
<1>4. FilesOK'
  BY <1>1, <1>3, StoreKeepsFiles DEF IInv, FilesOK, PageStore
<1>5. Later(size, removed, raced, size', removed', raced')
  BY <1>1, SameFiles DEF IInv
<1>6. read \in Nat /\ Requests(run, read) \in Seq(Nat)
  BY <1>3, RequestsType, LargeRunsAssumption DEF Versions
<1>7. Answer(c, Requests(run, read), read) /\ client[c].step # "idle"
  BY <1>2 DEF PageStore
<1>8. PICK k : client' = [client EXCEPT ![c] = k] /\ ClientOK(k, size, removed, raced)
  BY <1>3, <1>6, <1>7, AnswerKeepsClient
<1> QED BY <1>1, <1>4, <1>5, <1>8, ClientStepKeeps

-----------------------------------------------------------------------------
(***************************************************************************)
(* The steps of the scans.                                                 *)
(***************************************************************************)

\* The loop goes on to a run that is there, or ends when none is left.
LEMMA AdvanceKeepsScan ==
  ASSUME FilesOK, NEW p, NEW since \in [Runs -> Nat], NEW left \in SUBSET Runs,
         NEW rows \in Maps(Runs, RowType), Advance(p, since, left, rows),
         \A r \in Runs : Reaches(r, since[r], size, removed),
         RowsOK(since, rows, size, removed),
         Covers(since, left \cup DOMAIN rows, removed)
  PROVE  \E s : scan' = [scan EXCEPT ![p] = s] /\ ScanOK(s, size, removed, raced)
<1>1. CASE There(left) = {} /\
           scan' = [scan EXCEPT ![p] = [NoScan EXCEPT !.step = "entries", !.since = since, !.rows = rows]]
  <2> DEFINE s == [NoScan EXCEPT !.step = "entries", !.since = since, !.rows = rows]
  <2>1. s \in ScanType /\ s.step = "entries" /\ s.since = since /\ s.rows = rows
    BY NoScanType DEF ScanType
  <2>2. scan' = [scan EXCEPT ![p] = s]
    BY <1>1
  <2> HIDE DEF s
  <2>3. Covers(since, DOMAIN rows, removed)
    <3>1. ASSUME NEW r \in Runs \ removed, since[r] > 0 PROVE r \notin left
      BY <1>1, <3>1 DEF There, Reaches, FilesOK
    <3> QED BY <3>1 DEF Covers
  <2>4. ScanOK(s, size, removed, raced)
    BY <2>1, <2>3 DEF ScanOK, ReaderOK
  <2> QED BY <2>2, <2>4
<1>2. ASSUME NEW r \in There(left),
             scan' = [scan EXCEPT ![p] = [NoScan EXCEPT
               !.step = IF IsLarge(size[r]) THEN "cache" ELSE "read",
               !.since = since, !.rows = rows, !.left = left \ {r},
               !.run = r, !.source = size[r]]]
      PROVE  \E s : scan' = [scan EXCEPT ![p] = s] /\ ScanOK(s, size, removed, raced)
  <2> DEFINE s == [NoScan EXCEPT
               !.step = IF IsLarge(size[r]) THEN "cache" ELSE "read",
               !.since = since, !.rows = rows, !.left = left \ {r},
               !.run = r, !.source = size[r]]
  <2>1. r \in Runs /\ size[r] \in Nat /\ size[r] > 0 /\ size[r] \in Versions(r) /\ r \notin removed
    BY <1>2 DEF There, FilesOK
  <2>2. /\ s \in ScanType /\ s.step \in {"cache", "read"} /\ s.since = since /\ s.rows = rows
        /\ s.left = left \ {r} /\ s.run = r /\ s.source = size[r]
    BY <2>1, NoScanType DEF ScanType
  <2>3. scan' = [scan EXCEPT ![p] = s]
    BY <1>2
  <2> HIDE DEF s
  <2>4. ReaderOK(s.step, s.run, s.source, s.read, size, removed, raced)
    BY <2>1, <2>2 DEF ReaderOK, Reaches
  <2>5. Reaches(r, 1, size, removed) /\ since[r] <= size[r]
    BY <2>1 DEF Reaches
  <2>6. Covers(since, (left \ {r}) \cup {r} \cup DOMAIN rows, removed)
    BY DEF Covers
  <2>7. ScanOK(s, size, removed, raced)
    BY <2>1, <2>2, <2>4, <2>5, <2>6 DEF ScanOK
  <2> QED BY <2>3, <2>7
<1> QED BY <1>1, <1>2 DEF Advance

\* The run the scan is at gets a row that is not older than the call, and stays counted.
LEMMA AddRowKeepsScan ==
  ASSUME IInv, NEW p \in Scans, scan[p].step \in {"read", "cache", "stream", "store"},
         NEW row \in RowType, AddRow(p, row),
         row.state # "unavailable" => row.of >= scan[p].since[scan[p].run]
  PROVE  \E s : scan' = [scan EXCEPT ![p] = s] /\ ScanOK(s, size, removed, raced)
<1> DEFINE s == scan[p]
           rows == WithRow(s.rows, s.run, row)
<1>1. FilesOK /\ ScanOK(s, size, removed, raced) /\ s \in ScanType
  BY DEF IInv, ScansOK, ScanOK
<1>2. /\ s.since \in [Runs -> Nat] /\ s.left \in SUBSET Runs /\ s.run \in Runs
      /\ s.rows \in Maps(Runs, RowType) /\ Reaches(s.run, 1, size, removed)
      /\ Covers(s.since, s.left \cup {s.run} \cup DOMAIN s.rows, removed)
  BY <1>1 DEF ScanOK, ScanType
<1>3. PICK D \in SUBSET Runs : s.rows \in [D -> RowType]
  BY <1>2 DEF Maps
<1> HIDE DEF s
<1>4. rows \in [D \cup {s.run} -> RowType] /\ D \cup {s.run} \in SUBSET Runs /\ DOMAIN s.rows = D
  BY <1>2, <1>3 DEF WithRow
<1>5. rows \in Maps(Runs, RowType) /\ DOMAIN rows = DOMAIN s.rows \cup {s.run}
  BY <1>4 DEF Maps
<1>6. RowsOK(s.since, rows, size, removed)
  BY <1>1, <1>2, <1>4 DEF ScanOK, RowsOK, WithRow, s
<1>7. Covers(s.since, s.left \cup DOMAIN rows, removed)
  BY <1>2, <1>5 DEF Covers
<1>8. Advance(p, s.since, s.left, rows)
  BY DEF AddRow, s
<1>9. \A r \in Runs : Reaches(r, s.since[r], size, removed)
  BY <1>1 DEF ScanOK
<1> HIDE DEF rows
<1> QED BY <1>1, <1>2, <1>5, <1>6, <1>7, <1>8, <1>9, AdvanceKeepsScan

\* A step of one scan: the clients and answers stay.
LEMMA ScanStepKeeps ==
  ASSUME IInv, NEW p \in Scans, NEW s, scan' = [scan EXCEPT ![p] = s],
         FilesOK', Later(size, removed, raced, size', removed', raced'),
         ScanOK(s, size', removed', raced'),
         UNCHANGED <<removed, alive, client, answer>>
  PROVE  IInv'
<1>1. ClientsOK' /\ ScansOK' /\ AnswersOK'
  BY StepKeepsAll DEF IInv, ClientsOK, ScansOK, AnswersOK
<1> QED BY <1>1 DEF IInv, ProcessOK

LEMMA StutterFiles ==
  ASSUME FilesOK, UNCHANGED <<size, removed, summaries, alive, raced, mishaps, catalog>>
  PROVE  FilesOK' /\ Later(size, removed, raced, size', removed', raced')
<1>1. FilesOK'
  BY DEF FilesOK
<1> QED BY <1>1, SameFiles

LEMMA StartRebuildKeeps ==
  ASSUME IInv, StartRebuild
  PROVE  IInv'
<1>1. FilesOK' /\ Later(size, removed, raced, size', removed', raced')
  BY StutterFiles DEF IInv, StartRebuild, largeVars
<1> DEFINE since == [r \in Runs |-> 0]
<1>2. Advance(Rebuild, since, There(Runs), <<>>)
  BY DEF StartRebuild, NoScan
<1>3. /\ since \in [Runs -> Nat] /\ There(Runs) \in SUBSET Runs /\ <<>> \in Maps(Runs, RowType)
      /\ Covers(since, There(Runs) \cup DOMAIN <<>>, removed)
  BY EmptyMap DEF There, Covers
<1>4. RowsOK(since, <<>>, size, removed)
  BY EmptyMap DEF RowsOK
<1>5. \A r \in Runs : Reaches(r, since[r], size, removed)
  BY DEF Reaches, IInv, FilesOK
<1> HIDE DEF since
<1>6. PICK s : scan' = [scan EXCEPT ![Rebuild] = s] /\ ScanOK(s, size, removed, raced)
  BY <1>2, <1>3, <1>4, <1>5, AdvanceKeepsScan DEF IInv
<1>7. UNCHANGED <<size, removed, raced, alive, client, answer>>
  BY DEF StartRebuild, largeVars
<1> QED BY <1>1, <1>6, <1>7, ScanStepKeeps DEF Scans

LEMMA ReadRunKeeps ==
  ASSUME IInv, NEW p \in Scans, ReadRun(p)
  PROVE  IInv'
<1> DEFINE r == scan[p].run
           row == IF size[r] = 0 \/ IsTorn(r, size[r]) THEN Row("unavailable", 0)
                  ELSE Row("complete", size[r])
<1>1. FilesOK' /\ Later(size, removed, raced, size', removed', raced')
  BY StutterFiles DEF IInv, ReadRun, largeVars
<1>2. ScanOK(scan[p], size, removed, raced) /\ scan[p].step = "read"
  BY DEF IInv, ScansOK, ReadRun, At
<1>3. r \in Runs /\ size[r] \in Nat /\ Reaches(r, scan[p].since[r], size, removed)
  BY <1>2 DEF ScanOK, IInv, FilesOK
<1>4. row \in RowType
  BY <1>3 DEF Row, RowType
<1>5. row.state # "unavailable" => row.of >= scan[p].since[r]
  <2>1. CASE size[r] = 0 \/ IsTorn(r, size[r])
    BY <2>1 DEF Row
  <2>2. CASE ~(size[r] = 0 \/ IsTorn(r, size[r]))
    <3>1. row.of = size[r] /\ r \notin removed
      BY <1>3, <2>2 DEF Row, IInv, FilesOK
    <3>2. scan[p].since[r] \in Nat
      BY <1>2, <1>3 DEF ScanOK, ScanType
    <3> QED BY <1>3, <3>1, <3>2 DEF Reaches
  <2> QED BY <2>1, <2>2
<1>6. AddRow(p, row)
  BY DEF ReadRun
<1> HIDE DEF row
<1>7. PICK s : scan' = [scan EXCEPT ![p] = s] /\ ScanOK(s, size, removed, raced)
  BY <1>2, <1>4, <1>5, <1>6, AddRowKeepsScan
<1>8. UNCHANGED <<size, removed, raced, alive, client, answer>>
  BY DEF ReadRun, largeVars
<1> QED BY <1>1, <1>7, <1>8, ScanStepKeeps

LEMMA ReadCachedKeeps ==
  ASSUME IInv, NEW p \in Scans, ReadCached(p)
  PROVE  IInv'
<1> DEFINE r == scan[p].run
<1>1. FilesOK' /\ Later(size, removed, raced, size', removed', raced')
  BY StutterFiles DEF IInv, ReadCached, largeVars
<1>2. ScanOK(scan[p], size, removed, raced) /\ scan[p].step = "cache"
  BY DEF IInv, ScansOK, ReadCached, At
<1>3. /\ r \in Runs /\ scan[p].source \in Nat /\ scan[p].since[r] \in Nat
      /\ scan[p].since[r] <= scan[p].source /\ scan[p] \in ScanType
  BY <1>2 DEF ScanOK, ScanType
<1>4. UNCHANGED <<size, removed, raced, alive, client, answer>>
  BY DEF ReadCached, largeVars
<1>5. CASE IsCached(r, scan[p].source)
  <2> DEFINE row == Row("partial", summaries[r].of)
  <2>1. /\ summaries[r].of \in Versions(r) /\ summaries[r].at <= summaries[r].of
        /\ summaries[r].at = scan[p].source
    BY <1>3, <1>5 DEF IsCached, IInv, FilesOK
  <2>2. summaries[r].of \in Nat
    BY <1>3, <2>1, LargeRunsAssumption DEF Versions
  <2>3. row \in RowType /\ row.of >= scan[p].since[r]
    BY <1>3, <2>1, <2>2 DEF Row, RowType
  <2>4. AddRow(p, row)
    BY <1>5 DEF ReadCached
  <2> HIDE DEF row
  <2>5. PICK s : scan' = [scan EXCEPT ![p] = s] /\ ScanOK(s, size, removed, raced)
    BY <1>2, <2>3, <2>4, AddRowKeepsScan
  <2> QED BY <1>1, <1>4, <2>5, ScanStepKeeps
<1>6. CASE ~IsCached(r, scan[p].source)
  <2> DEFINE s == [scan[p] EXCEPT !.step = "stream"]
  <2>1. scan' = [scan EXCEPT ![p] = s]
    BY <1>6 DEF ReadCached
  <2>2. /\ s \in ScanType /\ s.step = "stream" /\ s.since = scan[p].since /\ s.left = scan[p].left
        /\ s.run = r /\ s.source = scan[p].source /\ s.read = scan[p].read /\ s.rows = scan[p].rows
    BY <1>3 DEF ScanType
  <2> HIDE DEF s
  <2>3. ScanOK(s, size, removed, raced)
    BY <1>2, <2>2 DEF ScanOK, ReaderOK
  <2> QED BY <1>1, <1>4, <2>1, <2>3, ScanStepKeeps
<1> QED BY <1>5, <1>6

LEMMA SummarizeKeeps ==
  ASSUME IInv, NEW p \in Scans, Summarize(p)
  PROVE  IInv'
<1> DEFINE r == scan[p].run
<1>1. FilesOK'
  BY DEF IInv, FilesOK, Summarize, fileVars
<1>2. UNCHANGED <<size, removed, alive, client, answer>> /\ (raced => raced')
  BY DEF Summarize, fileVars
<1>3. Later(size, removed, raced, size', removed', raced')
  BY <1>2, SameFiles DEF IInv
<1>4. ScanOK(scan[p], size, removed, raced) /\ scan[p].step = "stream"
  BY DEF IInv, ScansOK, Summarize, At
<1>5. r \in Runs /\ scan[p] \in ScanType /\ size[r] \in Nat /\ size[r] \in Versions(r)
  BY <1>4 DEF ScanOK, IInv, FilesOK
<1>6. CASE size[r] = 0
  <2> DEFINE row == Row("unavailable", 0)
  <2>1. AddRow(p, row) /\ row \in RowType /\ row.state = "unavailable"
    BY <1>6 DEF Summarize, Row, RowType
  <2> HIDE DEF row
  <2>2. PICK s : scan' = [scan EXCEPT ![p] = s] /\ ScanOK(s, size, removed, raced)
    BY <1>4, <2>1, AddRowKeepsScan
  <2>3. ScanOK(s, size', removed', raced')
    BY <1>3, <2>2, ScanLater
  <2> QED BY <1>1, <1>2, <1>3, <2>2, <2>3, ScanStepKeeps
<1>7. CASE size[r] # 0
  <2> DEFINE s == [scan[p] EXCEPT !.step = "store", !.read = size[r]]
  <2>1. scan' = [scan EXCEPT ![p] = s]
    BY <1>7 DEF Summarize
  <2>2. /\ s \in ScanType /\ s.step = "store" /\ s.since = scan[p].since /\ s.left = scan[p].left
        /\ s.run = r /\ s.source = scan[p].source /\ s.read = size[r] /\ s.rows = scan[p].rows
        /\ s.source \in Nat
    BY <1>5 DEF ScanType
  <2>3. s.source <= s.read /\ (~raced' => s.read = s.source)
    <3>1. ~raced' => ~(size[r] > scan[p].source)
      BY DEF Summarize
    <3>2. r \notin removed
      BY <1>7 DEF IInv, FilesOK
    <3>3. scan[p].source <= size[r]
      BY <1>4, <3>2 DEF ScanOK, ReaderOK, Reaches
    <3> QED BY <1>5, <2>2, <3>1, <3>3
  <2> HIDE DEF s
  <2>4. ScanOK(scan[p], size', removed', raced')
    BY <1>3, <1>4, ScanLater
  <2>5. ScanOK(s, size', removed', raced')
    BY <1>4, <1>5, <2>2, <2>3, <2>4 DEF ScanOK, ReaderOK
  <2> QED BY <1>1, <1>2, <1>3, <2>1, <2>5, ScanStepKeeps
<1> QED BY <1>6, <1>7

LEMMA StoreScannedKeeps ==
  ASSUME IInv, NEW p \in Scans, StoreScanned(p)
  PROVE  IInv'
<1> DEFINE r == scan[p].run
           row == Row("partial", scan[p].read)
<1>1. UNCHANGED <<size, removed, raced, alive, client, answer, catalog>>
  BY DEF StoreScanned
<1>2. ScanOK(scan[p], size, removed, raced) /\ scan[p].step = "store"
  BY DEF IInv, ScansOK, StoreScanned, At
<1>3. /\ r \in Runs /\ scan[p].source \in Versions(r) /\ scan[p].read \in Versions(r)
      /\ scan[p].source <= scan[p].read /\ (~raced => scan[p].read = scan[p].source)
      /\ scan[p].since[r] \in Nat /\ scan[p].since[r] <= scan[p].source
  BY <1>2 DEF ScanOK, ReaderOK, ScanType
<1>4. FilesOK'
  BY <1>1, <1>3, StoreKeepsFiles DEF IInv, FilesOK, StoreScanned
<1>5. Later(size, removed, raced, size', removed', raced')
  BY <1>1, SameFiles DEF IInv
<1>6. scan[p].source \in Nat /\ scan[p].read \in Nat
  BY <1>3, LargeRunsAssumption DEF Versions
<1>7. row \in RowType /\ row.of >= scan[p].since[r] /\ AddRow(p, row)
  BY <1>3, <1>6 DEF Row, RowType, StoreScanned
<1> HIDE DEF row
<1>8. PICK s : scan' = [scan EXCEPT ![p] = s] /\ ScanOK(s, size, removed, raced)
  BY <1>2, <1>7, AddRowKeepsScan
<1> QED BY <1>1, <1>4, <1>5, <1>8, ScanStepKeeps

LEMMA MakeEntriesKeeps ==
  ASSUME IInv, NEW p \in Scans, MakeEntries(p)
  PROVE  IInv'
<1> DEFINE sources == [r \in DOMAIN scan[p].rows |-> size[r]]
           s == [scan[p] EXCEPT !.step = "write", !.sources = sources]
<1>1. FilesOK' /\ Later(size, removed, raced, size', removed', raced')
  BY StutterFiles DEF IInv, MakeEntries, largeVars
<1>2. ScanOK(scan[p], size, removed, raced) /\ scan[p].step = "entries"
  BY DEF IInv, ScansOK, MakeEntries, At
<1>3. scan[p] \in ScanType /\ DOMAIN scan[p].rows \in SUBSET Runs
  BY <1>2 DEF ScanOK, ScanType, Maps
<1>4. sources \in Maps(Runs, Nat)
  <2>1. sources \in [DOMAIN scan[p].rows -> Nat]
    BY <1>3 DEF IInv, FilesOK
  <2> QED BY <1>3, <2>1 DEF Maps
<1>5. scan' = [scan EXCEPT ![p] = s]
  BY DEF MakeEntries
<1>6. /\ s \in ScanType /\ s.step = "write" /\ s.since = scan[p].since /\ s.rows = scan[p].rows
      /\ s.run = scan[p].run /\ s.source = scan[p].source /\ s.read = scan[p].read
  BY <1>3, <1>4 DEF ScanType
<1> HIDE DEF s
<1>7. ScanOK(s, size, removed, raced)
  BY <1>2, <1>6 DEF ScanOK, ReaderOK
<1>8. UNCHANGED <<size, removed, raced, alive, client, answer>>
  BY DEF MakeEntries, largeVars
<1> QED BY <1>1, <1>5, <1>7, <1>8, ScanStepKeeps

\* A call that ends with an answer: only that and its scan change.
LEMMA FinishKeeps ==
  ASSUME IInv, NEW p \in Scans, NEW kind, NEW rows, Finish(p, kind, rows),
         FilesOK', UNCHANGED <<size, removed, raced, alive, client>>,
         AnswerOK([kind |-> kind, rows |-> rows, since |-> scan[p].since], removed)
  PROVE  IInv'
<1>1. Later(size, removed, raced, size', removed', raced')
  BY SameFiles DEF IInv
<1>2. scan' = [scan EXCEPT ![p] = NoScan] /\ ScanOK(NoScan, size, removed, raced)
  BY IdleScanIsOK DEF Finish, IInv, FilesOK
<1>3. /\ DOMAIN answer' = Lists
      /\ \A h \in Lists : answer'[h] = answer[h] \/ AnswerOK(answer'[h], removed)
  BY DEF Finish, IInv, AnswersOK
<1>4. ClientsOK' /\ ScansOK' /\ AnswersOK'
  BY <1>1, <1>2, <1>3, StepKeepsAll DEF IInv, ClientsOK, ScansOK
<1> QED BY <1>4 DEF IInv, ProcessOK

\* The rebuild meets a run that has gone: only then was one deleted.
LEMMA EntryIsGoneKeeps ==
  ASSUME IInv, NEW p \in Scans, EntryIsGone(p)
  PROVE  IInv'
<1>1. ScanOK(scan[p], size, removed, raced) /\ scan[p].step = "entries"
  BY DEF IInv, ScansOK, EntryIsGone, At
<1>2. CASE p = Rebuild
  <2>1. PICK r \in DOMAIN scan[p].rows : size[r] = 0
    BY DEF EntryIsGone
  <2>2. r \in removed
    BY <1>1, <2>1 DEF ScanOK, RowsOK, Reaches
  <2>3. Dies /\ answer' = answer /\ UNCHANGED <<size, removed, summaries, mishaps, raced, catalog>>
    BY <1>2 DEF EntryIsGone, fileVars
  <2>4. FilesOK'
    BY <2>3 DEF IInv, FilesOK, Dies
  <2>5. Later(size, removed, raced, size', removed', raced')
    BY <2>3, SameFiles DEF IInv
  <2>6. /\ DOMAIN client' = Clients
        /\ \A c \in Clients : ClientOK(client'[c], size', removed', raced')
    BY <2>3, RestingIsOK DEF Dies
  <2>7. /\ DOMAIN scan' = Scans
        /\ \A q \in Scans : ScanOK(scan'[q], size', removed', raced')
    BY <2>3, <2>4, IdleScanIsOK DEF Dies, FilesOK
  <2>8. ClientsOK' /\ ScansOK' /\ AnswersOK'
    BY <2>3, <2>5, <2>6, <2>7, StepKeepsAll DEF IInv, AnswersOK
  <2> QED BY <2>2, <2>3, <2>4, <2>8 DEF IInv, ProcessOK
<1>3. CASE p # Rebuild
  <2>1. Finish(p, "error", <<>>)
        /\ UNCHANGED <<size, removed, summaries, mishaps, raced, catalog, alive, client>>
    BY <1>3 DEF EntryIsGone, fileVars
  <2>2. FilesOK'
    BY <2>1 DEF IInv, FilesOK
  <2>3. AnswerOK([kind |-> "error", rows |-> <<>>, since |-> scan[p].since], removed)
    BY DEF AnswerOK
  <2> QED BY <2>1, <2>2, <2>3, FinishKeeps
<1> QED BY <1>2, <1>3

LEMMA WriteCatalogKeeps ==
  ASSUME IInv, NEW p \in Scans, WriteCatalog(p)
  PROVE  IInv'
<1>1. ScanOK(scan[p], size, removed, raced) /\ scan[p].step = "write"
  BY DEF IInv, ScansOK, WriteCatalog, At
<1>2. DOMAIN scan[p].rows \in SUBSET Runs
  BY <1>1 DEF ScanOK, ScanType, Maps
<1>3. UNCHANGED <<size, removed, summaries, raced, alive, client>> /\ Finish(p, "full", scan[p].rows)
  BY DEF WriteCatalog
<1>4. mishaps' \in Mishaps
  BY CountType DEF WriteCatalog, IInv, FilesOK
<1>5. catalog' # None => DOMAIN catalog' \in SUBSET Runs
  BY <1>2 DEF WriteCatalog
<1>6. FilesOK'
  BY <1>3, <1>4, <1>5 DEF IInv, FilesOK
<1>7. AnswerOK([kind |-> "full", rows |-> scan[p].rows, since |-> scan[p].since], removed)
  BY <1>1 DEF AnswerOK, ScanOK, RowsOK
<1> QED BY <1>3, <1>6, <1>7, FinishKeeps

LEMMA AskForListKeeps ==
  ASSUME IInv, NEW h \in Lists, AskForList(h)
  PROVE  IInv'
<1>1. h \in Scans
  BY DEF Scans
<1>2. UNCHANGED <<size, removed, summaries, client, alive, raced, catalog>>
  BY DEF AskForList
<1>3. FilesOK'
  BY <1>2, CountType DEF IInv, FilesOK, AskForList
<1>4. Later(size, removed, raced, size', removed', raced')
  BY <1>2, SameFiles DEF IInv
<1>5. size \in [Runs -> Nat] /\ \A r \in Runs : Reaches(r, size[r], size, removed)
  BY DEF IInv, FilesOK, Reaches
<1>6. \E s : scan' = [scan EXCEPT ![h] = s] /\ ScanOK(s, size, removed, raced)
  <2>1. CASE \E r \in Runs : IsLarge(size[r])
    <3> DEFINE s == [NoScan EXCEPT !.step = "catalog", !.since = size]
    <3>1. scan' = [scan EXCEPT ![h] = s]
      BY <2>1 DEF AskForList
    <3>2. s \in ScanType /\ s.step = "catalog" /\ s.since = size /\ s.rows = NoScan.rows
      BY <1>5, NoScanType DEF ScanType
    <3>3. NoScan.rows = <<>>
      BY DEF NoScan
    <3> HIDE DEF s
    <3>4. RowsOK(s.since, s.rows, size, removed)
      BY <3>2, <3>3, EmptyMap DEF RowsOK
    <3>5. ScanOK(s, size, removed, raced)
      BY <1>5, <3>2, <3>4 DEF ScanOK, ReaderOK
    <3> QED BY <3>1, <3>5
  <2>2. CASE ~(\E r \in Runs : IsLarge(size[r]))
    <3>1. Advance(h, size, There(Runs), <<>>)
      BY <2>2 DEF AskForList
    <3>2. There(Runs) \in SUBSET Runs /\ Covers(size, There(Runs) \cup DOMAIN <<>>, removed)
      BY DEF There, Covers
    <3>3. <<>> \in Maps(Runs, RowType) /\ RowsOK(size, <<>>, size, removed)
      BY EmptyMap DEF RowsOK
    <3> QED BY <1>5, <3>1, <3>2, <3>3, AdvanceKeepsScan DEF IInv
  <2> QED BY <2>1, <2>2
<1>7. /\ DOMAIN answer' = Lists
      /\ \A g \in Lists : answer'[g] = answer[g] \/ AnswerOK(answer'[g], removed')
  BY NoAnswerIsOK DEF AskForList, IInv, AnswersOK
<1>8. ClientsOK' /\ ScansOK' /\ AnswersOK'
  BY <1>1, <1>2, <1>4, <1>6, <1>7, StepKeepsAll DEF IInv, ClientsOK, ScansOK
<1> QED BY <1>2, <1>3, <1>8 DEF IInv, ProcessOK

\* As many entries as runs, each of one of them, are the entries of all of them.
LEMMA CurrentCatalogIsWhole ==
  ASSUME FilesOK, NEW since \in [Runs -> Nat],
         IsCurrent([r \in {r \in Runs : since[r] > 0} |-> since[r]])
  PROVE  Covers(since, DOMAIN catalog, removed)
<1> DEFINE there == {r \in Runs : since[r] > 0}
<1>1. IsFiniteSet(there)
  <2>1. there \in SUBSET Runs /\ IsFiniteSet(Runs)
    BY LargeRunsAssumption
  <2> QED BY <2>1, FS_Subset
<1>2. Cardinality(DOMAIN catalog) = Cardinality(there) /\ DOMAIN catalog \in SUBSET there
  BY DEF IsCurrent
<1>3. there = DOMAIN catalog
  BY <1>1, <1>2, FS_Subset
<1> QED BY <1>3 DEF Covers

LEMMA ReadCatalogKeeps ==
  ASSUME IInv, NEW h \in Lists, ReadCatalog(h)
  PROVE  IInv'
<1> DEFINE since == scan[h].since
           sources == [r \in {r \in Runs : since[r] > 0} |-> since[r]]
<1>1. h \in Scans /\ h # Rebuild /\ Rebuild \in Scans
  BY CatalogAssumption DEF Scans
<1>2. UNCHANGED largeVars /\ UNCHANGED catalog
  BY DEF ReadCatalog
<1>3. FilesOK' /\ Later(size, removed, raced, size', removed', raced')
  BY <1>2, StutterFiles DEF IInv, largeVars
<1>4. since \in [Runs -> Nat]
  BY <1>1 DEF IInv, ScansOK, ScanOK, ScanType
<1>5. CASE IsCurrent(sources)
  <2>1. Finish(h, "catalog", catalog)
    BY <1>5 DEF ReadCatalog
  <2>2. Covers(since, DOMAIN catalog, removed)
    BY <1>4, <1>5, CurrentCatalogIsWhole DEF IInv
  <2>3. AnswerOK([kind |-> "catalog", rows |-> catalog, since |-> since], removed)
    BY <2>2 DEF AnswerOK
  <2> QED BY <1>1, <1>2, <1>3, <2>1, <2>3, FinishKeeps DEF largeVars
<1>6. CASE ~IsCurrent(sources)
  <2> DEFINE begun == IF At(Rebuild, "idle") THEN [NoScan EXCEPT !.step = "list"] ELSE scan[Rebuild]
             given == [kind |-> "stat", rows |-> sources, since |-> since]
  <2>1. scan' = [scan EXCEPT ![h] = NoScan, ![Rebuild] = begun]
        /\ answer' = [answer EXCEPT ![h] = given]
    BY <1>1, <1>6 DEF ReadCatalog
  <2>2. ScanOK(NoScan, size, removed, raced) /\ ScanOK([NoScan EXCEPT !.step = "list"], size, removed, raced)
    <3> DEFINE s == [NoScan EXCEPT !.step = "list"]
    <3>1. NoScan.rows = <<>> /\ NoScan.since = [r \in Runs |-> 0]
      BY DEF NoScan
    <3>2. s \in ScanType /\ s.step = "list" /\ s.rows = <<>> /\ s.since = [r \in Runs |-> 0]
      BY <3>1, NoScanType DEF ScanType
    <3> HIDE DEF s
    <3>3. ScanOK(s, size, removed, raced)
      BY <3>2, EmptyScanIsOK DEF IInv, FilesOK
    <3> QED BY <3>3, IdleScanIsOK DEF s, IInv, FilesOK
  <2>3. AnswerOK(given, removed)
    BY DEF AnswerOK
  <2> HIDE DEF given
  <2>4. /\ DOMAIN scan' = Scans
        /\ \A p \in Scans : scan'[p] = scan[p] \/ ScanOK(scan'[p], size, removed, raced)
    BY <1>1, <2>1, <2>2 DEF IInv, ScansOK
  <2>5. /\ DOMAIN answer' = Lists
        /\ \A g \in Lists : answer'[g] = answer[g] \/ AnswerOK(answer'[g], removed)
    BY <2>1, <2>3 DEF IInv, AnswersOK
  <2>6. ClientsOK' /\ ScansOK' /\ AnswersOK'
    BY <1>2, <1>3, <2>4, <2>5, StepKeepsAll DEF IInv, ClientsOK, largeVars
  <2> QED BY <1>2, <1>3, <2>6 DEF IInv, ProcessOK, largeVars
<1> QED BY <1>5, <1>6

-----------------------------------------------------------------------------
(***************************************************************************)
(* The invariant, and what it says of the lists, the pages and the server. *)
(***************************************************************************)
LEMMA NextKeeps == IInv /\ [Next]_vars => IInv'
<1> SUFFICES ASSUME IInv, [Next]_vars PROVE IInv'
  OBVIOUS
<1>1. CASE LargeNext /\ UNCHANGED catalogVars
  <2>1. ASSUME NEW r \in Runs, Grow(r) \/ DeleteRun(r) PROVE IInv'
    BY <1>1, <2>1, GrowKeeps, DeleteRunKeeps
  <2>2. ASSUME NEW c \in Clients, FetchFirst(c) \/ FetchNext(c) PROVE IInv'
    BY <1>1, <2>2, FetchFirstKeeps, FetchNextKeeps
  <2>3. ASSUME NEW c \in Clients, PageStep(c) PROVE IInv'
    BY <1>1, <2>3, PageArtifactsKeeps, PageCachedKeeps, PageStreamKeeps, PageStoreKeeps DEF PageStep
  <2> QED BY <1>1, <2>1, <2>2, <2>3 DEF LargeNext
<1>2. CASE ListNext
  <2>1. ASSUME NEW h \in Lists, AskForList(h) \/ ReadCatalog(h) PROVE IInv'
    BY <2>1, AskForListKeeps, ReadCatalogKeeps
  <2>2. ASSUME NEW p \in Scans, ScanStep(p) PROVE IInv'
    BY <2>2, ReadRunKeeps, ReadCachedKeeps, SummarizeKeeps, StoreScannedKeeps, MakeEntriesKeeps,
       EntryIsGoneKeeps, WriteCatalogKeeps DEF ScanStep
  <2>3. CASE StartRebuild
    BY <2>3, StartRebuildKeeps
  <2> QED BY <1>2, <2>1, <2>2, <2>3 DEF ListNext
<1>3. CASE UNCHANGED vars
  <2>1. FilesOK' /\ Later(size, removed, raced, size', removed', raced')
    BY <1>3, StutterFiles DEF IInv, vars, largeVars, catalogVars
  <2>2. ClientsOK' /\ ScansOK' /\ AnswersOK'
    BY <1>3, <2>1, StepKeepsAll DEF IInv, ClientsOK, ScansOK, AnswersOK, vars, largeVars, catalogVars
  <2> QED BY <1>3, <2>1, <2>2 DEF IInv, ProcessOK, vars, largeVars
<1> QED BY <1>1, <1>2, <1>3 DEF Next

\* The readers' invariant holds of every state of the API: readLargeRunSummary,
\* createDashboardSessionIndex and rebuildSessionCatalog keep it whatever runs they race.
THEOREM Invariance == Spec => []IInv
BY InitHolds, NextKeeps, PTL DEF Spec

LEMMA IInvTypes == IInv => TypeOK
<1> SUFFICES ASSUME IInv PROVE TypeOK
  OBVIOUS
<1>1. LargeTypeOK
  <2>1. \A c \in Clients : client[c].step \in {"idle", "cache", "stream", "store", "artifacts"}
    BY DEF IInv, ClientsOK, ClientOK, ClientType
  <2> QED BY <2>1 DEF LargeTypeOK, IInv, FilesOK, Mishaps
<1>2. ASSUME NEW p \in Scans
      PROVE  scan[p].left \subseteq Runs /\ DOMAIN scan[p].rows \subseteq Runs
             /\ scan[p].run \in Runs \cup {None}
  <2>1. scan[p] \in ScanType
    BY DEF IInv, ScansOK, ScanOK
  <2>2. scan[p].rows \in Maps(Runs, RowType)
    BY <2>1 DEF ScanType
  <2>3. DOMAIN scan[p].rows \subseteq Runs
    BY <2>2 DEF Maps
  <2> QED BY <2>1, <2>3 DEF ScanType
<1> QED BY <1>1, <1>2 DEF TypeOK, IInv, FilesOK, AnswersOK, AnswerOK

\* Every session list is whole: one made by a scan has each run that was there when it
\* was asked for, no older than it was then, and one from the catalog leaves none out.
THEOREM ListsHold == Spec => []ListsAreTrue
<1>1. IInv => ListsAreTrue
  <2> SUFFICES ASSUME IInv PROVE ListsAreTrue
    OBVIOUS
  <2>1. ScannedListIsFresh
    BY DEF IInv, AnswersOK, AnswerOK, Covers, ScannedListIsFresh
  <2>2. CatalogListIsWhole
    BY DEF IInv, AnswersOK, AnswerOK, Covers, CatalogListIsWhole
  <2> QED BY <2>1, <2>2, IInvTypes DEF ListsAreTrue
<1> QED BY <1>1, Invariance, PTL

\* The pages that a client follows by cursors tile the list they are of, and no summary
\* is older than the version of the run it is taken for.
THEOREM PagesHold == Spec => []PagesTile
<1>1. IInv => PagesTile
  <2> SUFFICES ASSUME IInv PROVE PagesTile
    OBVIOUS
  <2>1. SummariesAreFresh
    <3>1. ASSUME NEW r \in Runs, summaries[r] # None PROVE summaries[r].of >= summaries[r].at
      <4>1. summaries[r].at \in Nat /\ summaries[r].of \in Nat /\ summaries[r].at <= summaries[r].of
        BY <3>1, LargeRunsAssumption DEF IInv, FilesOK, Versions
      <4> QED BY <4>1
    <3> QED BY <3>1 DEF SummariesAreFresh
  <2>2. ArtifactPagesTile
    BY DEF IInv, ClientsOK, ClientOK, ListOK, ArtifactPagesTile
  <2>3. RequestPagesTile
    BY DEF IInv, ClientsOK, ClientOK, ListOK, RequestPagesTile
  <2> QED BY <2>1, <2>2, <2>3 DEF PagesTile
<1> QED BY <1>1, Invariance, PTL

\* Nothing but the deletion of a run ends the API process: the rejection that nothing
\* awaits needs a run that is gone.
THEOREM ServerLives == Spec => []ServerSurvives
<1>1. IInv => ServerSurvives
  BY DEF IInv, ProcessOK, ServerSurvives
<1> QED BY <1>1, Invariance, PTL
=============================================================================
