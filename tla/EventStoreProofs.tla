--------------------------- MODULE EventStoreProofs ---------------------------
(***************************************************************************)
(* Proofs about a run.                                                     *)
(*                                                                         *)
(* Of its file: that the readers of events.jsonl give the events that have *)
(* been appended, in their order, for any number of appends in lines of    *)
(* any number of pieces, whatever fails or dies (EventStore).              *)
(*                                                                         *)
(* Of its analysis: that turns and tasks divide the requests of the run,   *)
(* and that a request stays in its turn, for any conversation, recorded in *)
(* any order (RunAnalysis).                                                *)
(***************************************************************************)
EXTENDS EventStore, RunAnalysis, FiniteSetTheorems, SequenceTheorems, TLAPS

-----------------------------------------------------------------------------
(***************************************************************************)
(* The inductive invariant.  What it says of the file takes the file (f),  *)
(* the settled appends (s), the pieces written (prog) and the places of    *)
(* the line feeds (e) as parameters, so that it can be said before and     *)
(* after a write.                                                          *)
(***************************************************************************)
PieceType == [event : Appends, part : Nat]

\* Pieces that end a line.
Ends(f) == {i \in DOMAIN f : f[i].part = Pieces[f[i].event]}

Places(e, n) == {e[k] : k \in 1 .. n}

Begun(prog, a) == prog[a] \in 1 .. (Pieces[a] - 1)

\* From place m on, the file holds the first n pieces of the event.
Holds(f, m, a, n) == \A j \in 1 .. n : f[m + j] = Piece(a, j)

\* The lines of the settled appends follow each other from the start of the file.
LinesFollow(f, s, e) ==
  /\ e \in [0 .. Len(s) -> Nat] /\ e[0] = 0
  /\ \A i, j \in 0 .. Len(s) : i < j => e[i] < e[j]
  /\ Ends(f) = Places(e, Len(s))
  /\ \A k \in 1 .. Len(s) :
       e[k] = e[k - 1] + Pieces[s[k]] /\ Holds(f, e[k - 1], s[k], Pieces[s[k]])

\* Behind them is what the only append that has begun has written, if one has.
OnlyOneOpen(f, n, prog) ==
  /\ \A a \in Appends : Begun(prog, a) =>
       /\ Len(f) = n + prog[a] /\ Holds(f, n, a, prog[a])
       /\ \A b \in Appends \ {a} : ~Begun(prog, b)
  /\ (\A a \in Appends : ~Begun(prog, a)) => Len(f) = n

LaidOut(f, s, prog) ==
  \E e \in [0 .. Len(s) -> Nat] : LinesFollow(f, s, e) /\ OnlyOneOpen(f, e[Len(s)], prog)

\* An append that is writing has pieces left, and a new one has written none.
OnTheWay(prog, st) ==
  \A a \in Appends :
    /\ st[a] = "writing" => prog[a] < Pieces[a]
    /\ st[a] = "new" => prog[a] = 0

IInv == StoreTypeOK /\ OnTheWay(progress, state) /\ (~torn => LaidOut(file, settled, progress))

-----------------------------------------------------------------------------
(***************************************************************************)
(* The writers.                                                            *)
(***************************************************************************)
\* Appending one piece leaves the others where they were.
LEMMA OnePieceMore ==
  ASSUME NEW f \in Seq(PieceType), NEW x \in PieceType
  PROVE  /\ Append(f, x) \in Seq(PieceType)
         /\ Len(Append(f, x)) = Len(f) + 1
         /\ \A i \in 1 .. Len(f) : Append(f, x)[i] = f[i]
         /\ Append(f, x)[Len(f) + 1] = x
         /\ (x.part # Pieces[x.event] => Ends(Append(f, x)) = Ends(f))
         /\ (x.part = Pieces[x.event] => Ends(Append(f, x)) = Ends(f) \cup {Len(f) + 1})
<1> DEFINE g == Append(f, x)
<1>1. /\ g \in Seq(PieceType) /\ Len(g) = Len(f) + 1
      /\ \A i \in 1 .. Len(f) : g[i] = f[i]
      /\ g[Len(f) + 1] = x
  OBVIOUS
<1>2. DOMAIN f = 1 .. Len(f) /\ DOMAIN g = 1 .. (Len(f) + 1) /\ Len(f) \in Nat
  BY <1>1, LenProperties
<1> HIDE DEF g
<1>3. /\ x.part # Pieces[x.event] => Ends(g) = Ends(f)
      /\ x.part = Pieces[x.event] => Ends(g) = Ends(f) \cup {Len(f) + 1}
  BY <1>1, <1>2 DEF Ends
<1>4. /\ g \in Seq(PieceType) /\ Len(g) = Len(f) + 1
      /\ \A i \in 1 .. Len(f) : g[i] = f[i]
      /\ g[Len(f) + 1] = x
      /\ x.part # Pieces[x.event] => Ends(g) = Ends(f)
      /\ x.part = Pieces[x.event] => Ends(g) = Ends(f) \cup {Len(f) + 1}
  BY <1>1, <1>3
<1>5. QED BY <1>4 DEF g

\* A write of an append that no other append is open beside goes on where the lines
\* end, or where the append itself has come to.
LEMMA GoesOnAtTheEnd ==
  ASSUME NEW f \in Seq(PieceType), NEW n \in Nat, NEW prog \in [Appends -> Nat],
         NEW a \in Appends, prog[a] < Pieces[a],
         \A b \in Appends \ {a} : ~Begun(prog, b),
         OnlyOneOpen(f, n, prog)
  PROVE  Len(f) = n + prog[a] /\ Holds(f, n, a, prog[a])
<1>1. Pieces[a] \in Nat \ {0}
  BY StoreAssumption
<1>2. CASE prog[a] = 0
  <2>1. \A b \in Appends : ~Begun(prog, b)
    BY <1>2 DEF Begun
  <2>2. QED BY <2>1, <1>2 DEF OnlyOneOpen, Holds
<1>3. CASE prog[a] # 0
  <2>1. Begun(prog, a)
    BY <1>1, <1>3 DEF Begun
  <2>2. QED BY <2>1 DEF OnlyOneOpen
<1>4. QED BY <1>2, <1>3

\* The places d of the line feeds are those of e and one more, n pieces later.
OneMore(d, e, N, n) ==
  /\ \A k \in 0 .. N : d[k] = e[k]
  /\ d[N + 1] = e[N] + n
  /\ \A i, j \in 0 .. (N + 1) : i < j => d[i] < d[j]
  /\ Places(d, N + 1) = Places(e, N) \cup {e[N] + n}

\* A line that ends n pieces behind the last one has such a place.
LEMMA OnePlaceMore ==
  ASSUME NEW N \in Nat, NEW e \in [0 .. N -> Nat], NEW n \in Nat \ {0},
         \A i, j \in 0 .. N : i < j => e[i] < e[j]
  PROVE  \E d \in [0 .. (N + 1) -> Nat] : OneMore(d, e, N, n)
<1> DEFINE d == [k \in 0 .. (N + 1) |-> IF k <= N THEN e[k] ELSE e[N] + n]
<1>1. d \in [0 .. (N + 1) -> Nat] /\ (\A k \in 0 .. N : d[k] = e[k]) /\ d[N + 1] = e[N] + n
  OBVIOUS
<1> HIDE DEF d
<1>2. ASSUME NEW i \in 0 .. (N + 1), NEW j \in 0 .. (N + 1), i < j
      PROVE  d[i] < d[j]
  <2>1. i \in 0 .. N /\ d[i] = e[i] /\ e[i] \in Nat /\ e[N] \in Nat
    BY <1>1, <1>2
  <2>2. CASE j = N + 1
    <3>1. e[i] <= e[N]
      <4>1. CASE i = N
        BY <4>1, <2>1
      <4>2. CASE i # N
        BY <4>2, <2>1
      <4>3. QED BY <4>1, <4>2
    <3>2. QED BY <3>1, <2>1, <2>2, <1>1
  <2>3. CASE j # N + 1
    BY <2>3, <2>1, <1>1, <1>2
  <2>4. QED BY <2>2, <2>3
<1>3. Places(d, N + 1) = Places(e, N) \cup {e[N] + n}
  <2>1. 1 .. (N + 1) = (1 .. N) \cup {N + 1}
    OBVIOUS
  <2>2. \A k \in 1 .. N : d[k] = e[k]
    BY <1>1
  <2>3. QED BY <2>1, <2>2, <1>1 DEF Places
<1>4. QED BY <1>1, <1>2, <1>3 DEF OneMore

\* No line ends behind the file.
LEMMA LinesAreInside ==
  ASSUME NEW f \in Seq(PieceType), NEW s \in Seq(Appends), NEW e \in [0 .. Len(s) -> Nat],
         LinesFollow(f, s, e)
  PROVE  e[Len(s)] <= Len(f) /\ \A k \in 1 .. Len(s) : e[k - 1] < e[k] /\ e[k] <= Len(f)
<1>1. Len(s) \in Nat /\ Len(f) \in Nat /\ DOMAIN f = 1 .. Len(f)
  BY LenProperties
<1>2. ASSUME NEW k \in 1 .. Len(s)
      PROVE  e[k - 1] < e[k] /\ e[k] <= Len(f)
  <2>1. e[k] \in Ends(f)
    BY DEF LinesFollow, Places
  <2>2. e[k] <= Len(f)
    BY <2>1, <1>1 DEF Ends
  <2>3. k - 1 \in 0 .. Len(s) /\ k \in 0 .. Len(s) /\ k - 1 < k
    BY <1>1
  <2>4. e[k - 1] < e[k]
    BY <2>3 DEF LinesFollow
  <2>5. QED BY <2>2, <2>4
<1>3. e[Len(s)] <= Len(f)
  <2>1. CASE Len(s) = 0
    BY <2>1, <1>1 DEF LinesFollow
  <2>2. CASE Len(s) # 0
    BY <2>2, <1>1, <1>2
  <2>3. QED BY <2>1, <2>2
<1>4. QED BY <1>2, <1>3

\* A piece of a line stays where it is when the file grows.
LEMMA PiecesStay ==
  ASSUME NEW f \in Seq(PieceType), NEW x \in PieceType, NEW a \in Appends,
         NEW m \in Nat, NEW n \in Nat, m + n <= Len(f), Holds(f, m, a, n)
  PROVE  Holds(Append(f, x), m, a, n)
<1>1. \A i \in 1 .. Len(f) : Append(f, x)[i] = f[i]
  BY OnePieceMore
<1>2. \A j \in 1 .. n : m + j \in 1 .. Len(f)
  BY LenProperties
<1>3. QED BY <1>1, <1>2 DEF Holds

\* A piece that does not end its line.
LEMMA WritesInTheLine ==
  ASSUME NEW f \in Seq(PieceType), NEW s \in Seq(Appends), NEW prog \in [Appends -> Nat],
         NEW a \in Appends, prog[a] + 1 < Pieces[a],
         \A b \in Appends \ {a} : ~Begun(prog, b),
         LaidOut(f, s, prog)
  PROVE  LaidOut(Append(f, Piece(a, prog[a] + 1)), s, [prog EXCEPT ![a] = @ + 1])
<1> DEFINE x == Piece(a, prog[a] + 1)
           g == Append(f, x)
           pr == [prog EXCEPT ![a] = @ + 1]
<1>1. PICK e \in [0 .. Len(s) -> Nat] :
        LinesFollow(f, s, e) /\ OnlyOneOpen(f, e[Len(s)], prog)
  BY DEF LaidOut
<1>2. Pieces[a] \in Nat \ {0} /\ prog[a] \in Nat /\ Len(s) \in Nat /\ Len(f) \in Nat
  BY StoreAssumption, LenProperties
<1>3. x \in PieceType /\ x.part = prog[a] + 1 /\ x.event = a
  BY <1>2 DEF Piece, PieceType
<1>4. pr \in [Appends -> Nat] /\ pr[a] = prog[a] + 1 /\ \A b \in Appends \ {a} : pr[b] = prog[b]
  BY <1>2
<1>5. e[Len(s)] \in Nat
  <2>1. Len(s) \in 0 .. Len(s)
    BY <1>2
  <2>2. QED BY <2>1
<1>6. Len(f) = e[Len(s)] + prog[a] /\ Holds(f, e[Len(s)], a, prog[a])
  <2>1. prog[a] < Pieces[a]
    BY <1>2
  <2>2. QED BY <2>1, <1>1, <1>5, GoesOnAtTheEnd
<1> HIDE DEF x, pr
<1>7. /\ Len(g) = Len(f) + 1 /\ g[Len(f) + 1] = x
      /\ \A i \in 1 .. Len(f) : g[i] = f[i]
      /\ Ends(g) = Ends(f)
  <2>1. x.part # Pieces[x.event]
    BY <1>2, <1>3
  <2>2. QED BY <2>1, <1>3, OnePieceMore
<1>8. \A k \in 1 .. Len(s) : Holds(g, e[k - 1], s[k], Pieces[s[k]])
  <2> TAKE k \in 1 .. Len(s)
  <2>1. e[k] = e[k - 1] + Pieces[s[k]] /\ Holds(f, e[k - 1], s[k], Pieces[s[k]])
    BY <1>1 DEF LinesFollow
  <2>2. e[k] <= Len(f)
    BY <1>1, LinesAreInside
  <2>3. s[k] \in Appends /\ e[k - 1] \in Nat /\ Pieces[s[k]] \in Nat
    <3>1. s[k] \in Appends /\ k - 1 \in 0 .. Len(s)
      BY <1>2, ElementOfSeq
    <3>2. QED BY <3>1, StoreAssumption
  <2>4. QED BY <2>1, <2>2, <2>3, <1>3, PiecesStay
<1>9. Holds(g, e[Len(s)], a, pr[a])
  <2>1. Holds(g, e[Len(s)], a, prog[a])
    BY <1>2, <1>3, <1>5, <1>6, PiecesStay
  <2>2. g[e[Len(s)] + (prog[a] + 1)] = Piece(a, prog[a] + 1)
    BY <1>2, <1>5, <1>6, <1>7 DEF x
  <2>3. \A j \in 1 .. (prog[a] + 1) : j \in 1 .. prog[a] \/ j = prog[a] + 1
    BY <1>2
  <2>4. QED BY <2>1, <2>2, <2>3, <1>4 DEF Holds
<1> HIDE DEF g
<1>10. LinesFollow(g, s, e)
  BY <1>1, <1>7, <1>8 DEF LinesFollow
<1>11. Begun(pr, a) /\ \A b \in Appends \ {a} : ~Begun(pr, b)
  BY <1>2, <1>4 DEF Begun
<1>12. OnlyOneOpen(g, e[Len(s)], pr)
  <2>1. Len(g) = e[Len(s)] + pr[a]
    BY <1>2, <1>4, <1>5, <1>6, <1>7
  <2>2. QED BY <2>1, <1>9, <1>11 DEF OnlyOneOpen
<1>13. LaidOut(g, s, pr)
  BY <1>10, <1>12 DEF LaidOut
<1>14. QED BY <1>13 DEF g, x, pr

\* The piece that ends its line.
LEMMA EndsTheLine ==
  ASSUME NEW f \in Seq(PieceType), NEW s \in Seq(Appends), NEW prog \in [Appends -> Nat],
         NEW a \in Appends, prog[a] + 1 = Pieces[a],
         \A b \in Appends \ {a} : ~Begun(prog, b),
         LaidOut(f, s, prog)
  PROVE  LaidOut(Append(f, Piece(a, prog[a] + 1)), Append(s, a), [prog EXCEPT ![a] = @ + 1])
<1> DEFINE x == Piece(a, prog[a] + 1)
           g == Append(f, x)
           pr == [prog EXCEPT ![a] = @ + 1]
           t == Append(s, a)
           N == Len(s)
<1>1. PICK e \in [0 .. Len(s) -> Nat] :
        LinesFollow(f, s, e) /\ OnlyOneOpen(f, e[Len(s)], prog)
  BY DEF LaidOut
<1>2. Pieces[a] \in Nat \ {0} /\ prog[a] \in Nat /\ N \in Nat /\ Len(f) \in Nat
  BY StoreAssumption, LenProperties
<1>3. x \in PieceType /\ x.part = prog[a] + 1 /\ x.event = a
  BY <1>2 DEF Piece, PieceType
<1>4. pr \in [Appends -> Nat] /\ pr[a] = prog[a] + 1 /\ \A b \in Appends \ {a} : pr[b] = prog[b]
  BY <1>2
<1>5. e[N] \in Nat
  <2>1. Len(s) \in 0 .. Len(s)
    BY <1>2
  <2>2. QED BY <2>1
<1>6. Len(f) = e[N] + prog[a] /\ Holds(f, e[N], a, prog[a])
  <2>1. prog[a] < Pieces[a]
    BY <1>2
  <2>2. QED BY <2>1, <1>1, <1>5, GoesOnAtTheEnd
<1>7. Len(t) = N + 1 /\ t[N + 1] = a /\ \A k \in 1 .. N : t[k] = s[k]
  OBVIOUS
<1>8. PICK d \in [0 .. (N + 1) -> Nat] : OneMore(d, e, N, Pieces[a])
  <2>1. \A i, j \in 0 .. N : i < j => e[i] < e[j]
    BY <1>1 DEF LinesFollow
  <2>2. Pieces[a] \in Nat \ {0} /\ N \in Nat /\ e \in [0 .. N -> Nat]
    BY <1>2
  <2> HIDE DEF N
  <2>3. QED BY <2>1, <2>2, OnePlaceMore
<1> HIDE DEF x, pr, t
<1>9. /\ Len(g) = Len(f) + 1 /\ g[Len(f) + 1] = x
      /\ \A i \in 1 .. Len(f) : g[i] = f[i]
      /\ Ends(g) = Ends(f) \cup {Len(f) + 1}
  <2>1. x.part = Pieces[x.event]
    BY <1>2, <1>3
  <2>2. QED BY <2>1, <1>3, OnePieceMore
<1>10. \A k \in 1 .. N : Holds(g, e[k - 1], s[k], Pieces[s[k]])
  <2> TAKE k \in 1 .. N
  <2>1. e[k] = e[k - 1] + Pieces[s[k]] /\ Holds(f, e[k - 1], s[k], Pieces[s[k]])
    BY <1>1 DEF LinesFollow
  <2>2. e[k] <= Len(f)
    BY <1>1, LinesAreInside
  <2>3. s[k] \in Appends /\ e[k - 1] \in Nat /\ Pieces[s[k]] \in Nat
    <3>1. s[k] \in Appends /\ k - 1 \in 0 .. Len(s)
      BY <1>2, ElementOfSeq
    <3>2. QED BY <3>1, StoreAssumption
  <2>4. QED BY <2>1, <2>2, <2>3, <1>3, PiecesStay
<1>11. Holds(g, e[N], a, Pieces[a])
  <2>1. Holds(g, e[N], a, prog[a])
    BY <1>2, <1>3, <1>5, <1>6, PiecesStay
  <2>2. g[e[N] + (prog[a] + 1)] = Piece(a, prog[a] + 1)
    BY <1>2, <1>5, <1>6, <1>9 DEF x
  <2>3. \A j \in 1 .. (prog[a] + 1) : j \in 1 .. prog[a] \/ j = prog[a] + 1
    BY <1>2
  <2>4. QED BY <2>1, <2>2, <2>3 DEF Holds
<1> HIDE DEF g
<1>12. LinesFollow(g, t, d)
  <2>1. d \in [0 .. Len(t) -> Nat] /\ d[0] = 0
    BY <1>1, <1>2, <1>7, <1>8 DEF LinesFollow, OneMore
  <2>2. \A i, j \in 0 .. Len(t) : i < j => d[i] < d[j]
    BY <1>7, <1>8 DEF OneMore
  <2>3. Ends(g) = Places(d, Len(t))
    <3>1. Ends(f) = Places(e, N)
      BY <1>1 DEF LinesFollow
    <3>2. Len(f) + 1 = e[N] + Pieces[a]
      BY <1>2, <1>5, <1>6
    <3>3. QED BY <3>1, <3>2, <1>7, <1>8, <1>9 DEF OneMore
  <2>4. ASSUME NEW k \in 1 .. Len(t)
        PROVE  d[k] = d[k - 1] + Pieces[t[k]] /\ Holds(g, d[k - 1], t[k], Pieces[t[k]])
    <3>1. CASE k = N + 1
      <4>1. k - 1 = N /\ N \in 0 .. N /\ t[k] = a /\ d[k - 1] = e[N]
        BY <3>1, <1>2, <1>7, <1>8 DEF OneMore
      <4>2. QED BY <4>1, <3>1, <1>8, <1>11 DEF OneMore
    <3>2. CASE k # N + 1
      <4>1. k \in 1 .. N /\ k \in 0 .. N /\ k - 1 \in 0 .. N
        BY <3>2, <1>2, <1>7
      <4>2. t[k] = s[k] /\ d[k] = e[k] /\ d[k - 1] = e[k - 1]
        BY <4>1, <1>7, <1>8 DEF OneMore
      <4>3. e[k] = e[k - 1] + Pieces[s[k]]
        BY <4>1, <1>1 DEF LinesFollow
      <4>4. QED BY <4>1, <4>2, <4>3, <1>10
    <3>3. QED BY <3>1, <3>2
  <2>5. QED BY <2>1, <2>2, <2>3, <2>4 DEF LinesFollow
<1>13. \A b \in Appends : ~Begun(pr, b)
  <2>1. pr[a] = Pieces[a]
    BY <1>4
  <2>2. ~Begun(pr, a)
    BY <2>1, <1>2 DEF Begun
  <2>3. \A b \in Appends \ {a} : ~Begun(pr, b)
    BY <1>4 DEF Begun
  <2>4. QED BY <2>2, <2>3
<1>14. OnlyOneOpen(g, d[Len(t)], pr)
  <2>1. Len(g) = d[Len(t)]
    BY <1>2, <1>5, <1>6, <1>7, <1>8, <1>9 DEF OneMore
  <2>2. QED BY <2>1, <1>13 DEF OnlyOneOpen
<1>15. LaidOut(g, t, pr)
  BY <1>7, <1>8, <1>12, <1>14 DEF LaidOut, OneMore
<1>16. QED BY <1>15 DEF g, x, pr, t

-----------------------------------------------------------------------------
(***************************************************************************)
(* The readers.                                                            *)
(***************************************************************************)
\* The size of an interval.
LEMMA NatInterval ==
  ASSUME NEW n \in Nat
  PROVE  IsFiniteSet(1 .. n) /\ Cardinality(1 .. n) = n
<1>1. 1 \in Int /\ n \in Int
  OBVIOUS
<1>2. IsFiniteSet(1 .. n) /\ Cardinality(1 .. n) = IF 1 > n THEN 0 ELSE n - 1 + 1
  BY <1>1, FS_Interval
<1>3. (IF 1 > n THEN 0 ELSE n - 1 + 1) = n
  OBVIOUS
<1>4. QED BY <1>2, <1>3

\* The k-th place has k - 1 places before it.
LEMMA PlacesBefore ==
  ASSUME NEW N \in Nat, NEW e \in [0 .. N -> Nat],
         \A i, j \in 0 .. N : i < j => e[i] < e[j],
         NEW k \in 1 .. N
  PROVE  Cardinality({j \in Places(e, N) : j < e[k]}) = k - 1
<1> DEFINE B == {j \in Places(e, N) : j < e[k]}
           h == [i \in 1 .. (k - 1) |-> e[i]]
<1>1. \A i, j \in 1 .. N :
        /\ e[i] \in Nat
        /\ i < j => e[i] < e[j]
        /\ e[i] < e[j] => i < j
  OBVIOUS
<1>2. h \in Bijection(1 .. (k - 1), B)
  <2>1. \A i \in 1 .. (k - 1) : i \in 1 .. N /\ h[i] = e[i]
    OBVIOUS
  <2>2. h \in [1 .. (k - 1) -> B]
    BY <1>1, <2>1 DEF Places
  <2>3. ASSUME NEW i \in 1 .. (k - 1), NEW j \in 1 .. (k - 1), h[i] = h[j]
        PROVE  i = j
    BY <1>1, <2>1, <2>3
  <2>4. ASSUME NEW x \in B
        PROVE  \E i \in 1 .. (k - 1) : h[i] = x
    <3>1. PICK i \in 1 .. N : x = e[i]
      BY DEF Places
    <3>2. i < k
      BY <3>1, <1>1
    <3>3. i \in 1 .. (k - 1)
      BY <3>2
    <3>4. QED BY <3>1, <3>3
  <2> HIDE DEF h, B
  <2>5. h \in Injection(1 .. (k - 1), B)
    BY <2>2, <2>3 DEF Injection, IsInjective
  <2>6. h \in Surjection(1 .. (k - 1), B)
    BY <2>2, <2>4 DEF Surjection
  <2>7. QED BY <2>5, <2>6 DEF Bijection
<1> HIDE DEF h, B
<1>3. IsFiniteSet(1 .. (k - 1)) /\ Cardinality(1 .. (k - 1)) = k - 1
  BY k - 1 \in Nat, NatInterval
<1>4. ExistsBijection(1 .. (k - 1), B)
  BY <1>2 DEF ExistsBijection
<1>5. Cardinality(B) = k - 1
  BY <1>3, <1>4, FS_Bijection
<1>6. QED BY <1>5 DEF B

\* And all of them are N.
LEMMA PlacesInAll ==
  ASSUME NEW N \in Nat, NEW e \in [0 .. N -> Nat],
         \A i, j \in 0 .. N : i < j => e[i] < e[j]
  PROVE  Cardinality(Places(e, N)) = N
<1> DEFINE h == [i \in 1 .. N |-> e[i]]
           B == Places(e, N)
<1>1. ASSUME NEW i \in 1 .. N, NEW j \in 1 .. N, e[i] = e[j]
      PROVE  i = j
  <2>1. e[i] \in Nat /\ ~(i < j) /\ ~(j < i)
    BY <1>1
  <2>2. QED BY <2>1
<1>2. h \in [1 .. N -> B] /\ \A x \in B : \E i \in 1 .. N : h[i] = x
  BY DEF Places
<1>3. \A i, j \in 1 .. N : h[i] = h[j] => i = j
  BY <1>1
<1> HIDE DEF h, B
<1>4. h \in Bijection(1 .. N, B)
  <2>1. h \in Injection(1 .. N, B)
    BY <1>2, <1>3 DEF Injection, IsInjective
  <2>2. h \in Surjection(1 .. N, B)
    BY <1>2 DEF Surjection
  <2>3. QED BY <2>1, <2>2 DEF Bijection
<1>5. IsFiniteSet(1 .. N) /\ Cardinality(1 .. N) = N
  BY NatInterval
<1>6. Cardinality(B) = N
  BY <1>4, <1>5, FS_Bijection DEF ExistsBijection
<1>7. QED BY <1>6 DEF B

\* A line of a settled append is read as its event.
LEMMA LineIsEvent ==
  ASSUME NEW f \in Seq(PieceType), NEW m \in Nat, NEW a \in Appends,
         m + Pieces[a] <= Len(f), Holds(f, m, a, Pieces[a])
  PROVE  LET l == SubSeq(f, m + 1, m + Pieces[a]) IN IsEvent(l) /\ l[1].event = a
<1> DEFINE l == SubSeq(f, m + 1, m + Pieces[a])
           n == Pieces[a]
<1>1. n \in Nat \ {0}
  BY StoreAssumption
<1>2. \A i \in (m + 1) .. (m + n) : f[i] \in PieceType
  <2>1. \A i \in (m + 1) .. (m + n) : i \in 1 .. Len(f)
    BY <1>1, LenProperties
  <2>2. QED BY <2>1, ElementOfSeq
<1> HIDE DEF n
<1>3. /\ SubSeq(f, m + 1, m + n) \in Seq(PieceType)
      /\ Len(SubSeq(f, m + 1, m + n)) = n
      /\ \A j \in 1 .. n : SubSeq(f, m + 1, m + n)[j] = f[m + j]
  <2>1. m + 1 \in Int /\ m + n \in Int /\ m + 1 <= m + n /\ (m + n) - (m + 1) + 1 = n
    BY <1>1
  <2>2. \A j \in 1 .. n : (m + 1) + j - 1 = m + j
    BY <1>1
  <2> DEFINE p == m + 1
             q == m + n
  <2>3. p \in Int /\ q \in Int /\ p <= q /\ q - p + 1 = n
    BY <2>1
  <2>4. \A j \in 1 .. n : p + j - 1 = m + j
    BY <2>2
  <2>5. \A i \in p .. q : f[i] \in PieceType
    BY <1>2
  <2> HIDE DEF p, q
  <2>6. /\ SubSeq(f, p, q) \in Seq(PieceType)
        /\ Len(SubSeq(f, p, q)) = IF p <= q THEN q - p + 1 ELSE 0
        /\ \A i \in 1 .. (q - p + 1) : SubSeq(f, p, q)[i] = f[p + i - 1]
    BY <2>3, <2>5, SubSeqProperties
  <2>7. /\ SubSeq(f, p, q) \in Seq(PieceType)
        /\ Len(SubSeq(f, p, q)) = n
        /\ \A j \in 1 .. n : SubSeq(f, p, q)[j] = f[m + j]
    BY <2>3, <2>4, <2>6
  <2>8. QED BY <2>7 DEF p, q
<1>4. l \in Seq(PieceType) /\ Len(l) = n /\ \A j \in 1 .. n : l[j] = Piece(a, j)
  BY <1>3 DEF n, Holds
<1> HIDE DEF l
<1>5. l = [j \in 1 .. n |-> l[j]]
  BY <1>4, LenProperties
<1>6. l = [j \in 1 .. n |-> Piece(a, j)]
  BY <1>4, <1>5
<1>7. l[1] = Piece(a, 1) /\ l[1].event = a
  BY <1>1, <1>4 DEF Piece
<1>8. IsEvent(l)
  BY <1>6, <1>7 DEF IsEvent, n
<1>9. IsEvent(l) /\ l[1].event = a
  BY <1>7, <1>8
<1>10. QED BY <1>9 DEF l

\* The streaming reader of a file in which the lines follow gives the settled appends.
LEMMA StreamGivesSettled ==
  ASSUME StoreTypeOK, NEW e \in [0 .. Len(settled) -> Nat], LinesFollow(file, settled, e)
  PROVE  /\ ReadStream = settled
         /\ Len(file) = e[Len(settled)] => OpenLine = <<>>
<1> DEFINE N == Len(settled)
<1>1. /\ N \in Nat /\ Len(file) \in Nat
      /\ file \in Seq(PieceType) /\ settled \in Seq(Appends)
  BY LenProperties DEF StoreTypeOK, PieceType
<1>2. LineEnds = Places(e, N)
  BY DEF LinesFollow, LineEnds, Ends
<1>3. \A i, j \in 0 .. N : i < j => e[i] < e[j]
  BY DEF LinesFollow
<1>4. e \in [0 .. N -> Nat] /\ e[0] = 0
  BY DEF LinesFollow
<1> HIDE DEF N
<1>5. Cardinality(LineEnds) = N
  BY <1>1, <1>2, <1>3, <1>4, PlacesInAll
<1>6. ASSUME NEW k \in 0 .. N
      PROVE  LineEnd(k) = e[k]
  <2>1. CASE k = 0
    BY <2>1, <1>4 DEF LineEnd
  <2>2. CASE k # 0
    <3>1. k \in 1 .. N
      BY <2>2, <1>1
    <3> DEFINE Before(i) == Cardinality({j \in LineEnds : j < i})
    <3>2. \A m \in 1 .. N : Before(e[m]) = m - 1
      BY <1>1, <1>2, <1>3, <1>4, PlacesBefore
    <3>3. \A i \in LineEnds : \E m \in 1 .. N : i = e[m]
      BY <1>2 DEF Places
    <3>4. e[k] \in LineEnds
      BY <3>1, <1>2 DEF Places
    <3> HIDE DEF Before
    <3>5. Before(e[k]) = k - 1
      BY <3>1, <3>2
    <3>6. \A i \in LineEnds : Before(i) = k - 1 => i = e[k]
      <4> TAKE i \in LineEnds
      <4>1. PICK m \in 1 .. N : i = e[m]
        BY <3>3
      <4>2. Before(i) = m - 1
        BY <4>1, <3>2
      <4>3. m - 1 = k - 1 => m = k
        BY <3>1
      <4>4. QED BY <4>1, <4>2, <4>3
    <3>7. (CHOOSE i \in LineEnds : Before(i) = k - 1) = e[k]
      BY <3>4, <3>5, <3>6
    <3>8. QED BY <3>7, <2>2 DEF LineEnd, Before
  <2>3. QED BY <2>1, <2>2
<1>7. /\ DOMAIN ClosedLines = 1 .. N
      /\ \A k \in 1 .. N : ClosedLines[k] = SubSeq(file, e[k - 1] + 1, e[k])
  <2>1. ClosedLines = [k \in 1 .. N |-> SubSeq(file, LineEnd(k - 1) + 1, LineEnd(k))]
    BY <1>5 DEF ClosedLines
  <2>2. \A k \in 1 .. N : k \in 0 .. N /\ k - 1 \in 0 .. N
    BY <1>1
  <2>3. QED BY <2>1, <2>2, <1>6
<1>8. \A k \in 1 .. N : IsEvent(ClosedLines[k]) /\ ClosedLines[k][1].event = settled[k]
  <2> TAKE k \in 1 .. N
  <2>1. e[k] = e[k - 1] + Pieces[settled[k]] /\ Holds(file, e[k - 1], settled[k], Pieces[settled[k]])
    BY DEF LinesFollow, N
  <2>2. e[k] <= Len(file)
    BY <1>1, LinesAreInside DEF N
  <2>3. settled[k] \in Appends /\ e[k - 1] \in Nat
    <3>1. k - 1 \in 0 .. N
      BY <1>1
    <3>2. settled[k] \in Appends
      BY <1>1, ElementOfSeq DEF N
    <3>3. QED BY <3>1, <3>2, <1>4
  <2>4. ClosedLines[k] = SubSeq(file, e[k - 1] + 1, e[k - 1] + Pieces[settled[k]])
    BY <1>7, <2>1
  <2>5. QED BY <2>1, <2>2, <2>3, <2>4, <1>1, LineIsEvent
<1>9. ReadStream = settled
  <2>1. \A k \in DOMAIN ClosedLines : IsEvent(ClosedLines[k])
    BY <1>7, <1>8
  <2>2. ReadStream = [k \in DOMAIN ClosedLines |-> ClosedLines[k][1].event]
    BY <2>1 DEF ReadStream, ReadEvents
  <2>3. ReadStream = [k \in 1 .. N |-> settled[k]]
    BY <2>2, <1>7, <1>8
  <2>4. settled = [k \in 1 .. N |-> settled[k]]
    BY <1>1, LenProperties DEF N
  <2>5. QED BY <2>3, <2>4
<1>10. ASSUME Len(file) = e[Len(settled)]
       PROVE  OpenLine = <<>>
  <2>1. LineEnd(N) = Len(file)
    BY <1>1, <1>6, <1>10 DEF N
  <2>2. OpenLine = SubSeq(file, Len(file) + 1, Len(file))
    BY <2>1, <1>5 DEF OpenLine
  <2>3. Len(file) + 1 \in Int /\ Len(file) < Len(file) + 1
    BY <1>1
  <2>4. QED BY <2>2, <2>3, <1>1, SubSeqEmpty
<1>11. QED BY <1>9, <1>10

\* The invariant gives the readers what they promise.
LEMMA ReadersAgree ==
  ASSUME IInv
  PROVE  StoreInv
<1>1. StoreTypeOK
  BY DEF IInv
<1>2. ASSUME ~torn
      PROVE  /\ ReadStream = settled
             /\ (\A a \in Appends : ~IsOpen(a)) => ReadWhole = settled
  <2>1. PICK e \in [0 .. Len(settled) -> Nat] :
          LinesFollow(file, settled, e) /\ OnlyOneOpen(file, e[Len(settled)], progress)
    BY <1>2 DEF IInv, LaidOut
  <2>2. ReadStream = settled /\ (Len(file) = e[Len(settled)] => OpenLine = <<>>)
    BY <1>1, <2>1, StreamGivesSettled
  <2>3. (\A a \in Appends : ~IsOpen(a)) => Len(file) = e[Len(settled)]
    BY <2>1 DEF OnlyOneOpen, IsOpen, Begun
  <2>4. OpenLine = <<>> => ReadWhole = ReadStream
    BY DEF ReadWhole, ReadStream
  <2>5. QED BY <2>2, <2>3, <2>4
<1>3. QED BY <1>1, <1>2 DEF StoreInv, StreamReadsSettled, WholeReadsSettled

-----------------------------------------------------------------------------
(***************************************************************************)
(* The invariant holds.                                                    *)
(***************************************************************************)
\* At first the file is empty.
LEMMA InitHolds ==
  ASSUME StoreInit
  PROVE  IInv
<1>1. StoreTypeOK
  <2>1. file \in Seq([event : Appends, part : Nat]) /\ settled \in Seq(Appends)
    BY DEF StoreInit
  <2>2. progress \in [Appends -> Nat] /\ \A a \in Appends : progress[a] <= Pieces[a]
    BY StoreAssumption DEF StoreInit
  <2>3. state \in [Appends -> {"new", "writing", "settled", "failed"}]
    BY DEF StoreInit
  <2>4. torn \in BOOLEAN /\ failures \in 0 .. MaxFailures
    <3>1. torn \in BOOLEAN
      BY DEF StoreInit
    <3>2. failures = 0 /\ MaxFailures \in Nat
      BY StoreAssumption DEF StoreInit
    <3>3. QED BY <3>1, <3>2
  <2>5. QED BY <2>1, <2>2, <2>3, <2>4 DEF StoreTypeOK
<1>2. OnTheWay(progress, state)
  BY DEF StoreInit, OnTheWay
<1>3. LaidOut(file, settled, progress)
  <2> DEFINE e == [k \in 0 .. 0 |-> 0]
  <2>1. file = <<>> /\ settled = <<>> /\ Len(<<>>) = 0 /\ DOMAIN file = {}
    BY DEF StoreInit
  <2>2. e \in [0 .. Len(settled) -> Nat] /\ e[0] = 0 /\ e[Len(settled)] = 0
    BY <2>1
  <2> HIDE DEF e
  <2>3. LinesFollow(file, settled, e)
    BY <2>1, <2>2 DEF LinesFollow, Ends, Places
  <2>4. \A a \in Appends : ~Begun(progress, a)
    BY DEF StoreInit, Begun
  <2>5. OnlyOneOpen(file, e[Len(settled)], progress)
    BY <2>1, <2>2, <2>4 DEF OnlyOneOpen
  <2>6. QED BY <2>2, <2>3, <2>5 DEF LaidOut
<1>4. QED BY <1>1, <1>2, <1>3 DEF IInv

\* A write goes on with its line, or is torn.
LEMMA WriteHolds ==
  ASSUME IInv, NEW a \in Appends, Write(a)
  PROVE  IInv'
<1> DEFINE p == progress[a] + 1
<1>1. /\ StoreTypeOK /\ OnTheWay(progress, state)
      /\ progress[a] \in Nat /\ Pieces[a] \in Nat \ {0} /\ progress[a] < Pieces[a]
  BY StoreAssumption DEF IInv, StoreTypeOK, OnTheWay, Write
<1>2. progress' = [progress EXCEPT ![a] = @ + 1] /\ progress'[a] = p
  BY <1>1 DEF Write, StoreTypeOK
<1>3. file' = Append(file, Piece(a, p))
  BY <1>2 DEF Write
<1>4. /\ p = Pieces[a] => /\ state' = [state EXCEPT ![a] = "settled"]
                         /\ settled' = Append(settled, a)
      /\ p # Pieces[a] => UNCHANGED <<state, settled>>
  BY <1>2 DEF Write
<1>5. file \in Seq(PieceType) /\ settled \in Seq(Appends) /\ progress \in [Appends -> Nat]
  BY <1>1 DEF StoreTypeOK, PieceType
<1>6. StoreTypeOK'
  <2>1. Piece(a, p) \in PieceType
    BY <1>1 DEF Piece, PieceType
  <2>2. file' \in Seq(PieceType)
    BY <2>1, <1>3, <1>5, AppendProperties
  <2>3. progress' \in [Appends -> Nat] /\ \A b \in Appends : progress'[b] <= Pieces[b]
    BY <1>1, <1>2 DEF StoreTypeOK
  <2>4. state' \in [Appends -> {"new", "writing", "settled", "failed"}]
    BY <1>1, <1>4 DEF StoreTypeOK
  <2>5. settled' \in Seq(Appends)
    <3>1. settled' = settled \/ settled' = Append(settled, a)
      BY <1>4
    <3>2. Append(settled, a) \in Seq(Appends)
      BY <1>5, AppendProperties
    <3>3. QED BY <3>1, <3>2, <1>5
  <2>6. torn' \in BOOLEAN /\ failures' \in 0 .. MaxFailures
    BY <1>1 DEF StoreTypeOK, Write, IsOpenBeside
  <2>7. QED BY <2>2, <2>3, <2>4, <2>5, <2>6 DEF StoreTypeOK, PieceType
<1>7. OnTheWay(progress', state')
  <2>1. p = Pieces[a] \/ p < Pieces[a]
    BY <1>1
  <2>2. state[a] = "writing"
    BY DEF Write
  <2>3. QED BY <2>1, <2>2, <1>1, <1>2, <1>4 DEF OnTheWay, StoreTypeOK
<1>8. ASSUME ~torn'
      PROVE  LaidOut(file', settled', progress')
  <2>1. ~torn /\ \A b \in Appends \ {a} : ~Begun(progress, b)
    BY <1>8 DEF Write, IsOpenBeside, IsOpen, Begun
  <2>2. LaidOut(file, settled, progress)
    BY <2>1 DEF IInv
  <2>3. CASE p = Pieces[a]
    <3>1. progress[a] + 1 = Pieces[a] /\ settled' = Append(settled, a)
      BY <2>3, <1>4
    <3>2. LaidOut(Append(file, Piece(a, p)), Append(settled, a), [progress EXCEPT ![a] = @ + 1])
      BY <3>1, <2>1, <2>2, <1>5, EndsTheLine
    <3>3. QED BY <3>1, <3>2, <1>2, <1>3
  <2>4. CASE p # Pieces[a]
    <3>1. progress[a] + 1 < Pieces[a]
      BY <2>4, <1>1
    <3>2. LaidOut(Append(file, Piece(a, p)), settled, [progress EXCEPT ![a] = @ + 1])
      BY <3>1, <2>1, <2>2, <1>5, WritesInTheLine
    <3>3. settled' = settled
      BY <2>4, <1>4
    <3>4. QED BY <3>2, <3>3, <1>2, <1>3
  <2>5. QED BY <2>3, <2>4
<1>9. QED BY <1>6, <1>7, <1>8 DEF IInv

\* The other steps leave the file as it is.
LEMMA FileStays ==
  ASSUME IInv, UNCHANGED <<file, progress, settled, torn>>, failures' \in 0 .. MaxFailures,
         state' \in [Appends -> {"new", "writing", "settled", "failed"}],
         \A a \in Appends : state'[a] = "new" => state[a] = "new",
         \A a \in Appends : state'[a] = "writing" => state[a] \in {"new", "writing"}
  PROVE  IInv'
<1>1. StoreTypeOK'
  BY DEF IInv, StoreTypeOK
<1>2. OnTheWay(progress', state')
  <2>1. \A a \in Appends : Pieces[a] \in Nat \ {0}
    BY StoreAssumption
  <2>2. QED BY <2>1 DEF IInv, OnTheWay
<1>3. ~torn' => LaidOut(file', settled', progress')
  BY DEF IInv
<1>4. QED BY <1>1, <1>2, <1>3 DEF IInv

\* Every step keeps the invariant.
LEMMA StepHolds ==
  ASSUME IInv, [StoreNext]_storeVars
  PROVE  IInv'
<1>1. StoreTypeOK
  BY DEF IInv
<1>2. failures \in Nat /\ MaxFailures \in Nat
  BY <1>1, StoreAssumption DEF StoreTypeOK
<1>3. ASSUME NEW a \in Appends, Start(a)
      PROVE  IInv'
  <2>1. state' = [state EXCEPT ![a] = "writing"] /\ state[a] = "new"
    BY <1>3 DEF Start
  <2>2. UNCHANGED <<file, progress, settled, torn>> /\ failures' = failures
    BY <1>3 DEF Start
  <2>3. QED BY <2>1, <2>2, <1>1, FileStays DEF StoreTypeOK
<1>4. ASSUME NEW a \in Appends, WriteFails(a)
      PROVE  IInv'
  <2>1. state' = [state EXCEPT ![a] = "failed"]
    BY <1>4 DEF WriteFails
  <2>2. UNCHANGED <<file, progress, settled, torn>> /\ failures' \in 0 .. MaxFailures
    BY <1>2, <1>4 DEF WriteFails
  <2>3. QED BY <2>1, <2>2, <1>1, FileStays DEF StoreTypeOK
<1>5. ASSUME Crash
      PROVE  IInv'
  <2>1. state' = [a \in Appends |-> IF state[a] = "writing" THEN "failed" ELSE state[a]]
    BY <1>5 DEF Crash
  <2>2. UNCHANGED <<file, progress, settled, torn>> /\ failures' \in 0 .. MaxFailures
    BY <1>2, <1>5 DEF Crash
  <2>3. QED BY <2>1, <2>2, <1>1, FileStays DEF StoreTypeOK
<1>6. ASSUME UNCHANGED storeVars
      PROVE  IInv'
  BY <1>1, <1>6, FileStays DEF storeVars, StoreTypeOK
<1>7. QED BY <1>3, <1>4, <1>5, <1>6, WriteHolds DEF StoreNext

\* The lines of the settled appends follow each other, and behind them is at most one
\* that has begun, until an append writes into the open line of another.
THEOREM Invariance == StoreSpec => []IInv
<1>1. StoreInit => IInv
  BY InitHolds
<1>2. IInv /\ [StoreNext]_storeVars => IInv'
  BY StepHolds
<1>3. QED BY <1>1, <1>2, PTL DEF StoreSpec

\* Both readers of events.jsonl give the events whose appends have settled, in that
\* order, also when an append has failed half way or the process has died, until one
\* writes into an open line: streamEventsFromRunDir at any time, readAll and
\* readEventsFromRunDir when no line is open.
THEOREM ReadersHold == StoreSpec => []StoreInv
<1>1. IInv => StoreInv
  BY ReadersAgree
<1>2. QED BY <1>1, Invariance, PTL

-----------------------------------------------------------------------------
(***************************************************************************)
(* Lists of finite sets in an order.                                       *)
(***************************************************************************)
\* The pairs of R order the members of S, no two alike.
Orders(R, S) ==
  /\ \A x \in S : <<x, x>> \notin R
  /\ \A x, y \in S : x # y => <<x, y>> \in R \/ <<y, x>> \in R
  /\ \A x, y, z \in S : <<x, y>> \in R /\ <<y, z>> \in R => <<x, z>> \in R

\* s lists the members of S, each once, in the order R.
Lists(s, S, R) ==
  /\ s \in Seq(S) /\ Len(s) = Cardinality(S) /\ Len(s) \in Nat /\ DOMAIN s = 1 .. Len(s)
  /\ \A k \in 1 .. Len(s) : s[k] \in S
  /\ \A x \in S : \E k \in 1 .. Len(s) : s[k] = x
  /\ \A j, k \in 1 .. Len(s) : j < k => <<s[j], s[k]>> \in R

\* What stands before a member of an ordered finite set.
Below(x, S, R) == {y \in S : <<y, x>> \in R}

\* Each place in the order of a finite set is taken by one member.
LEMMA PlacesAreTaken ==
  ASSUME NEW S, IsFiniteSet(S), NEW R, Orders(R, S)
  PROVE  /\ Cardinality(S) \in Nat
         /\ \A x \in S : Cardinality(Below(x, S, R)) \in 0 .. (Cardinality(S) - 1)
         /\ \A k \in 1 .. Cardinality(S) : \E x \in S : Cardinality(Below(x, S, R)) = k - 1
         /\ \A x, z \in S :
              <<x, z>> \in R <=> Cardinality(Below(x, S, R)) < Cardinality(Below(z, S, R))
<1> DEFINE N == Cardinality(S)
           rank(x) == Cardinality(Below(x, S, R))
           place == [x \in S |-> rank(x) + 1]
<1>0. N \in Nat
  BY FS_CardinalityType
<1>1. ASSUME NEW x \in S
      PROVE  IsFiniteSet(Below(x, S, R)) /\ rank(x) \in Nat /\ rank(x) < N
  <2>1. Below(x, S, R) \in SUBSET S /\ Below(x, S, R) # S
    BY DEF Below, Orders
  <2>2. IsFiniteSet(Below(x, S, R)) /\ rank(x) <= N /\ N # rank(x)
    BY <2>1, FS_Subset
  <2>3. rank(x) \in Nat
    BY <2>2, FS_CardinalityType
  <2> HIDE DEF rank
  <2> QED BY <1>0, <2>2, <2>3
<1>2. ASSUME NEW x \in S, NEW z \in S, <<x, z>> \in R PROVE rank(x) < rank(z)
  <2>1. Below(x, S, R) \in SUBSET Below(z, S, R) /\ Below(x, S, R) # Below(z, S, R)
    <3>1. x \in Below(z, S, R) /\ x \notin Below(x, S, R)
      BY <1>2 DEF Below, Orders
    <3>2. ASSUME NEW y \in Below(x, S, R) PROVE y \in Below(z, S, R)
      BY <1>2 DEF Below, Orders
    <3> QED BY <3>1, <3>2
  <2>2. IsFiniteSet(Below(z, S, R))
    BY <1>1
  <2>3. rank(x) <= rank(z) /\ rank(x) # rank(z)
    BY <2>1, <2>2, FS_Subset
  <2>4. rank(x) \in Nat /\ rank(z) \in Nat
    BY <1>1
  <2> HIDE DEF rank
  <2> QED BY <2>3, <2>4
<1> HIDE DEF rank
<1>3. ASSUME NEW x \in S, NEW z \in S PROVE <<x, z>> \in R <=> rank(x) < rank(z)
  <2>1. rank(x) \in Nat /\ rank(z) \in Nat
    BY <1>1
  <2>2. x = z => <<x, z>> \notin R
    BY DEF Orders
  <2>3. x # z /\ <<x, z>> \notin R => <<z, x>> \in R
    BY DEF Orders
  <2>4. <<z, x>> \in R => rank(z) < rank(x)
    BY <1>2
  <2> QED BY <1>2, <2>1, <2>2, <2>3, <2>4
<1>4. ASSUME NEW x \in S, NEW z \in S, rank(x) = rank(z) PROVE x = z
  <2>1. rank(x) \in Nat /\ rank(z) \in Nat
    BY <1>1
  <2>2. x # z => <<x, z>> \in R \/ <<z, x>> \in R
    BY DEF Orders
  <2> QED BY <1>2, <1>4, <2>1, <2>2
<1>5. place \in Injection(S, 1 .. N)
  <2>1. place \in [S -> 1 .. N]
    <3>1. ASSUME NEW x \in S PROVE rank(x) + 1 \in 1 .. N
      BY <1>0, <1>1
    <3> QED BY <3>1
  <2>2. ASSUME NEW x \in S, NEW z \in S, place[x] = place[z] PROVE x = z
    <3>1. rank(x) \in Nat /\ rank(z) \in Nat
      BY <1>1
    <3>2. rank(x) + 1 = rank(z) + 1
      BY <2>2
    <3>3. rank(x) = rank(z)
      BY <3>1, <3>2
    <3> QED BY <1>4, <3>3
  <2> QED BY <2>1, <2>2 DEF Injection, IsInjective
<1>6. place \in Surjection(S, 1 .. N)
  <2>1. IsFiniteSet(1 .. N) /\ Cardinality(1 .. N) = N
    BY <1>0, FS_Interval
  <2> QED BY <1>5, <2>1, FS_Injection
<1>7. ASSUME NEW k \in 1 .. N PROVE \E x \in S : rank(x) = k - 1
  <2>1. PICK x \in S : place[x] = k
    BY <1>6 DEF Surjection
  <2>2. rank(x) + 1 = k
    BY <2>1
  <2>3. rank(x) = k - 1
    BY <1>0, <1>1, <2>2
  <2> QED BY <2>3
<1>8. ASSUME NEW x \in S PROVE rank(x) \in 0 .. (N - 1)
  BY <1>0, <1>1
<1> QED BY <1>0, <1>3, <1>7, <1>8 DEF rank

\* A function on 1 to n, as a sequence.
LEMMA SequenceOf ==
  ASSUME NEW n \in Nat, NEW f
  PROVE  LET s == SubSeq(f, 1, n)
         IN  s = [k \in 1 .. n |-> f[k]] /\ Len(s) = n /\ DOMAIN s = 1 .. n
<1> DEFINE s == SubSeq(f, 1, n)
           S == {f[k] : k \in 1 .. n}
<1>1. CASE n = 0
  <2>1. s = <<>>
    BY <1>1, SubSeqEmpty
  <2> QED BY <2>1, <1>1
<1>2. CASE n # 0
  <2>1. 1 <= n /\ n - 1 + 1 = n /\ 1 \in Int /\ n \in Int /\ \A k \in 1 .. n : 1 + k - 1 = k
    BY <1>2
  <2>2. \A k \in 1 .. n : f[k] \in S
    OBVIOUS
  <2> HIDE DEF S
  <2>3. /\ s \in Seq(S) /\ Len(s) = n
        /\ \A k \in 1 .. (n - 1 + 1) : s[k] = f[1 + k - 1]
    BY <2>1, <2>2, SubSeqProperties
  <2> HIDE DEF s
  <2>4. \A k \in 1 .. n : s[k] = f[k]
    BY <2>1, <2>3
  <2>5. DOMAIN s = 1 .. n /\ s = [k \in 1 .. n |-> s[k]]
    BY <2>3, LenProperties
  <2> QED BY <2>3, <2>4, <2>5
<1> QED BY <1>1, <1>2 DEF s

\* Sorted lists the members of a finite set in an order.
LEMMA SortedIs ==
  ASSUME NEW S, IsFiniteSet(S), NEW R, Orders(R, S)
  PROVE  Lists(Sorted(S, R), S, R)
<1> DEFINE N == Cardinality(S)
           rank(x) == Cardinality(Below(x, S, R))
           s == [n \in 1 .. N |-> CHOOSE x \in S : rank(x) = n - 1]
<1>1. Sorted(S, R) = s
  <2>1. Sorted(S, R) = SubSeq(s, 1, N)
    BY DEF Sorted, Below
  <2>2. N \in Nat
    BY FS_CardinalityType
  <2>3. s = [k \in 1 .. N |-> s[k]]
    OBVIOUS
  <2> HIDE DEF s, N
  <2> QED BY <2>1, <2>2, <2>3, SequenceOf
<1>2. /\ N \in Nat
      /\ \A x \in S : rank(x) \in 0 .. (N - 1)
      /\ \A k \in 1 .. N : \E x \in S : rank(x) = k - 1
      /\ \A x, z \in S : <<x, z>> \in R <=> rank(x) < rank(z)
  BY PlacesAreTaken
<1> HIDE DEF rank
<1>3. ASSUME NEW k \in 1 .. N PROVE s[k] \in S /\ rank(s[k]) = k - 1
  <2>1. s[k] = CHOOSE x \in S : rank(x) = k - 1
    OBVIOUS
  <2>2. \E x \in S : rank(x) = k - 1
    BY <1>2
  <2> HIDE DEF s
  <2> QED BY <2>1, <2>2
<1>4. s \in [1 .. N -> S] /\ DOMAIN s = 1 .. N
  BY <1>3
<1>5. s \in Seq(S) /\ Len(s) = N
  <2> HIDE DEF s
  <2> QED BY <1>2, <1>4, SeqDef, LenProperties
<1> HIDE DEF s
<1>6. ASSUME NEW x \in S PROVE \E k \in 1 .. N : s[k] = x
  <2>1. rank(x) + 1 \in 1 .. N /\ (rank(x) + 1) - 1 = rank(x)
    BY <1>2
  <2>2. s[rank(x) + 1] \in S /\ rank(s[rank(x) + 1]) = rank(x)
    BY <1>3, <2>1
  <2>3. s[rank(x) + 1] = x
    <3> DEFINE y == s[rank(x) + 1]
    <3>1. y \in S /\ rank(y) = rank(x) /\ rank(x) \in Nat
      BY <1>2, <2>2
    <3> HIDE DEF y
    <3>2. ~(rank(y) < rank(x)) /\ ~(rank(x) < rank(y))
      BY <3>1
    <3>3. <<y, x>> \notin R /\ <<x, y>> \notin R
      BY <1>2, <3>1, <3>2
    <3>4. y = x
      BY <3>1, <3>3 DEF Orders
    <3> QED BY <3>4 DEF y
  <2> QED BY <2>1, <2>3
<1>7. ASSUME NEW j \in 1 .. N, NEW k \in 1 .. N, j < k PROVE <<s[j], s[k]>> \in R
  <2>1. rank(s[j]) = j - 1 /\ rank(s[k]) = k - 1 /\ s[j] \in S /\ s[k] \in S
    BY <1>3
  <2>2. rank(s[j]) < rank(s[k])
    BY <1>2, <1>7, <2>1
  <2> QED BY <1>2, <2>1, <2>2
<1> QED BY <1>1, <1>2, <1>3, <1>4, <1>5, <1>6, <1>7 DEF Lists

\* A list holds no member twice.
LEMMA ListedOnce ==
  ASSUME NEW S, NEW R, Orders(R, S), NEW s, Lists(s, S, R),
         NEW j \in 1 .. Len(s), NEW k \in 1 .. Len(s), s[j] = s[k]
  PROVE  j = k
<1>1. s[j] \in S /\ <<s[j], s[j]>> \notin R
  BY DEF Lists, Orders
<1>2. ~(j < k) /\ ~(k < j)
  BY <1>1 DEF Lists
<1> QED BY <1>2 DEF Lists

\* s holds the members of a set of numbers, in their order.
Climbs(s, S) ==
  /\ s \in Seq(S) /\ Len(s) \in Nat /\ DOMAIN s = 1 .. Len(s)
  /\ \A k \in 1 .. Len(s) : s[k] \in S
  /\ \A x \in S : \E k \in 1 .. Len(s) : s[k] = x
  /\ \A j, k \in 1 .. Len(s) : j < k <=> s[j] < s[k]
  /\ \A j, k \in 1 .. Len(s) : s[j] = s[k] => j = k

\* Ascending gives the members of a finite set of numbers, in their order.
LEMMA AscendingIs ==
  ASSUME NEW S \in SUBSET Nat, IsFiniteSet(S)
  PROVE  Climbs(Ascending(S), S)
<1> DEFINE R == {p \in S \X S : p[1] < p[2]}
           s == Ascending(S)
<1>1. \A x, y \in S : <<x, y>> \in R <=> x < y
  OBVIOUS
<1>2. s = Sorted(S, R)
  BY DEF Ascending
<1> HIDE DEF R, s
<1>3. Orders(R, S)
  BY <1>1 DEF Orders
<1>4. Lists(s, S, R)
  BY <1>2, <1>3, SortedIs
<1>5. ASSUME NEW j \in 1 .. Len(s), NEW k \in 1 .. Len(s), s[j] = s[k] PROVE j = k
  BY <1>3, <1>4, <1>5, ListedOnce
<1>6. ASSUME NEW j \in 1 .. Len(s), NEW k \in 1 .. Len(s) PROVE j < k <=> s[j] < s[k]
  <2>1. Len(s) \in Nat /\ s[j] \in S /\ s[k] \in S /\ s[j] \in Nat /\ s[k] \in Nat
    <3>1. Len(s) \in Nat /\ s[j] \in S /\ s[k] \in S
      BY <1>4 DEF Lists
    <3> QED BY <3>1
  <2>2. j < k => s[j] < s[k]
    BY <1>1, <1>4, <2>1 DEF Lists
  <2>3. k < j => s[k] < s[j]
    BY <1>1, <1>4, <2>1 DEF Lists
  <2>4. j = k => ~(s[j] < s[k])
    BY <2>1
  <2> QED BY <2>1, <2>2, <2>3, <2>4
<1> QED BY <1>4, <1>5, <1>6 DEF Lists, Climbs, s

\* The numbers of a list, and each part of them, are finitely many.
LEMMA PlacesAreFinite ==
  ASSUME NEW n \in Nat, NEW S \in SUBSET (1 .. n)
  PROVE  S \in SUBSET Nat /\ IsFiniteSet(S)
<1>1. IsFiniteSet(1 .. n)
  BY FS_Interval
<1>2. IsFiniteSet(S)
  BY <1>1, FS_Subset
<1> QED BY <1>2

\* A finite set of numbers has a least and a greatest member, if any.
LEMMA ExtremesAre ==
  ASSUME NEW S \in SUBSET Nat, IsFiniteSet(S), S # {}
  PROVE  /\ Min(S) \in S /\ \A j \in S : Min(S) <= j
         /\ Max(S) \in S /\ \A j \in S : j <= Max(S)
<1> DEFINE s == Ascending(S)
<1>1. Climbs(s, S)
  BY AscendingIs
<1> HIDE DEF s
<1>2. Len(s) \in Nat /\ Len(s) >= 1
  <2>1. PICK k \in 1 .. Len(s) : s[k] \in S
    BY <1>1 DEF Climbs
  <2>2. Len(s) \in Nat
    BY <1>1 DEF Climbs
  <2> QED BY <2>1, <2>2
<1>3. 1 \in 1 .. Len(s) /\ Len(s) \in 1 .. Len(s)
  BY <1>2
<1>4. s[1] \in S /\ \A j \in S : s[1] <= j
  <2>1. s[1] \in S
    BY <1>1, <1>3 DEF Climbs
  <2>2. ASSUME NEW j \in S PROVE s[1] <= j
    <3>1. PICK k \in 1 .. Len(s) : s[k] = j
      BY <1>1 DEF Climbs
    <3>2. ~(k < 1)
      BY <1>2
    <3>3. ~(s[k] < s[1])
      BY <1>1, <1>3, <3>2 DEF Climbs
    <3>4. s[k] \in Nat /\ s[1] \in Nat
      BY <2>1, <3>1
    <3> QED BY <3>1, <3>3, <3>4
  <2> QED BY <2>1, <2>2
<1>5. s[Len(s)] \in S /\ \A j \in S : j <= s[Len(s)]
  <2>1. s[Len(s)] \in S
    BY <1>1, <1>3 DEF Climbs
  <2>2. ASSUME NEW j \in S PROVE j <= s[Len(s)]
    <3>1. PICK k \in 1 .. Len(s) : s[k] = j
      BY <1>1 DEF Climbs
    <3>2. ~(Len(s) < k)
      BY <1>2
    <3>3. ~(s[Len(s)] < s[k])
      BY <1>1, <1>3, <3>2 DEF Climbs
    <3>4. s[k] \in Nat /\ s[Len(s)] \in Nat
      BY <2>1, <3>1
    <3> QED BY <3>1, <3>3, <3>4
  <2> QED BY <2>1, <2>2
<1>6. Min(S) \in S /\ \A j \in S : Min(S) <= j
  BY <1>4 DEF Min
<1>7. Max(S) \in S /\ \A j \in S : j <= Max(S)
  <2>1. \E x \in S : \A y \in S : x >= y
    BY <1>5
  <2>2. Max(S) \in S /\ \A y \in S : Max(S) >= y
    BY <2>1 DEF Max
  <2> QED BY <2>2
<1> QED BY <1>6, <1>7

\* Numbers that climb in the place of 1 to n are 1 to n.
LEMMA ClimbIsIdentity ==
  ASSUME NEW n \in Nat, NEW h \in [1 .. n -> 1 .. n],
         \A j, k \in 1 .. n : j < k => h[j] < h[k]
  PROVE  \A k \in 1 .. n : h[k] = k
<1> DEFINE low == {k \in 1 .. n : h[k] < k}
           high == {k \in 1 .. n : h[k] > k}
<1>1. low = {}
  <2> SUFFICES ASSUME low # {} PROVE FALSE
    OBVIOUS
  <2>1. low \in SUBSET Nat /\ IsFiniteSet(low)
    BY PlacesAreFinite
  <2> DEFINE m == Min(low)
  <2>2. m \in low /\ \A j \in low : m <= j
    BY <2>1, ExtremesAre
  <2> HIDE DEF m
  <2>3. m \in 1 .. n /\ h[m] < m /\ h[m] \in 1 .. n
    BY <2>2
  <2>4. h[h[m]] < h[m]
    BY <2>3
  <2>5. h[m] \in low
    BY <2>3, <2>4
  <2>6. m <= h[m]
    BY <2>2, <2>5
  <2> QED BY <2>3, <2>6
<1>2. high = {}
  <2> SUFFICES ASSUME high # {} PROVE FALSE
    OBVIOUS
  <2>1. high \in SUBSET Nat /\ IsFiniteSet(high)
    BY PlacesAreFinite
  <2> DEFINE m == Max(high)
  <2>2. m \in high /\ \A j \in high : j <= m
    BY <2>1, ExtremesAre
  <2> HIDE DEF m
  <2>3. m \in 1 .. n /\ h[m] > m /\ h[m] \in 1 .. n
    BY <2>2
  <2>4. h[h[m]] > h[m]
    BY <2>3
  <2>5. h[m] \in high
    BY <2>3, <2>4
  <2>6. h[m] <= m
    BY <2>2, <2>5
  <2> QED BY <2>3, <2>6
<1>3. ASSUME NEW k \in 1 .. n PROVE h[k] = k
  BY <1>1, <1>2, h[k] \in 1 .. n
<1> QED BY <1>3

-----------------------------------------------------------------------------
(***************************************************************************)
(* The events of a run, and the requests they are of.                      *)
(***************************************************************************)
\* How a request may name its turn.
TurnNames == ToSet(TurnIds) \cup NoTurn \cup {None}

\* What every event has, and what one of a turn is.
EventOK(e) ==
  /\ {"kind", "request", "time"} \subseteq DOMAIN e
  /\ e.request \in Nat /\ e.time \in 0 .. MaxClock
  /\ e.kind = "turn" => \E r \in Requests_, t \in TurnNames : e = TurnEvent(r, t, e.time)

\* A value with a length, places 1 to it, and nothing else.
IsList(list) == list \in Seq(ToSet(list))

\* A list of events.
ListOK(list) == IsList(list) /\ \A k \in DOMAIN list : EventOK(list[k])

\* a is some of the list: the events of a kind, in whatever order.
AreOfKind(a, list, kind) ==
  \E n \in Nat :
    /\ DOMAIN a = 1 .. n
    /\ \A i \in 1 .. n : \E k \in PlacesOf(list, kind) : a[i] = list[k]
    /\ \A k \in PlacesOf(list, kind) : \E i \in 1 .. n : a[i] = list[k]

\* The places of a list.
LEMMA ListIs ==
  ASSUME NEW s, IsList(s)
  PROVE  Len(s) \in Nat /\ DOMAIN s = 1 .. Len(s)
BY LenProperties DEF IsList

\* A sequence of members of any set is a list.
LEMMA SeqIsList ==
  ASSUME NEW S, NEW s \in Seq(S)
  PROVE  IsList(s)
<1>1. Len(s) \in Nat /\ DOMAIN s = 1 .. Len(s) /\ s \in [1 .. Len(s) -> S]
  BY LenProperties
<1>2. ToSet(s) = {s[i] : i \in 1 .. Len(s)}
  BY <1>1 DEF ToSet
<1>3. s \in [1 .. Len(s) -> ToSet(s)]
  BY <1>1, <1>2
<1> QED BY <1>1, <1>3, SeqDef DEF IsList

\* A function on 1 to n into a set is a sequence.
LEMMA FunctionIsSeq ==
  ASSUME NEW n \in Nat, NEW S, NEW s \in [1 .. n -> S]
  PROVE  s \in Seq(S) /\ Len(s) = n /\ DOMAIN s = 1 .. n
<1>1. s \in Seq(S) /\ DOMAIN s = 1 .. n
  BY SeqDef
<1> QED BY <1>1, LenProperties

\* A function on 1 to n is a list.
LEMMA FunctionIsList ==
  ASSUME NEW n \in Nat, NEW s, s = [i \in 1 .. n |-> s[i]]
  PROVE  IsList(s) /\ Len(s) = n /\ DOMAIN s = 1 .. n
<1>1. s \in [1 .. n -> {s[i] : i \in 1 .. n}]
  OBVIOUS
<1>2. s \in Seq({s[i] : i \in 1 .. n})
  BY <1>1, SeqDef
<1>3. DOMAIN s = 1 .. n
  BY <1>1
<1> QED BY <1>2, <1>3, SeqIsList, LenProperties

\* The places of the events of a kind are places of the list.
LEMMA PlacesOfIs ==
  ASSUME NEW list, IsList(list), NEW kind
  PROVE  /\ PlacesOf(list, kind) \in SUBSET (1 .. Len(list))
         /\ PlacesOf(list, kind) \in SUBSET Nat /\ IsFiniteSet(PlacesOf(list, kind))
         /\ \A k \in PlacesOf(list, kind) : k \in DOMAIN list /\ list[k].kind = kind
<1>1. Len(list) \in Nat /\ DOMAIN list = 1 .. Len(list)
  BY ListIs
<1>2. PlacesOf(list, kind) \in SUBSET (1 .. Len(list))
  BY <1>1 DEF PlacesOf
<1>3. \A k \in PlacesOf(list, kind) : k \in DOMAIN list /\ list[k].kind = kind
  BY DEF PlacesOf
<1> QED BY <1>1, <1>2, <1>3, PlacesAreFinite

\* OfKind keeps the events of a kind.
LEMMA OfKindIs ==
  ASSUME NEW list, IsList(list), NEW kind
  PROVE  AreOfKind(OfKind(list, kind), list, kind)
<1> DEFINE P == PlacesOf(list, kind)
           places == Ascending(P)
           s == [n \in DOMAIN places |-> list[places[n]]]
<1>1. OfKind(list, kind) = s
  BY DEF OfKind
<1>2. Climbs(places, P)
  BY PlacesOfIs, AscendingIs
<1> HIDE DEF P, places
<1>3. Len(places) \in Nat /\ DOMAIN s = 1 .. Len(places)
  BY <1>2 DEF Climbs
<1>4. ASSUME NEW i \in 1 .. Len(places) PROVE \E k \in P : s[i] = list[k]
  BY <1>2 DEF Climbs
<1>5. ASSUME NEW k \in P PROVE \E i \in 1 .. Len(places) : s[i] = list[k]
  BY <1>2 DEF Climbs
<1> HIDE DEF s
<1> QED BY <1>1, <1>3, <1>4, <1>5 DEF AreOfKind, P

\* The place i comes before j: by the number f, then by g, then by itself.
Earlier(f, g, i, j) ==
  \/ f[i] < f[j]
  \/ f[i] = f[j] /\ g[i] < g[j]
  \/ f[i] = f[j] /\ g[i] = g[j] /\ i < j

\* t has the members of s at 1 to n, in the order R of their places.
Rearranges(t, s, n, R) ==
  /\ DOMAIN t = 1 .. n
  /\ \E h \in [1 .. n -> 1 .. n] :
       Lists(h, 1 .. n, R) /\ \A k \in 1 .. n : t[k] = s[h[k]]

\* A sequence that is sorted is the same members in another order.
LEMMA Rearranged ==
  ASSUME NEW n \in Nat, NEW s, DOMAIN s = 1 .. n, NEW R, Orders(R, 1 .. n),
         NEW order, order = Sorted(DOMAIN s, R),
         NEW t, DOMAIN t = DOMAIN order, \A k \in DOMAIN order : t[k] = s[order[k]]
  PROVE  Rearranges(t, s, n, R)
<1>1. IsFiniteSet(1 .. n) /\ Cardinality(1 .. n) = n
  BY FS_Interval
<1>2. Lists(order, 1 .. n, R)
  BY <1>1, SortedIs
<1>3. DOMAIN order = 1 .. n /\ Len(order) = n /\ order \in Seq(1 .. n)
  BY <1>1, <1>2 DEF Lists
<1>4. order \in [1 .. n -> 1 .. n]
  BY <1>3, LenProperties
<1>5. DOMAIN t = 1 .. n /\ \A k \in 1 .. n : t[k] = s[order[k]]
  BY <1>3
<1>6. \E h \in [1 .. n -> 1 .. n] : Lists(h, 1 .. n, R) /\ \A k \in 1 .. n : t[k] = s[h[k]]
  <2> WITNESS order \in [1 .. n -> 1 .. n]
  <2> QED BY <1>2, <1>5
<1> QED BY <1>5, <1>6 DEF Rearranges

\* Places are in order by numbers, by others where those are the same, and by themselves.
LEMMA KeysOrder ==
  ASSUME NEW n \in Nat, NEW f \in [1 .. n -> Nat], NEW g \in [1 .. n -> Nat], NEW R,
         \A i, j \in 1 .. n : <<i, j>> \in R <=> Earlier(f, g, i, j)
  PROVE  Orders(R, 1 .. n)
<1>1. \A i \in 1 .. n : i \in Nat /\ f[i] \in Nat /\ g[i] \in Nat
  OBVIOUS
<1>2. \A x \in 1 .. n : <<x, x>> \notin R
  BY <1>1 DEF Earlier
<1>3. ASSUME NEW x \in 1 .. n, NEW y \in 1 .. n, x # y PROVE <<x, y>> \in R \/ <<y, x>> \in R
  <2>1. /\ x \in Nat /\ f[x] \in Nat /\ g[x] \in Nat
        /\ y \in Nat /\ f[y] \in Nat /\ g[y] \in Nat
    BY <1>1
  <2>2. Earlier(f, g, x, y) \/ Earlier(f, g, y, x)
    BY <1>3, <2>1 DEF Earlier
  <2> QED BY <2>2
<1>4. ASSUME NEW x \in 1 .. n, NEW y \in 1 .. n, NEW z \in 1 .. n, <<x, y>> \in R, <<y, z>> \in R
      PROVE  <<x, z>> \in R
  <2>1. /\ x \in Nat /\ f[x] \in Nat /\ g[x] \in Nat
        /\ y \in Nat /\ f[y] \in Nat /\ g[y] \in Nat
        /\ z \in Nat /\ f[z] \in Nat /\ g[z] \in Nat
    BY <1>1
  <2>2. Earlier(f, g, x, y) /\ Earlier(f, g, y, z)
    BY <1>4
  <2>3. Earlier(f, g, x, z)
    BY <2>1, <2>2 DEF Earlier
  <2> QED BY <2>3
<1> QED BY <1>2, <1>3, <1>4 DEF Orders

\* The events of a list have numbers for requests and times.
LEMMA EventType ==
  ASSUME NEW list, ListOK(list), NEW k \in DOMAIN list
  PROVE  list[k].request \in Nat /\ list[k].time \in Nat /\ list[k].time \in 0 .. MaxClock
<1>1. list[k].request \in Nat /\ list[k].time \in 0 .. MaxClock
  BY DEF ListOK, EventOK
<1> QED BY <1>1, RunAssumption

\* Artifacts keeps the events of artifacts.
LEMMA ArtifactsAre ==
  ASSUME NEW list, ListOK(list)
  PROVE  AreOfKind(Artifacts(list), list, "artifact")
<1> DEFINE s == OfKind(list, "artifact")
           a == Artifacts(list)
           before(i, j) == IsBefore(s[i], s[j]) \/ (~IsBefore(s[j], s[i]) /\ i < j)
           R == {p \in (DOMAIN s) \X (DOMAIN s) : before(p[1], p[2])}
           order == Sorted(DOMAIN s, R)
<1>1. AreOfKind(s, list, "artifact")
  BY OfKindIs DEF ListOK
<1>2. a = [k \in DOMAIN order |-> s[order[k]]]
  BY DEF Artifacts, StableSort
<1> HIDE DEF s, a
<1>3. PICK n \in Nat :
        /\ DOMAIN s = 1 .. n
        /\ \A i \in 1 .. n : \E k \in PlacesOf(list, "artifact") : s[i] = list[k]
        /\ \A k \in PlacesOf(list, "artifact") : \E i \in 1 .. n : s[i] = list[k]
  BY <1>1 DEF AreOfKind
<1>4. ASSUME NEW i \in 1 .. n PROVE s[i].time \in Nat /\ s[i].request \in Nat
  <2>1. PICK k \in PlacesOf(list, "artifact") : s[i] = list[k]
    BY <1>3
  <2>2. k \in DOMAIN list
    BY DEF PlacesOf
  <2> QED BY <2>1, <2>2, EventType
<1>5. Orders(R, 1 .. n)
  <2> DEFINE f == [i \in 1 .. n |-> s[i].time]
             g == [i \in 1 .. n |-> s[i].request]
  <2>1. f \in [1 .. n -> Nat] /\ g \in [1 .. n -> Nat]
    BY <1>4
  <2>2. ASSUME NEW i \in 1 .. n, NEW j \in 1 .. n
        PROVE  <<i, j>> \in R <=> Earlier(f, g, i, j)
    <3>1. <<i, j>> \in R <=> before(i, j)
      BY <1>3
    <3>2. f[i] = s[i].time /\ f[j] = s[j].time /\ g[i] = s[i].request /\ g[j] = s[j].request
      OBVIOUS
    <3>3. f[i] \in Nat /\ f[j] \in Nat /\ g[i] \in Nat /\ g[j] \in Nat
      BY <2>1
    <3>4. /\ IsBefore(s[i], s[j]) <=> f[i] < f[j] \/ (f[i] = f[j] /\ g[i] < g[j])
          /\ IsBefore(s[j], s[i]) <=> f[j] < f[i] \/ (f[j] = f[i] /\ g[j] < g[i])
      BY <3>2 DEF IsBefore
    <3> HIDE DEF f, g, R
    <3> QED BY <3>1, <3>3, <3>4 DEF Earlier
  <2> HIDE DEF f, g, R
  <2> QED BY <2>1, <2>2, KeysOrder
<1>6. order = Sorted(DOMAIN s, R)
  OBVIOUS
<1> HIDE DEF R, order
<1>7. DOMAIN a = DOMAIN order /\ \A k \in DOMAIN order : a[k] = s[order[k]]
  BY <1>2
<1>8. DOMAIN s = 1 .. n
  BY <1>3
<1>9. Rearranges(a, s, n, R)
  BY <1>5, <1>6, <1>7, <1>8, Rearranged
<1>10. DOMAIN a = 1 .. n
  BY <1>9 DEF Rearranges
<1>11. PICK h \in [1 .. n -> 1 .. n] : Lists(h, 1 .. n, R) /\ \A k \in 1 .. n : a[k] = s[h[k]]
  BY <1>9 DEF Rearranges
<1>12. ASSUME NEW i \in 1 .. n PROVE \E k \in PlacesOf(list, "artifact") : a[i] = list[k]
  <2>1. a[i] = s[h[i]] /\ h[i] \in 1 .. n
    BY <1>11
  <2>2. \E k \in PlacesOf(list, "artifact") : s[h[i]] = list[k]
    BY <1>3, <2>1
  <2> QED BY <2>1, <2>2
<1>13. ASSUME NEW k \in PlacesOf(list, "artifact") PROVE \E i \in 1 .. n : a[i] = list[k]
  <2>1. PICK j \in 1 .. n : s[j] = list[k]
    BY <1>3
  <2>2. PICK i \in 1 .. Len(h) : h[i] = j
    BY <1>11 DEF Lists
  <2>3. i \in 1 .. n
    BY <1>11, <2>2 DEF Lists
  <2> QED BY <1>11, <2>1, <2>2, <2>3
<1> QED BY <1>10, <1>12, <1>13 DEF AreOfKind, a

-----------------------------------------------------------------------------
(***************************************************************************)
(* The rows of the accounting, of which each request has one.              *)
(***************************************************************************)
\* The places of the events that give their request a row.
Accounted(list) == PlacesOf(list, "artifact") \cup PlacesOf(list, "usage")

\* Each request that has an artifact or usage in the list has one row, and no other has.
RowsTile(rows, list) ==
  /\ IsList(rows)
  /\ \A k \in 1 .. Len(rows) : rows[k].request \in Nat
  /\ \A j, k \in 1 .. Len(rows) : rows[j].request = rows[k].request => j = k
  /\ \A e \in Accounted(list) : \E k \in 1 .. Len(rows) : rows[k].request = list[e].request
  /\ \A k \in 1 .. Len(rows) : \E e \in Accounted(list) : rows[k].request = list[e].request

\* The requests of the accounting are those of its events.
LEMMA RequestsAre ==
  ASSUME NEW list, ListOK(list), NEW a, AreOfKind(a, list, "artifact")
  PROVE  /\ Requests(a, list) = {list[e].request : e \in Accounted(list)}
         /\ Requests(a, list) \in SUBSET Nat /\ IsFiniteSet(Requests(a, list))
<1> DEFINE Q == {list[e].request : e \in Accounted(list)}
<1>1. PICK n \in Nat :
        /\ DOMAIN a = 1 .. n
        /\ \A i \in 1 .. n : \E k \in PlacesOf(list, "artifact") : a[i] = list[k]
        /\ \A k \in PlacesOf(list, "artifact") : \E i \in 1 .. n : a[i] = list[k]
  BY DEF AreOfKind
<1>2. Requests(a, list) = {a[i].request : i \in 1 .. n} \cup {list[k].request : k \in PlacesOf(list, "usage")}
  BY <1>1 DEF Requests, UsedRequests
<1>3. {a[i].request : i \in 1 .. n} = {list[k].request : k \in PlacesOf(list, "artifact")}
  <2>1. ASSUME NEW i \in 1 .. n PROVE \E k \in PlacesOf(list, "artifact") : a[i].request = list[k].request
    BY <1>1
  <2>2. ASSUME NEW k \in PlacesOf(list, "artifact") PROVE \E i \in 1 .. n : a[i].request = list[k].request
    BY <1>1
  <2> QED BY <2>1, <2>2
<1>4. Requests(a, list) = Q
  BY <1>2, <1>3 DEF Accounted
<1>5. IsList(list) /\ Len(list) \in Nat /\ DOMAIN list = 1 .. Len(list)
  BY ListIs DEF ListOK
<1>6. Accounted(list) \in SUBSET (1 .. Len(list))
  BY <1>5, PlacesOfIs DEF Accounted
<1>7. IsFiniteSet(Accounted(list))
  BY <1>5, <1>6, PlacesAreFinite
<1>8. Q \in SUBSET Nat
  BY <1>5, <1>6, EventType
<1>9. IsFiniteSet(Q)
  <2> DEFINE f == [e \in Accounted(list) |-> list[e].request]
  <2>1. f \in [Accounted(list) -> Q]
    OBVIOUS
  <2>2. ASSUME NEW q \in Q PROVE \E e \in Accounted(list) : f[e] = q
    OBVIOUS
  <2>3. f \in Surjection(Accounted(list), Q)
    BY <2>1, <2>2 DEF Surjection
  <2> QED BY <1>7, <2>3, FS_Surjection
<1> QED BY <1>4, <1>8, <1>9

\* A request is at a time that is a number.
LEMMA TimeIsNumber ==
  ASSUME NEW list, ListOK(list), NEW a, AreOfKind(a, list, "artifact"), NEW r \in Requests(a, list)
  PROVE  TimeOf(a, list, r) \in Nat
<1> DEFINE own == InRequest(a, r)
           used == PlacesIn(list, "usage", r)
<1>1. PICK n \in Nat :
        /\ DOMAIN a = 1 .. n
        /\ \A i \in 1 .. n : \E k \in PlacesOf(list, "artifact") : a[i] = list[k]
  BY DEF AreOfKind
<1>2. IsList(list) /\ Len(list) \in Nat /\ DOMAIN list = 1 .. Len(list)
  BY ListIs DEF ListOK
<1>3. CASE own # {}
  <2>1. own \in SUBSET (1 .. n)
    BY <1>1 DEF InRequest
  <2>2. own \in SUBSET Nat /\ IsFiniteSet(own)
    BY <2>1, PlacesAreFinite
  <2> HIDE DEF own
  <2>3. Min(own) \in own
    BY <1>3, <2>2, ExtremesAre
  <2>4. PICK k \in PlacesOf(list, "artifact") : a[Min(own)] = list[k]
    BY <1>1, <2>1, <2>3
  <2>5. k \in DOMAIN list
    BY DEF PlacesOf
  <2>6. a[Min(own)].time \in Nat
    BY <2>4, <2>5, EventType
  <2> QED BY <1>3, <2>6 DEF TimeOf, own
<1>4. CASE own = {}
  <2>1. used \in SUBSET (1 .. Len(list))
    BY <1>2, PlacesOfIs DEF PlacesIn
  <2>2. used \in SUBSET Nat /\ IsFiniteSet(used)
    BY <1>2, <2>1, PlacesAreFinite
  <2>3. used # {}
    <3>1. r \in UsedRequests(list)
      <4>1. r \in {a[i].request : i \in DOMAIN a} \cup UsedRequests(list)
        BY DEF Requests
      <4>2. r \notin {a[i].request : i \in DOMAIN a}
        BY <1>4 DEF InRequest
      <4> QED BY <4>1, <4>2
    <3> QED BY <3>1 DEF UsedRequests, PlacesIn
  <2> HIDE DEF used
  <2>4. Max(used) \in used
    BY <2>2, <2>3, ExtremesAre
  <2>5. Max(used) \in DOMAIN list
    BY <1>2, <2>1, <2>4
  <2>6. list[Max(used)].time \in Nat
    BY <2>5, EventType
  <2>7. UsageOf(list, r) = list[Max(used)]
    BY <2>3 DEF UsageOf, used
  <2> QED BY <1>4, <2>6, <2>7 DEF TimeOf
<1> QED BY <1>3, <1>4

\* What the accounting is a list of.
LEMMA RequestOrderIs ==
  ASSUME NEW list, ListOK(list), NEW a, AreOfKind(a, list, "artifact")
  PROVE  LET s == RequestOrder(a, list)
         IN  /\ IsList(s)
             /\ \A k \in 1 .. Len(s) : s[k] \in Requests(a, list)
             /\ \A r \in Requests(a, list) : \E k \in 1 .. Len(s) : s[k] = r
             /\ \A j, k \in 1 .. Len(s) : s[j] = s[k] => j = k
<1> DEFINE Q == Requests(a, list)
           time == [r \in Q |-> TimeOf(a, list, r)]
           before(r, s) == time[r] < time[s] \/ (time[r] = time[s] /\ r < s)
           R == {p \in Q \X Q : before(p[1], p[2])}
           s == RequestOrder(a, list)
<1>1. Q \in SUBSET Nat /\ IsFiniteSet(Q)
  BY RequestsAre
<1>2. \A r \in Q : time[r] \in Nat
  BY TimeIsNumber
<1>3. s = Sorted(Q, R)
  BY DEF RequestOrder
<1>4. \A r, t \in Q : <<r, t>> \in R <=> before(r, t)
  OBVIOUS
<1> HIDE DEF Q, R, time, s
<1>5. Orders(R, Q)
  <2>1. \A x \in Q : x \in Nat /\ time[x] \in Nat
    BY <1>1, <1>2
  <2>2. \A x \in Q : <<x, x>> \notin R
    BY <1>4, <2>1
  <2>3. ASSUME NEW x \in Q, NEW y \in Q, x # y PROVE <<x, y>> \in R \/ <<y, x>> \in R
    <3>1. x \in Nat /\ time[x] \in Nat /\ y \in Nat /\ time[y] \in Nat
      BY <2>1
    <3>2. before(x, y) \/ before(y, x)
      BY <2>3, <3>1
    <3> QED BY <1>4, <3>2
  <2>4. ASSUME NEW x \in Q, NEW y \in Q, NEW z \in Q, <<x, y>> \in R, <<y, z>> \in R
        PROVE  <<x, z>> \in R
    <3>1. /\ x \in Nat /\ time[x] \in Nat /\ y \in Nat /\ time[y] \in Nat
          /\ z \in Nat /\ time[z] \in Nat
      BY <2>1
    <3>2. before(x, y) /\ before(y, z)
      BY <1>4, <2>4
    <3>3. before(x, z)
      BY <3>1, <3>2
    <3> QED BY <1>4, <3>3
  <2> QED BY <2>2, <2>3, <2>4 DEF Orders
<1>6. Lists(s, Q, R)
  BY <1>1, <1>3, <1>5, SortedIs
<1>7. IsList(s)
  BY <1>6, SeqIsList DEF Lists
<1>8. ASSUME NEW j \in 1 .. Len(s), NEW k \in 1 .. Len(s), s[j] = s[k] PROVE j = k
  BY <1>5, <1>6, <1>8, ListedOnce
<1>9. /\ \A k \in 1 .. Len(s) : s[k] \in Q
      /\ \A r \in Q : \E k \in 1 .. Len(s) : s[k] = r
  BY <1>6 DEF Lists
<1> QED BY <1>7, <1>8, <1>9 DEF s, Q

\* The row of a request names it.
LEMMA RowRequest ==
  ASSUME NEW a, NEW r, NEW k, NEW time, NEW usage, NEW inclusions, NEW attributed
  PROVE  RowOf(a, r, k, time, usage, inclusions, attributed).request = r
BY DEF RowOf

\* request-accounting.ts: each request that has an artifact or a usage has one row.
LEMMA RowsAre ==
  ASSUME NEW list, ListOK(list)
  PROVE  RowsTile(Accounting(Artifacts(list), list), list)
<1> DEFINE a == Artifacts(list)
           s == RequestOrder(a, list)
           rows == Accounting(a, list)
<1>1. AreOfKind(a, list, "artifact")
  BY ArtifactsAre
<1> HIDE DEF a
<1>2. /\ IsList(s)
      /\ \A k \in 1 .. Len(s) : s[k] \in Requests(a, list)
      /\ \A r \in Requests(a, list) : \E k \in 1 .. Len(s) : s[k] = r
      /\ \A j, k \in 1 .. Len(s) : s[j] = s[k] => j = k
  BY <1>1, RequestOrderIs
<1>3. Requests(a, list) = {list[e].request : e \in Accounted(list)} /\ Requests(a, list) \in SUBSET Nat
  BY <1>1, RequestsAre
<1>4. rows = [k \in DOMAIN s |-> Row(a, list, s[k], k, UsageOf(list, s[k]))]
  BY DEF Accounting, AccountingIn
<1> HIDE DEF s, rows
<1>5. Len(s) \in Nat /\ DOMAIN s = 1 .. Len(s)
  BY <1>2, ListIs
<1>6. ASSUME NEW k \in 1 .. Len(s) PROVE rows[k].request = s[k]
  <2>1. rows[k] = Row(a, list, s[k], k, UsageOf(list, s[k]))
    BY <1>4, <1>5
  <2>2. Row(a, list, s[k], k, UsageOf(list, s[k])).request = s[k]
    BY RowRequest DEF Row
  <2> QED BY <2>1, <2>2
<1>7. rows = [k \in 1 .. Len(s) |-> rows[k]]
  BY <1>4, <1>5
<1>8. IsList(rows) /\ Len(rows) = Len(s)
  BY <1>5, <1>7, FunctionIsList
<1>9. \A k \in 1 .. Len(rows) : rows[k].request \in Nat
  BY <1>2, <1>3, <1>6, <1>8
<1>10. \A j, k \in 1 .. Len(rows) : rows[j].request = rows[k].request => j = k
  BY <1>2, <1>6, <1>8
<1>11. ASSUME NEW e \in Accounted(list)
       PROVE  \E k \in 1 .. Len(rows) : rows[k].request = list[e].request
  <2>1. list[e].request \in Requests(a, list)
    BY <1>3
  <2>2. PICK k \in 1 .. Len(s) : s[k] = list[e].request
    BY <1>2, <2>1
  <2> QED BY <1>6, <1>8, <2>2
<1>12. ASSUME NEW k \in 1 .. Len(rows)
       PROVE  \E e \in Accounted(list) : rows[k].request = list[e].request
  <2>1. s[k] \in Requests(a, list) /\ rows[k].request = s[k]
    BY <1>2, <1>6, <1>8
  <2> QED BY <1>3, <2>1
<1>13. RowsTile(rows, list)
  BY <1>8, <1>9, <1>10, <1>11, <1>12 DEF RowsTile
<1> QED BY <1>13 DEF rows, a

-----------------------------------------------------------------------------
(***************************************************************************)
(* The turns, which divide the rows by their keys.                         *)
(***************************************************************************)
\* Each row is in the turn of its key, once, and in no other.
TurnsTile(turns, rows, key) ==
  /\ \A n \in DOMAIN turns : \A m \in DOMAIN turns[n].requests : \E k \in 1 .. Len(rows) :
       turns[n].requests[m].request = rows[k].request /\ key[k] = turns[n].turn
  /\ \A k \in 1 .. Len(rows) : \E n \in DOMAIN turns :
       /\ turns[n].turn = key[k]
       /\ \E m \in DOMAIN turns[n].requests : turns[n].requests[m].request = rows[k].request
  /\ \A m, n \in DOMAIN turns : turns[m].turn = turns[n].turn => m = n
  /\ \A n \in DOMAIN turns : \A i, j \in DOMAIN turns[n].requests :
       turns[n].requests[i].request = turns[n].requests[j].request => i = j

\* A group holds the requests of its rows, in their order.
LEMMA TurnGroupIs ==
  ASSUME NEW key, NEW rows, NEW K, NEW readable, NEW g, g = TurnGroup(key, rows, K, readable)
  PROVE  /\ g.turn = key
         /\ DOMAIN g.requests = DOMAIN Ascending(K)
         /\ \A m \in DOMAIN Ascending(K) : g.requests[m].request = rows[Ascending(K)[m]].request
<1>1. ASSUME NEW title
      PROVE  LET h == TurnGroupWith(title, key, rows, K, readable)
             IN  /\ h.turn = key
                 /\ DOMAIN h.requests = DOMAIN Ascending(K)
                 /\ \A m \in DOMAIN Ascending(K) : h.requests[m].request = rows[Ascending(K)[m]].request
  <2> DEFINE order == Ascending(K)
             h == TurnGroupWith(title, key, rows, K, readable)
             f == [n \in DOMAIN order |->
                     [request |-> rows[order[n]].request,
                      title   |-> RequestTitle(rows, order[n], title.text, readable)]]
  <2>1. h.turn = key /\ h.requests = f
    BY DEF TurnGroupWith
  <2>2. DOMAIN f = DOMAIN order /\ \A m \in DOMAIN order : f[m].request = rows[order[m]].request
    OBVIOUS
  <2> HIDE DEF f, h
  <2>3. /\ h.turn = key
        /\ DOMAIN h.requests = DOMAIN Ascending(K)
        /\ \A m \in DOMAIN Ascending(K) : h.requests[m].request = rows[Ascending(K)[m]].request
    BY <2>1, <2>2
  <2> QED BY <2>3 DEF h
<1>2. g = TurnGroupWith(TurnTitle(key, rows, K, readable), key, rows, K, readable)
  BY DEF TurnGroup
<1> QED BY <1>1, <1>2

\* Rows that are grouped by a key are in one group each, with those of their key.
LEMMA GroupsAre ==
  ASSUME NEW rows, IsList(rows), NEW key, NEW readable,
         \A j, k \in 1 .. Len(rows) : rows[j].request = rows[k].request => j = k
  PROVE  TurnsTile(GroupByTurn(key, rows, readable), rows, key)
<1> DEFINE N == Len(rows)
           S == {k \in DOMAIN rows : \A j \in 1 .. (k - 1) : key[j] # key[k]}
           starts == Ascending(S)
           K(n) == {k \in DOMAIN rows : key[k] = key[starts[n]]}
           turns == GroupByTurn(key, rows, readable)
<1>1. N \in Nat /\ DOMAIN rows = 1 .. N
  BY ListIs
<1>2. S \in SUBSET (1 .. N)
  BY <1>1
<1>3. Climbs(starts, S)
  BY <1>1, <1>2, PlacesAreFinite, AscendingIs
<1>4. turns = [n \in DOMAIN starts |-> TurnGroup(key[starts[n]], rows, K(n), readable)]
  BY DEF GroupByTurn
<1>5. ASSUME NEW k \in 1 .. N
      PROVE  k \in S <=> \A j \in 1 .. (k - 1) : key[j] # key[k]
  BY <1>1
<1>6. \A n : K(n) = {k \in 1 .. N : key[k] = key[starts[n]]}
  BY <1>1
<1> HIDE DEF S, starts, turns, K
<1>7. DOMAIN turns = DOMAIN starts /\ DOMAIN starts = 1 .. Len(starts) /\ Len(starts) \in Nat
  BY <1>3, <1>4 DEF Climbs
<1>8. ASSUME NEW n \in DOMAIN turns
      PROVE  /\ starts[n] \in S /\ starts[n] \in 1 .. N
             /\ Climbs(Ascending(K(n)), K(n))
             /\ turns[n].turn = key[starts[n]]
             /\ DOMAIN turns[n].requests = DOMAIN Ascending(K(n))
             /\ \A m \in DOMAIN Ascending(K(n)) :
                  turns[n].requests[m].request = rows[Ascending(K(n))[m]].request
  <2>1. starts[n] \in S /\ starts[n] \in 1 .. N
    BY <1>2, <1>3, <1>7 DEF Climbs
  <2>2. K(n) \in SUBSET (1 .. N)
    BY <1>6
  <2>3. Climbs(Ascending(K(n)), K(n))
    BY <1>1, <2>2, PlacesAreFinite, AscendingIs
  <2>4. turns[n] = TurnGroup(key[starts[n]], rows, K(n), readable)
    BY <1>4, <1>7
  <2> QED BY <2>1, <2>3, <2>4, TurnGroupIs
<1>9. ASSUME NEW n \in DOMAIN turns, NEW m \in DOMAIN turns[n].requests
      PROVE  \E k \in 1 .. N :
               turns[n].requests[m].request = rows[k].request /\ key[k] = turns[n].turn
  <2> DEFINE k == Ascending(K(n))[m]
  <2>1. m \in 1 .. Len(Ascending(K(n))) /\ turns[n].requests[m].request = rows[k].request
    BY <1>8 DEF Climbs
  <2>2. k \in K(n)
    BY <1>8, <2>1 DEF Climbs
  <2> HIDE DEF k
  <2>3. k \in 1 .. N /\ key[k] = key[starts[n]]
    BY <1>6, <2>2
  <2> QED BY <1>8, <2>1, <2>3
<1>10. ASSUME NEW k \in 1 .. N
       PROVE  \E n \in DOMAIN turns :
                /\ turns[n].turn = key[k]
                /\ \E m \in DOMAIN turns[n].requests : turns[n].requests[m].request = rows[k].request
  <2> DEFINE F == {j \in 1 .. N : key[j] = key[k]}
             first == Min(F)
  <2>1. F \in SUBSET Nat /\ IsFiniteSet(F) /\ F # {}
    BY <1>1, PlacesAreFinite
  <2>2. first \in F /\ \A j \in F : first <= j
    BY <2>1, ExtremesAre
  <2> HIDE DEF first
  <2>3. first \in 1 .. N /\ key[first] = key[k] /\ first \in Nat
    BY <2>2
  <2>4. ASSUME NEW j \in 1 .. (first - 1) PROVE key[j] # key[first]
    <3>1. j \in 1 .. N /\ ~(first <= j)
      BY <1>1, <2>3
    <3> QED BY <2>2, <2>3, <3>1
  <2>5. first \in S
    BY <1>5, <2>3, <2>4
  <2>6. PICK n \in 1 .. Len(starts) : starts[n] = first
    BY <1>3, <2>5 DEF Climbs
  <2>7. n \in DOMAIN turns /\ key[starts[n]] = key[k]
    BY <1>7, <2>3, <2>6
  <2>8. k \in K(n)
    BY <1>6, <2>7
  <2>9. PICK m \in 1 .. Len(Ascending(K(n))) : Ascending(K(n))[m] = k
    BY <1>8, <2>7, <2>8 DEF Climbs
  <2>10. m \in DOMAIN Ascending(K(n))
    BY <1>8, <2>7, <2>9 DEF Climbs
  <2> QED BY <1>8, <2>7, <2>9, <2>10
<1>11. ASSUME NEW m \in DOMAIN turns, NEW n \in DOMAIN turns, turns[m].turn = turns[n].turn
       PROVE  m = n
  <2>1. key[starts[m]] = key[starts[n]] /\ starts[m] \in S /\ starts[n] \in S
        /\ starts[m] \in 1 .. N /\ starts[n] \in 1 .. N
    BY <1>8, <1>11
  <2>2. ~(starts[m] < starts[n])
    <3>1. starts[m] < starts[n] => starts[m] \in 1 .. (starts[n] - 1)
      BY <2>1
    <3> QED BY <1>5, <2>1, <3>1
  <2>3. ~(starts[n] < starts[m])
    <3>1. starts[n] < starts[m] => starts[n] \in 1 .. (starts[m] - 1)
      BY <2>1
    <3> QED BY <1>5, <2>1, <3>1
  <2>4. starts[m] = starts[n]
    BY <2>1, <2>2, <2>3
  <2> QED BY <1>3, <1>7, <2>4 DEF Climbs
<1>12. ASSUME NEW n \in DOMAIN turns, NEW i \in DOMAIN turns[n].requests,
              NEW j \in DOMAIN turns[n].requests,
              turns[n].requests[i].request = turns[n].requests[j].request
       PROVE  i = j
  <2> DEFINE s == Ascending(K(n))
  <2>1. Climbs(s, K(n)) /\ i \in DOMAIN s /\ j \in DOMAIN s /\ rows[s[i]].request = rows[s[j]].request
    BY <1>8, <1>12
  <2> HIDE DEF s
  <2>2. i \in 1 .. Len(s) /\ j \in 1 .. Len(s) /\ s[i] \in K(n) /\ s[j] \in K(n)
    BY <2>1 DEF Climbs
  <2>3. s[i] \in 1 .. N /\ s[j] \in 1 .. N
    BY <1>6, <2>2
  <2>4. s[i] = s[j]
    BY <2>1, <2>3
  <2> QED BY <2>1, <2>2, <2>4 DEF Climbs
<1>13. TurnsTile(turns, rows, key)
  BY <1>9, <1>10, <1>11, <1>12 DEF TurnsTile
<1> QED BY <1>13 DEF turns

\* The key of a request: what the earliest of its turn events says.
KeyOf(list, r) == TurnKey(TurnFactOf(list, r))

\* turn-groups.ts: each row is in the group of the turn that its request has first.
LEMMA TurnsAre ==
  ASSUME NEW list, NEW rows, RowsTile(rows, list), NEW readable
  PROVE  TurnsTile(Turns(list, rows, readable), rows,
                   [k \in 1 .. Len(rows) |-> KeyOf(list, rows[k].request)])
<1> DEFINE key == [k \in 1 .. Len(rows) |-> KeyOf(list, rows[k].request)]
<1>1. IsList(rows) /\ DOMAIN rows = 1 .. Len(rows)
  BY ListIs DEF RowsTile
<1>2. Turns(list, rows, readable) = GroupByTurn(key, rows, readable)
  BY <1>1 DEF Turns, KeyOf
<1>3. \A j, k \in 1 .. Len(rows) : rows[j].request = rows[k].request => j = k
  BY DEF RowsTile
<1> HIDE DEF key
<1>4. TurnsTile(GroupByTurn(key, rows, readable), rows, key)
  BY <1>1, <1>3, GroupsAre
<1> QED BY <1>2, <1>4 DEF key

-----------------------------------------------------------------------------
(***************************************************************************)
(* The turn of a request: the earliest that an event gives it.             *)
(***************************************************************************)
\* The place k holds the earliest turn event of a request.
Earliest(list, r, k) ==
  /\ k \in PlacesIn(list, "turn", r)
  /\ \A j \in PlacesIn(list, "turn", r) \ {k} :
       list[k].time < list[j].time \/ (list[k].time = list[j].time /\ k < j)

\* The places of the turn events of a request.
LEMMA TurnPlaces ==
  ASSUME NEW list, ListOK(list), NEW r
  PROVE  /\ PlacesIn(list, "turn", r) \in SUBSET Nat /\ IsFiniteSet(PlacesIn(list, "turn", r))
         /\ \A k \in PlacesIn(list, "turn", r) :
              /\ k \in DOMAIN list /\ k \in 1 .. Len(list) /\ list[k].time \in Nat
              /\ list[k].kind = "turn" /\ list[k].request = r
         /\ HasTurn(list, r) <=> PlacesIn(list, "turn", r) # {}
<1>1. IsList(list) /\ Len(list) \in Nat /\ DOMAIN list = 1 .. Len(list)
  BY ListIs DEF ListOK
<1>2. PlacesIn(list, "turn", r) \in SUBSET (1 .. Len(list))
  BY <1>1, PlacesOfIs DEF PlacesIn
<1>3. ASSUME NEW k \in PlacesIn(list, "turn", r)
      PROVE  /\ k \in DOMAIN list /\ k \in 1 .. Len(list) /\ list[k].time \in Nat
             /\ list[k].kind = "turn" /\ list[k].request = r
  <2>1. k \in DOMAIN list
    BY <1>1, <1>2
  <2> QED BY <1>1, <2>1, EventType DEF PlacesIn, PlacesOf
<1>4. HasTurn(list, r) <=> PlacesIn(list, "turn", r) # {}
  BY DEF HasTurn, PlacesIn, PlacesOf
<1> QED BY <1>1, <1>2, <1>3, <1>4, PlacesAreFinite

\* A request that has a turn event has an earliest one.
LEMMA EarliestExists ==
  ASSUME NEW list, ListOK(list), NEW r, HasTurn(list, r)
  PROVE  \E k \in PlacesIn(list, "turn", r) : Earliest(list, r, k)
<1> DEFINE P == PlacesIn(list, "turn", r)
           before(j, k) == list[j].time < list[k].time \/ (list[j].time = list[k].time /\ j < k)
           R == {p \in P \X P : before(p[1], p[2])}
           s == Sorted(P, R)
<1>1. P # {} /\ IsFiniteSet(P) /\ \A k \in P : k \in Nat /\ list[k].time \in Nat
  BY TurnPlaces
<1>2. \A j, k \in P : <<j, k>> \in R <=> before(j, k)
  OBVIOUS
<1> HIDE DEF P, R
<1>3. Orders(R, P)
  <2>1. ASSUME NEW x \in P PROVE <<x, x>> \notin R
    BY <1>1, <1>2
  <2>2. ASSUME NEW x \in P, NEW y \in P, x # y PROVE <<x, y>> \in R \/ <<y, x>> \in R
    <3>1. x \in Nat /\ list[x].time \in Nat /\ y \in Nat /\ list[y].time \in Nat
      BY <1>1
    <3>2. before(x, y) \/ before(y, x)
      BY <2>2, <3>1
    <3> QED BY <1>2, <3>2
  <2>3. ASSUME NEW x \in P, NEW y \in P, NEW z \in P, <<x, y>> \in R, <<y, z>> \in R
        PROVE  <<x, z>> \in R
    <3>1. /\ x \in Nat /\ list[x].time \in Nat /\ y \in Nat /\ list[y].time \in Nat
          /\ z \in Nat /\ list[z].time \in Nat
      BY <1>1
    <3>2. before(x, y) /\ before(y, z)
      BY <1>2, <2>3
    <3>3. before(x, z)
      BY <3>1, <3>2
    <3> QED BY <1>2, <3>3
  <2> QED BY <2>1, <2>2, <2>3 DEF Orders
<1>4. Lists(s, P, R)
  BY <1>1, <1>3, SortedIs
<1> HIDE DEF s
<1>5. PICK i \in 1 .. Len(s) : s[i] \in P
  BY <1>1, <1>4 DEF Lists
<1>6. Len(s) \in Nat /\ 1 \in 1 .. Len(s)
  <2>1. Len(s) \in Nat
    BY <1>4 DEF Lists
  <2> QED BY <1>5, <2>1
<1>7. s[1] \in P
  BY <1>4, <1>6 DEF Lists
<1>8. ASSUME NEW j \in P \ {s[1]} PROVE before(s[1], j)
  <2>1. PICK k \in 1 .. Len(s) : s[k] = j
    BY <1>4 DEF Lists
  <2>2. k # 1
    BY <1>8, <2>1
  <2>3. 1 < k
    BY <1>6, <2>1, <2>2
  <2>4. <<s[1], s[k]>> \in R
    BY <1>4, <1>6, <2>3 DEF Lists
  <2> QED BY <1>2, <1>7, <2>1, <2>4
<1>9. Earliest(list, r, s[1])
  BY <1>7, <1>8 DEF Earliest, P
<1> QED BY <1>7, <1>9 DEF P

\* The earliest turn event is the fact the analysis goes by.
LEMMA FactIs ==
  ASSUME NEW list, ListOK(list), NEW r, NEW k, Earliest(list, r, k)
  PROVE  TurnFactOf(list, r) = list[k]
<1> DEFINE P == PlacesIn(list, "turn", r)
           first(i) == \A j \in P \ {i} :
                         list[i].time < list[j].time \/ (list[i].time = list[j].time /\ i < j)
           c == CHOOSE i \in P : first(i)
<1>1. k \in P /\ first(k) /\ P # {}
  BY DEF Earliest
<1>2. TurnFactOf(list, r) = list[c]
  BY <1>1 DEF TurnFactOf
<1>3. c \in P /\ first(c)
  BY <1>1
<1>4. k \in Nat /\ list[k].time \in Nat /\ c \in Nat /\ list[c].time \in Nat
  BY <1>1, <1>3, TurnPlaces
<1> HIDE DEF c
<1>5. c = k
  <2> SUFFICES ASSUME c # k PROVE FALSE
    OBVIOUS
  <2>1. list[k].time < list[c].time \/ (list[k].time = list[c].time /\ k < c)
    BY <1>1, <1>3
  <2>2. list[c].time < list[k].time \/ (list[c].time = list[k].time /\ c < k)
    BY <1>1, <1>3
  <2> HIDE DEF P
  <2> QED BY <1>4, <2>1, <2>2
<1> QED BY <1>2, <1>5

\* What a turn event says.
LEMMA TurnEventIs ==
  ASSUME NEW r, NEW t, NEW n
  PROVE  /\ TurnEvent(r, t, n).kind = "turn" /\ TurnEvent(r, t, n).request = r
         /\ TurnEvent(r, t, n).time = n /\ TurnEvent(r, t, n).turn = t
         /\ {"kind", "request", "time"} \subseteq DOMAIN TurnEvent(r, t, n)
         /\ \A m : [TurnEvent(r, t, n) EXCEPT !.time = m] = TurnEvent(r, t, m)
BY DEF TurnEvent

\* What a turn is called by its event.
LEMMA KeyOfTurnEvent ==
  ASSUME NEW r \in Requests_, NEW t \in TurnNames, NEW n \in 0 .. MaxClock
  PROVE  TurnKey(TurnEvent(r, t, n)) = IF t = None THEN "missing" ELSE t
<1> DEFINE e == TurnEvent(r, t, n)
<1>1. e # None
  BY RunAssumption DEF TurnNames
<1>2. e.turn = t
  BY TurnEventIs
<1>3. e.source = IF t = None THEN "missing" ELSE IF t = "malformed" THEN "malformed" ELSE "direct"
  <2>1. None # "malformed"
    BY RunAssumption
  <2>2. CASE t = None
    BY <2>1, <2>2 DEF TurnEvent
  <2>3. CASE t = "malformed"
    BY <2>1, <2>3 DEF TurnEvent
  <2>4. CASE t \notin {None, "malformed"}
    BY <2>4 DEF TurnEvent
  <2> QED BY <2>1, <2>2, <2>3, <2>4
<1> HIDE DEF e
<1>4. TurnKey(e) = IF e.source = "direct" THEN e.turn ELSE e.source
  BY <1>1 DEF TurnKey
<1>5. TurnKey(e) = IF t = None THEN "missing" ELSE t
  BY <1>2, <1>3, <1>4
<1> QED BY <1>5 DEF e

\* The fact of a request is a turn event of its own.
LEMMA FactIsTurn ==
  ASSUME NEW list, ListOK(list), NEW r, HasTurn(list, r)
  PROVE  LET f == TurnFactOf(list, r)
         IN  /\ r \in Requests_ /\ f.turn \in TurnNames
             /\ TurnKey(f) = IF f.turn = None THEN "missing" ELSE f.turn
<1>1. PICK k \in PlacesIn(list, "turn", r) : Earliest(list, r, k)
  BY EarliestExists
<1>2. TurnFactOf(list, r) = list[k]
  BY <1>1, FactIs
<1>3. k \in DOMAIN list /\ list[k].kind = "turn" /\ list[k].request = r
  BY TurnPlaces
<1>4. PICK q \in Requests_, t \in TurnNames : list[k] = TurnEvent(q, t, list[k].time)
  BY <1>3 DEF ListOK, EventOK
<1>5. list[k].time \in 0 .. MaxClock
  BY <1>3, EventType
<1>6. list[k].turn = t /\ list[k].request = q
  BY <1>4, TurnEventIs
<1>7. TurnKey(list[k]) = IF t = None THEN "missing" ELSE t
  BY <1>4, <1>5, KeyOfTurnEvent
<1> QED BY <1>2, <1>3, <1>6, <1>7

\* Appending to a list of events.
LEMMA AppendIs ==
  ASSUME NEW list, ListOK(list), NEW e, EventOK(e)
  PROVE  LET more == Append(list, e)
         IN  /\ ListOK(more) /\ Len(more) = Len(list) + 1 /\ DOMAIN more = 1 .. (Len(list) + 1)
             /\ more[Len(list) + 1] = e /\ \A k \in 1 .. Len(list) : more[k] = list[k]
<1> DEFINE more == Append(list, e)
           S == ToSet(list) \cup {e}
<1>1. Len(list) \in Nat /\ DOMAIN list = 1 .. Len(list) /\ list \in Seq(ToSet(list))
  BY ListIs DEF ListOK, IsList
<1>2. list \in Seq(S)
  <2>1. list \in [1 .. Len(list) -> ToSet(list)]
    BY <1>1, LenProperties
  <2>2. list \in [1 .. Len(list) -> S]
    BY <2>1
  <2> QED BY <1>1, <2>2, SeqDef
<1>3. /\ more \in Seq(S) /\ Len(more) = Len(list) + 1
      /\ more[Len(list) + 1] = e /\ \A k \in 1 .. Len(list) : more[k] = list[k]
  BY <1>2, AppendProperties
<1>4. DOMAIN more = 1 .. (Len(list) + 1)
  BY <1>3, LenProperties
<1>5. IsList(more)
  BY <1>3, SeqIsList
<1> HIDE DEF more
<1>6. ASSUME NEW k \in DOMAIN more PROVE EventOK(more[k])
  <2>1. CASE k = Len(list) + 1
    BY <1>3, <2>1
  <2>2. CASE k \in 1 .. Len(list)
    BY <1>1, <1>3, <2>2 DEF ListOK
  <2> QED BY <1>1, <1>4, <2>1, <2>2
<1> QED BY <1>3, <1>4, <1>5, <1>6 DEF ListOK, more

\* An event that is appended adds its own place, if it is the turn of the request.
LEMMA PlacesAfterAppend ==
  ASSUME NEW list, ListOK(list), NEW e, EventOK(e), NEW r
  PROVE  PlacesIn(Append(list, e), "turn", r)
         = PlacesIn(list, "turn", r)
           \cup (IF e.kind = "turn" /\ e.request = r THEN {Len(list) + 1} ELSE {})
<1> DEFINE more == Append(list, e)
<1>1. /\ DOMAIN more = 1 .. (Len(list) + 1) /\ more[Len(list) + 1] = e
      /\ \A k \in 1 .. Len(list) : more[k] = list[k]
  BY AppendIs
<1>2. Len(list) \in Nat /\ DOMAIN list = 1 .. Len(list)
  BY ListIs DEF ListOK
<1> HIDE DEF more
<1>3. 1 .. (Len(list) + 1) = (1 .. Len(list)) \cup {Len(list) + 1}
  BY <1>2
<1>4. PlacesIn(more, "turn", r) = {k \in DOMAIN more : more[k].kind = "turn" /\ more[k].request = r}
  BY DEF PlacesIn, PlacesOf
<1>5. PlacesIn(list, "turn", r) = {k \in DOMAIN list : list[k].kind = "turn" /\ list[k].request = r}
  BY DEF PlacesIn, PlacesOf
<1>6. PlacesIn(more, "turn", r)
      = PlacesIn(list, "turn", r)
        \cup (IF e.kind = "turn" /\ e.request = r THEN {Len(list) + 1} ELSE {})
  BY <1>1, <1>2, <1>3, <1>4, <1>5
<1> QED BY <1>6 DEF more

\* A later event leaves the turn of a request as it is.
LEMMA FactStays ==
  ASSUME NEW list, ListOK(list), NEW e, EventOK(e), NEW r, HasTurn(list, r),
         \A k \in DOMAIN list : list[k].time <= e.time
  PROVE  HasTurn(Append(list, e), r) /\ TurnFactOf(Append(list, e), r) = TurnFactOf(list, r)
<1> DEFINE more == Append(list, e)
           new == Len(list) + 1
<1>1. /\ ListOK(more) /\ more[new] = e /\ \A k \in 1 .. Len(list) : more[k] = list[k]
  BY AppendIs
<1>2. PlacesIn(more, "turn", r) \in SUBSET (PlacesIn(list, "turn", r) \cup {new})
      /\ PlacesIn(list, "turn", r) \in SUBSET PlacesIn(more, "turn", r)
  BY PlacesAfterAppend
<1>3. PICK k \in PlacesIn(list, "turn", r) : Earliest(list, r, k)
  BY EarliestExists
<1>4. TurnFactOf(list, r) = list[k]
  BY <1>3, FactIs
<1>5. Len(list) \in Nat /\ DOMAIN list = 1 .. Len(list)
  BY ListIs DEF ListOK
<1>6. ASSUME NEW j \in PlacesIn(list, "turn", r)
      PROVE  j \in 1 .. Len(list) /\ more[j] = list[j] /\ list[j].time \in Nat
  BY <1>1, TurnPlaces
<1>7. e.time \in Nat
  BY RunAssumption DEF EventOK
<1> HIDE DEF more, new
<1>8. ASSUME NEW j \in PlacesIn(more, "turn", r) \ {k}
      PROVE  more[k].time < more[j].time \/ (more[k].time = more[j].time /\ k < j)
  <2>1. CASE j \in PlacesIn(list, "turn", r)
    <3>1. list[k].time < list[j].time \/ (list[k].time = list[j].time /\ k < j)
      BY <1>3, <1>8, <2>1 DEF Earliest
    <3> QED BY <1>6, <2>1, <3>1
  <2>2. CASE j = new
    <3>1. k < new /\ list[k].time <= e.time /\ list[k].time \in Nat
      BY <1>5, <1>6 DEF new
    <3>2. more[k] = list[k] /\ more[j] = e
      BY <1>1, <1>6, <2>2
    <3> QED BY <1>7, <2>2, <3>1, <3>2
  <2> QED BY <1>2, <1>8, <2>1, <2>2
<1>9. k \in PlacesIn(more, "turn", r)
  BY <1>2
<1>10. Earliest(more, r, k)
  BY <1>8, <1>9 DEF Earliest
<1>11. TurnFactOf(more, r) = more[k] /\ more[k] = list[k]
  BY <1>1, <1>6, <1>10, FactIs
<1>12. HasTurn(more, r)
  BY <1>1, <1>9, TurnPlaces
<1> QED BY <1>4, <1>11, <1>12 DEF more

\* The first turn event of a request is its fact.
LEMMA FactBegins ==
  ASSUME NEW list, ListOK(list), NEW e, EventOK(e), NEW r, ~HasTurn(list, r)
  PROVE  IF e.kind = "turn" /\ e.request = r
         THEN HasTurn(Append(list, e), r) /\ TurnFactOf(Append(list, e), r) = e
         ELSE ~HasTurn(Append(list, e), r)
<1> DEFINE more == Append(list, e)
           new == Len(list) + 1
<1>1. ListOK(more) /\ more[new] = e
  BY AppendIs
<1>2. PlacesIn(list, "turn", r) = {}
  BY TurnPlaces
<1>3. PlacesIn(more, "turn", r) = IF e.kind = "turn" /\ e.request = r THEN {new} ELSE {}
  BY <1>2, PlacesAfterAppend
<1> HIDE DEF more, new
<1>4. HasTurn(more, r) <=> PlacesIn(more, "turn", r) # {}
  BY <1>1, TurnPlaces
<1>5. CASE e.kind = "turn" /\ e.request = r
  <2>1. PlacesIn(more, "turn", r) = {new}
    BY <1>3, <1>5
  <2>2. Earliest(more, r, new)
    BY <2>1 DEF Earliest
  <2>3. TurnFactOf(more, r) = e
    BY <1>1, <2>2, FactIs
  <2> QED BY <1>4, <1>5, <2>1, <2>3 DEF more
<1>6. CASE ~(e.kind = "turn" /\ e.request = r)
  <2>1. PlacesIn(more, "turn", r) = {}
    BY <1>3, <1>6
  <2> QED BY <1>4, <1>6, <2>1 DEF more
<1> QED BY <1>5, <1>6

-----------------------------------------------------------------------------
(***************************************************************************)
(* The tasks, which cut the rows into stretches.                           *)
(***************************************************************************)
\* The requests of the rows from one to another.
Stretch(rows, from, to) == [m \in 1 .. (to - from + 1) |-> rows[from + m - 1].request]

\* Where the stretch ends that begins at the n-th start.
EndOf(starts, n, N) == IF n = Len(starts) THEN N ELSE starts[n + 1] - 1

\* The starts cut the rows 1 to N.
Cut(starts, S, N) ==
  /\ N \in Nat /\ S \in SUBSET (1 .. N) /\ Climbs(starts, S)
  /\ N # 0 => 1 \in S

\* The requests of each task are a stretch of the rows, in their order.
TasksCut(tasks, rows, starts) ==
  /\ DOMAIN tasks = 1 .. Len(starts)
  /\ \A n \in 1 .. Len(starts) :
       tasks[n].requests = Stretch(rows, starts[n], EndOf(starts, n, Len(rows)))

\* Where the parts of a cut begin and end.
LEMMA CutIs ==
  ASSUME NEW starts, NEW S, NEW N, Cut(starts, S, N)
  PROVE  /\ Len(starts) \in Nat /\ DOMAIN starts = 1 .. Len(starts)
         /\ \A n \in 1 .. Len(starts) :
              /\ starts[n] \in S /\ starts[n] \in 1 .. N /\ EndOf(starts, n, N) \in 1 .. N
              /\ starts[n] <= EndOf(starts, n, N)
              /\ n < Len(starts) => n + 1 \in 1 .. Len(starts) /\ starts[n + 1] = EndOf(starts, n, N) + 1
         /\ Len(starts) = 0 <=> N = 0
         /\ N # 0 => starts[1] = 1 /\ EndOf(starts, Len(starts), N) = N
<1>1. Len(starts) \in Nat /\ DOMAIN starts = 1 .. Len(starts) /\ N \in Nat
  BY DEF Cut, Climbs
<1>2. ASSUME NEW n \in 1 .. Len(starts) PROVE starts[n] \in S /\ starts[n] \in 1 .. N
  BY DEF Cut, Climbs
<1>3. ASSUME NEW n \in 1 .. Len(starts)
      PROVE  /\ EndOf(starts, n, N) \in 1 .. N
             /\ starts[n] <= EndOf(starts, n, N)
             /\ n < Len(starts) => n + 1 \in 1 .. Len(starts) /\ starts[n + 1] = EndOf(starts, n, N) + 1
  <2>1. CASE n = Len(starts)
    BY <1>1, <1>2, <2>1 DEF EndOf
  <2>2. CASE n # Len(starts)
    <3>1. n + 1 \in 1 .. Len(starts) /\ n < n + 1
      <4>1. n \in Nat /\ 1 <= n /\ n <= Len(starts) /\ Len(starts) \in Nat
        BY <1>1
      <4> QED BY <2>2, <4>1
    <3>2. starts[n] < starts[n + 1] /\ starts[n + 1] \in 1 .. N /\ starts[n] \in 1 .. N
      BY <1>2, <3>1 DEF Cut, Climbs
    <3>3. EndOf(starts, n, N) = starts[n + 1] - 1
      BY <2>2 DEF EndOf
    <3> QED BY <1>1, <3>1, <3>2, <3>3
  <2> QED BY <2>1, <2>2
<1>4. ASSUME N # 0 PROVE Len(starts) # 0 /\ starts[1] = 1 /\ EndOf(starts, Len(starts), N) = N
  <2>1. PICK k \in 1 .. Len(starts) : starts[k] = 1
    BY <1>4 DEF Cut, Climbs
  <2>2. Len(starts) # 0 /\ 1 \in 1 .. Len(starts)
    BY <1>1, <2>1
  <2>3. starts[1] \in 1 .. N
    BY <1>2, <2>2
  <2>4. ~(1 < k)
    <3>1. 1 < k => starts[1] < starts[k]
      BY <2>2 DEF Cut, Climbs
    <3> QED BY <2>1, <2>3, <3>1
  <2>5. k = 1
    BY <1>1, <2>1, <2>4
  <2> QED BY <2>1, <2>2, <2>5 DEF EndOf
<1>5. ASSUME N = 0 PROVE Len(starts) = 0
  <2>1. 1 \notin 1 .. Len(starts)
    BY <1>2, <1>5
  <2> QED BY <1>1, <2>1
<1> QED BY <1>1, <1>2, <1>3, <1>4, <1>5

\* A task that begins at one row does not reach the start of another.
LEMMA StretchesApart ==
  ASSUME NEW starts, NEW S, NEW N, Cut(starts, S, N), NEW m \in 1 .. Len(starts), NEW n \in 1 .. Len(starts),
         starts[m] <= starts[n], starts[n] <= EndOf(starts, m, N)
  PROVE  m = n
<1>1. Len(starts) \in Nat /\ starts[m] \in Nat /\ starts[n] \in Nat
  <2>1. Len(starts) \in Nat /\ starts[m] \in 1 .. N /\ starts[n] \in 1 .. N
    BY CutIs
  <2> QED BY <2>1 DEF Cut
<1>2. ~(n < m)
  BY <1>1 DEF Cut, Climbs
<1>3. ASSUME m < n PROVE FALSE
  <2>1. m < Len(starts)
    BY <1>1, <1>3
  <2>2. m + 1 \in 1 .. Len(starts) /\ starts[m + 1] = EndOf(starts, m, N) + 1
        /\ EndOf(starts, m, N) \in 1 .. N
    BY <2>1, CutIs
  <2>3. starts[n] < starts[m + 1]
    BY <1>1, <2>2
  <2>4. n < m + 1
    BY <2>2, <2>3 DEF Cut, Climbs
  <2> QED BY <1>1, <1>3, <2>4
<1> QED BY <1>1, <1>2, <1>3

\* f holds the concatenations of the first sequences of ss, which FlattenSeq computes.
Concats(ss, f) == f = [i \in 1 .. Len(ss) |-> IF i = 1 THEN ss[i] ELSE f[i - 1] \o ss[i]]

\* Up to a bound, all numbers are in a set with 1 and the successors of its members.
LEMMA NumbersFromOne ==
  ASSUME NEW N \in Nat, NEW G, 1 \in G,
         \A n \in 1 .. N : n \in G /\ n < N => n + 1 \in G
  PROVE  \A n \in 1 .. N : n \in G
<1> DEFINE B == {n \in 1 .. N : n \notin G}
<1>1. SUFFICES ASSUME B # {} PROVE FALSE
  OBVIOUS
<1>2. B \in SUBSET Nat /\ IsFiniteSet(B)
  BY PlacesAreFinite
<1> DEFINE m == Min(B)
<1>3. m \in B /\ \A j \in B : m <= j
  BY <1>1, <1>2, ExtremesAre
<1> HIDE DEF m
<1>4. m \in 1 .. N /\ m \notin G
  BY <1>3
<1>5. m # 1
  BY <1>4
<1>6. m - 1 \in 1 .. N /\ m - 1 < N /\ ~(m <= m - 1) /\ (m - 1) + 1 = m
  BY <1>4, <1>5
<1>7. m - 1 \in G
  BY <1>3, <1>6
<1> QED BY <1>4, <1>6, <1>7

\* The concatenations of the first of some lists, for each number of them.
LEMMA ConcatsExist ==
  ASSUME NEW ss, Len(ss) \in Nat, Len(ss) # 0
  PROVE  \E f : Concats(ss, f)
<1> DEFINE UpTo(k) == \E f : f = [i \in 1 .. k |-> IF i = 1 THEN ss[i] ELSE f[i - 1] \o ss[i]]
           G == {k \in 1 .. Len(ss) : UpTo(k)}
<1>1. UpTo(1)
  <2>1. [i \in 1 .. 1 |-> ss[i]]
        = [i \in 1 .. 1 |-> IF i = 1 THEN ss[i] ELSE [j \in 1 .. 1 |-> ss[j]][i - 1] \o ss[i]]
    OBVIOUS
  <2> QED BY <2>1
<1>2. ASSUME NEW k \in Nat, k # 0, UpTo(k) PROVE UpTo(k + 1)
  <2>1. PICK f : f = [i \in 1 .. k |-> IF i = 1 THEN ss[i] ELSE f[i - 1] \o ss[i]]
    BY <1>2
  <2> DEFINE g == [i \in 1 .. (k + 1) |-> IF i = k + 1 THEN f[k] \o ss[k + 1] ELSE f[i]]
  <2>2. ASSUME NEW i \in 1 .. (k + 1)
        PROVE  g[i] = IF i = 1 THEN ss[i] ELSE g[i - 1] \o ss[i]
    <3>1. CASE i = k + 1
      <4>1. i # 1 /\ i - 1 = k /\ k \in 1 .. (k + 1) /\ k # k + 1
        BY <1>2, <3>1
      <4> QED BY <3>1, <4>1
    <3>2. CASE i # k + 1
      <4>1. i \in 1 .. k
        BY <1>2, <3>2
      <4>2. g[i] = IF i = 1 THEN ss[i] ELSE f[i - 1] \o ss[i]
        BY <2>1, <3>2, <4>1
      <4>3. i # 1 => i - 1 \in 1 .. (k + 1) /\ i - 1 # k + 1
        BY <1>2, <4>1
      <4> QED BY <4>2, <4>3
    <3> QED BY <3>1, <3>2
  <2>3. g = [i \in 1 .. (k + 1) |-> IF i = 1 THEN ss[i] ELSE g[i - 1] \o ss[i]]
    BY <2>2
  <2> QED BY <2>3
<1> HIDE DEF UpTo
<1>3. 1 \in G
  BY <1>1
<1>4. \A n \in 1 .. Len(ss) : n \in G /\ n < Len(ss) => n + 1 \in G
  BY <1>2
<1> HIDE DEF G
<1>5. \A n \in 1 .. Len(ss) : n \in G
  BY <1>3, <1>4, NumbersFromOne
<1>6. UpTo(Len(ss))
  BY <1>5 DEF G
<1> QED BY <1>6 DEF UpTo, Concats

\* FlattenSeq gives the last of them.
LEMMA FlattenIs ==
  ASSUME NEW ss, Len(ss) \in Nat, Len(ss) # 0
  PROVE  \E f : /\ FlattenSeq(ss) = f[Len(ss)] /\ f[1] = ss[1]
                /\ \A i \in 2 .. Len(ss) : f[i] = f[i - 1] \o ss[i]
<1> DEFINE f == CHOOSE f : Concats(ss, f)
<1>1. Concats(ss, f)
  BY ConcatsExist
<1>2. FlattenSeq(ss) = f[Len(ss)]
  BY DEF FlattenSeq, Concats
<1> HIDE DEF f
<1>3. \A i \in 1 .. Len(ss) : f[i] = IF i = 1 THEN ss[i] ELSE f[i - 1] \o ss[i]
  BY <1>1 DEF Concats
<1>4. f[1] = ss[1] /\ \A i \in 2 .. Len(ss) : f[i] = f[i - 1] \o ss[i]
  <2>1. 1 \in 1 .. Len(ss) /\ \A i \in 2 .. Len(ss) : i \in 1 .. Len(ss) /\ i # 1
    OBVIOUS
  <2> QED BY <1>3, <2>1
<1> QED BY <1>2, <1>4

\* Two stretches that meet are one.
LEMMA StretchesJoin ==
  ASSUME NEW rows, NEW i \in Nat, NEW j \in Nat, i <= j
  PROVE  Stretch(rows, 1, i) \o Stretch(rows, i + 1, j) = Stretch(rows, 1, j)
<1> DEFINE s == Stretch(rows, 1, i)
           t == Stretch(rows, i + 1, j)
           u == Stretch(rows, 1, j)
           v == s \o t
           X == {rows[k].request : k \in 1 .. j}
<1>1. s = [m \in 1 .. i |-> rows[m].request]
  <2>1. i - 1 + 1 = i /\ \A m \in 1 .. i : 1 + m - 1 = m
    OBVIOUS
  <2> QED BY <2>1 DEF Stretch
<1>2. t = [m \in 1 .. (j - i) |-> rows[i + m].request]
  <2>1. j - (i + 1) + 1 = j - i /\ \A m \in 1 .. (j - i) : (i + 1) + m - 1 = i + m
    OBVIOUS
  <2> QED BY <2>1 DEF Stretch
<1>3. u = [m \in 1 .. j |-> rows[m].request]
  <2>1. j - 1 + 1 = j /\ \A m \in 1 .. j : 1 + m - 1 = m
    OBVIOUS
  <2> QED BY <2>1 DEF Stretch
<1> HIDE DEF s, t, u
<1>4. s \in Seq(X) /\ Len(s) = i
  <2>1. s \in [1 .. i -> X]
    BY <1>1
  <2> QED BY <2>1, FunctionIsSeq
<1>5. t \in Seq(X) /\ Len(t) = j - i
  <2>1. j - i \in Nat
    OBVIOUS
  <2>2. \A m \in 1 .. (j - i) : i + m \in 1 .. j
    OBVIOUS
  <2>3. t \in [1 .. (j - i) -> X]
    BY <1>2, <2>2
  <2> QED BY <2>1, <2>3, FunctionIsSeq
<1>6. v \in Seq(X) /\ Len(v) = j
  <2>1. s \o t \in Seq(X) /\ Len(s \o t) = Len(s) + Len(t)
    BY <1>4, <1>5, ConcatProperties
  <2> QED BY <1>4, <1>5, <2>1
<1>7. ASSUME NEW m \in 1 .. j PROVE v[m] = rows[m].request
  <2>1. v[m] = IF m <= Len(s) THEN s[m] ELSE t[m - Len(s)]
    <3>1. m \in 1 .. (Len(s) + Len(t))
      BY <1>4, <1>5
    <3> QED BY <1>4, <1>5, <3>1, ConcatProperties
  <2>2. CASE m <= i
    BY <1>1, <1>4, <2>1, <2>2
  <2>3. CASE ~(m <= i)
    <3>1. m - i \in 1 .. (j - i) /\ i + (m - i) = m
      BY <2>3
    <3> QED BY <1>2, <1>4, <2>1, <2>3, <3>1
  <2> QED BY <2>2, <2>3
<1>8. v \in [1 .. j -> X]
  BY <1>6, LenProperties
<1>9. u \in [1 .. j -> X]
  BY <1>3
<1> HIDE DEF v
<1>10. v = u
  BY <1>3, <1>7, <1>8, <1>9
<1> QED BY <1>10 DEF s, t, u, v

\* One after the other, the stretches are all the rows.
LEMMA StretchesAreAll ==
  ASSUME NEW rows, IsList(rows), NEW starts, NEW S, Cut(starts, S, Len(rows)),
         NEW ss, DOMAIN ss = 1 .. Len(starts), IsList(ss),
         \A n \in 1 .. Len(starts) : ss[n] = Stretch(rows, starts[n], EndOf(starts, n, Len(rows)))
  PROVE  FlattenSeq(ss) = [k \in DOMAIN rows |-> rows[k].request]
<1> DEFINE N == Len(rows)
           M == Len(starts)
           all == [k \in DOMAIN rows |-> rows[k].request]
<1>1. N \in Nat /\ M \in Nat /\ DOMAIN rows = 1 .. N /\ Len(ss) = M
  <2>1. Len(ss) \in Nat /\ DOMAIN ss = 1 .. Len(ss) /\ M \in Nat
    BY ListIs, CutIs
  <2>2. Len(ss) = M
    BY <2>1
  <2> QED BY <2>1, <2>2, ListIs
<1>2. CASE N = 0
  <2>1. M = 0
    BY <1>2, CutIs
  <2>2. FlattenSeq(ss) = ss
    BY <1>1, <2>1 DEF FlattenSeq
  <2>3. ss = <<>>
    <3>1. ss \in Seq(ToSet(ss)) /\ Len(ss) = 0
      BY <1>1, <2>1 DEF IsList
    <3> QED BY <3>1, EmptySeq
  <2>4. all = <<>>
    <3>1. DOMAIN rows = {}
      BY <1>1, <1>2
    <3>2. all \in [1 .. 0 -> {}]
      BY <1>1, <1>2, <3>1
    <3>3. all \in Seq({}) /\ Len(all) = 0
      BY <3>2, SeqDef, LenProperties
    <3> QED BY <3>3, EmptySeq
  <2> QED BY <2>2, <2>3, <2>4
<1>3. CASE N # 0
  <2>1. M # 0 /\ starts[1] = 1 /\ EndOf(starts, M, N) = N
    BY <1>3, CutIs
  <2>2. PICK f : /\ FlattenSeq(ss) = f[M] /\ f[1] = ss[1]
                 /\ \A i \in 2 .. M : f[i] = f[i - 1] \o ss[i]
    <3>1. Len(ss) = M /\ Len(ss) \in Nat /\ Len(ss) # 0
      BY <1>1, <2>1
    <3>2. \E f : /\ FlattenSeq(ss) = f[Len(ss)] /\ f[1] = ss[1]
                 /\ \A i \in 2 .. Len(ss) : f[i] = f[i - 1] \o ss[i]
      BY <3>1, FlattenIs
    <3> QED BY <3>1, <3>2
  <2> DEFINE G == {i \in 1 .. M : f[i] = Stretch(rows, 1, EndOf(starts, i, N))}
  <2>3. 1 \in G
    <3>1. 1 \in 1 .. M
      BY <1>1, <2>1
    <3> QED BY <2>1, <2>2, <3>1
  <2>4. ASSUME NEW n \in 1 .. M, n \in G, n < M PROVE n + 1 \in G
    <3>1. n + 1 \in 2 .. M /\ n + 1 \in 1 .. M /\ (n + 1) - 1 = n
      BY <1>1, <2>4
    <3>2. f[n + 1] = f[n] \o ss[n + 1]
      BY <2>2, <3>1
    <3>3. starts[n + 1] = EndOf(starts, n, N) + 1 /\ EndOf(starts, n, N) \in 1 .. N
          /\ EndOf(starts, n + 1, N) \in 1 .. N /\ starts[n + 1] <= EndOf(starts, n + 1, N)
      BY <2>4, <3>1, CutIs
    <3>4. ss[n + 1] = Stretch(rows, EndOf(starts, n, N) + 1, EndOf(starts, n + 1, N))
      BY <3>1, <3>3
    <3>5. f[n] = Stretch(rows, 1, EndOf(starts, n, N))
      BY <2>4
    <3>6. /\ EndOf(starts, n, N) \in Nat /\ EndOf(starts, n + 1, N) \in Nat
          /\ EndOf(starts, n, N) <= EndOf(starts, n + 1, N)
      BY <1>1, <3>3
    <3>7. f[n + 1] = Stretch(rows, 1, EndOf(starts, n + 1, N))
      BY <3>2, <3>4, <3>5, <3>6, StretchesJoin
    <3> QED BY <3>1, <3>7
  <2> HIDE DEF G
  <2>5. \A n \in 1 .. M : n \in G
    BY <1>1, <2>3, <2>4, NumbersFromOne
  <2>6. M \in 1 .. M
    BY <1>1, <2>1
  <2>7. f[M] = Stretch(rows, 1, N)
    BY <2>1, <2>5, <2>6 DEF G
  <2>8. Stretch(rows, 1, N) = all
    <3>1. N - 1 + 1 = N /\ \A m \in 1 .. N : 1 + m - 1 = m
      BY <1>1
    <3> QED BY <1>1, <3>1 DEF Stretch
  <2> QED BY <2>2, <2>7, <2>8
<1> QED BY <1>2, <1>3

\* A task holds the requests from one row to another.
LEMMA TaskGroupIs ==
  ASSUME NEW a, NEW rows, NEW from, NEW to, NEW readable, NEW links,
         NEW g, g = TaskGroup(a, rows, from, to, readable, links)
  PROVE  "requests" \in DOMAIN g /\ g.requests = Stretch(rows, from, to)
<1>1. ASSUME NEW requests_, NEW inclusions
      PROVE  LET h == TaskGroupOf(a, rows, from, to, readable, links, requests_, inclusions)
             IN  "requests" \in DOMAIN h /\ h.requests = requests_
  BY DEF TaskGroupOf
<1>2. g = TaskGroupOf(a, rows, from, to, readable, links, Stretch(rows, from, to),
                      {i \in DOMAIN a : \E k \in from .. to : a[i].request = rows[k].request})
  BY DEF TaskGroup, Stretch
<1> QED BY <1>1, <1>2

\* Put leaves the other fields as they are.
LEMMA PutKeeps ==
  ASSUME NEW map, NEW k, NEW v, NEW x \in DOMAIN map, x # k
  PROVE  x \in DOMAIN Put(map, k, v) /\ Put(map, k, v)[x] = map[x]
BY DEF Put

\* What is shown of a task has its requests.
LEMMA TaskViewIs ==
  ASSUME NEW task, "requests" \in DOMAIN task
  PROVE  "requests" \in DOMAIN TaskView(task) /\ TaskView(task).requests = task.requests
<1> DEFINE named == Put(task, "task", TaskId(task))
           privacy == PrivacyState(IF task.preview = "hidden" THEN "metadata" ELSE "preview",
                                   task.preview, {"prompt"})
<1>1. "requests" # "task" /\ "requests" # "privacy"
  OBVIOUS
<1>2. TaskView(task) = Put(named, "privacy", privacy)
  BY DEF TaskView
<1> HIDE DEF privacy
<1>3. "requests" \in DOMAIN named /\ named["requests"] = task["requests"]
  BY <1>1, PutKeeps
<1> HIDE DEF named
<1>4. /\ "requests" \in DOMAIN Put(named, "privacy", privacy)
      /\ Put(named, "privacy", privacy)["requests"] = named["requests"]
  BY <1>1, <1>3, PutKeeps
<1> QED BY <1>2, <1>3, <1>4

\* The API answers a task with its requests.
LEMMA ApiTaskIs ==
  ASSUME NEW task, "requests" \in DOMAIN task
  PROVE  ApiTask(task).requests = task.requests
BY DEF ApiTask, Public

\* To sort by a number without disturbing what it does not tell apart orders the places.
LEMMA StableOrder ==
  ASSUME NEW n \in Nat, NEW f \in [1 .. n -> Nat], NEW R,
         \A i, j \in 1 .. n : <<i, j>> \in R <=> f[i] < f[j] \/ (~(f[j] < f[i]) /\ i < j)
  PROVE  Orders(R, 1 .. n)
<1> DEFINE g == [i \in 1 .. n |-> 0]
<1>1. g \in [1 .. n -> Nat]
  OBVIOUS
<1>2. ASSUME NEW i \in 1 .. n, NEW j \in 1 .. n PROVE <<i, j>> \in R <=> Earlier(f, g, i, j)
  <2>1. f[i] \in Nat /\ f[j] \in Nat /\ g[i] = 0 /\ g[j] = 0
    OBVIOUS
  <2> HIDE DEF g
  <2>2. Earlier(f, g, i, j) <=> f[i] < f[j] \/ (~(f[j] < f[i]) /\ i < j)
    BY <2>1 DEF Earlier
  <2> QED BY <2>2
<1> HIDE DEF g
<1> QED BY <1>1, <1>2, KeysOrder

\* The places of the prompts of a request.
PromptRows(rows, a) == {k \in DOMAIN rows : k = 1 \/ Prompts(a, rows[k].request) # {}}

\* Tasks begin with the first request and with every one that has a prompt.
LEMMA TaskStartsAre ==
  ASSUME NEW rows, IsList(rows), NEW a
  PROVE  Cut(TaskStarts(a, rows), PromptRows(rows, a), Len(rows))
<1> DEFINE S == PromptRows(rows, a)
<1>1. Len(rows) \in Nat /\ DOMAIN rows = 1 .. Len(rows)
  BY ListIs
<1>2. S \in SUBSET (1 .. Len(rows))
  BY <1>1 DEF PromptRows
<1>3. Climbs(Ascending(S), S)
  BY <1>1, <1>2, PlacesAreFinite, AscendingIs
<1>4. TaskStarts(a, rows) = Ascending(S)
  BY DEF TaskStarts, PromptRows
<1>5. Len(rows) # 0 => 1 \in S
  BY <1>1 DEF PromptRows
<1> QED BY <1>1, <1>2, <1>3, <1>4, <1>5 DEF Cut

\* The tasks hold the stretches in the order p.
Shuffled(tasks, rows, starts, p) ==
  /\ DOMAIN tasks = 1 .. Len(starts)
  /\ p \in [1 .. Len(starts) -> 1 .. Len(starts)]
  /\ \A j, k \in 1 .. Len(starts) : p[j] = p[k] => j = k
  /\ \A m \in 1 .. Len(starts) :
       /\ "requests" \in DOMAIN tasks[m]
       /\ tasks[m].requests = Stretch(rows, starts[p[m]], EndOf(starts, p[m], Len(rows)))

\* A stretch begins with the request of its first row.
LEMMA StretchBegins ==
  ASSUME NEW rows, NEW from \in Nat, NEW to \in Nat, from <= to
  PROVE  Stretch(rows, from, to)[1] = rows[from].request
<1>1. 1 \in 1 .. (to - from + 1) /\ from + 1 - 1 = from
  OBVIOUS
<1> QED BY <1>1 DEF Stretch

\* task-groups.ts: the tasks are the stretches of rows between such requests, in some order.
LEMMA TasksAre ==
  ASSUME NEW rows, NEW list, RowsTile(rows, list), NEW a, NEW readable, NEW links
  PROVE  \E p : Shuffled(Tasks(a, rows, readable, links), rows, TaskStarts(a, rows), p)
<1> DEFINE N == Len(rows)
           starts == TaskStarts(a, rows)
           M == Len(starts)
           s == [n \in DOMAIN starts |->
                   TaskGroup(a, rows, starts[n], EndOf(starts, n, N), readable, links)]
           R == {p \in (DOMAIN s) \X (DOMAIN s) :
                   \/ s[p[1]].requests[1] < s[p[2]].requests[1]
                   \/ ~(s[p[2]].requests[1] < s[p[1]].requests[1]) /\ p[1] < p[2]}
           order == Sorted(DOMAIN s, R)
           tasks == Tasks(a, rows, readable, links)
           f == [n \in 1 .. M |-> s[n].requests[1]]
<1>1. IsList(rows) /\ N \in Nat /\ DOMAIN rows = 1 .. N
  BY ListIs DEF RowsTile
<1>2. Cut(starts, PromptRows(rows, a), N)
  BY <1>1, TaskStartsAre
<1>3. tasks = [k \in DOMAIN order |-> s[order[k]]]
  BY DEF Tasks, TasksFrom, StableSort, EndOf
<1> HIDE DEF starts
<1>4. M \in Nat /\ DOMAIN starts = 1 .. M /\ DOMAIN s = 1 .. M
  BY <1>2, CutIs
<1>5. ASSUME NEW n \in 1 .. M
      PROVE  /\ starts[n] \in 1 .. N /\ starts[n] \in Nat /\ EndOf(starts, n, N) \in Nat
             /\ starts[n] <= EndOf(starts, n, N)
  <2>1. starts[n] \in 1 .. N /\ EndOf(starts, n, N) \in 1 .. N /\ starts[n] <= EndOf(starts, n, N)
    BY <1>2, CutIs
  <2> QED BY <1>1, <2>1
<1>6. ASSUME NEW n \in 1 .. M
      PROVE  "requests" \in DOMAIN s[n] /\ s[n].requests = Stretch(rows, starts[n], EndOf(starts, n, N))
  <2>1. s[n] = TaskGroup(a, rows, starts[n], EndOf(starts, n, N), readable, links)
    BY <1>4
  <2> HIDE DEF s
  <2> QED BY <2>1, TaskGroupIs
<1>7. ASSUME NEW n \in 1 .. M PROVE s[n].requests[1] = rows[starts[n]].request /\ f[n] \in Nat
  <2> HIDE DEF s
  <2>1. s[n].requests[1] = rows[starts[n]].request
    BY <1>5, <1>6, StretchBegins
  <2>2. rows[starts[n]].request \in Nat
    BY <1>5 DEF RowsTile
  <2> QED BY <2>1, <2>2
<1>8. \A i, j \in 1 .. M : <<i, j>> \in R <=> f[i] < f[j] \/ (~(f[j] < f[i]) /\ i < j)
  <2> HIDE DEF s
  <2> QED BY <1>4
<1>9. f \in [1 .. M -> Nat]
  BY <1>7
<1> HIDE DEF f, s, R
<1>10. Orders(R, 1 .. M)
  BY <1>4, <1>8, <1>9, StableOrder
<1>11. order = Sorted(DOMAIN s, R)
  OBVIOUS
<1> HIDE DEF order, tasks
<1>12. DOMAIN tasks = DOMAIN order /\ \A k \in DOMAIN order : tasks[k] = s[order[k]]
  BY <1>3
<1>13. Rearranges(tasks, s, M, R)
  BY <1>4, <1>10, <1>11, <1>12, Rearranged
<1>14. DOMAIN tasks = 1 .. M
  BY <1>13 DEF Rearranges
<1>15. PICK p \in [1 .. M -> 1 .. M] : Lists(p, 1 .. M, R) /\ \A k \in 1 .. M : tasks[k] = s[p[k]]
  BY <1>13 DEF Rearranges
<1>16. Len(p) = M
  BY <1>4, <1>15, FunctionIsSeq
<1>17. ASSUME NEW j \in 1 .. M, NEW k \in 1 .. M, p[j] = p[k] PROVE j = k
  BY <1>10, <1>15, <1>16, <1>17, ListedOnce
<1>18. Shuffled(tasks, rows, starts, p)
  BY <1>6, <1>14, <1>15, <1>17 DEF Shuffled
<1> QED BY <1>18 DEF tasks, starts

\* dashboardTaskGroups: what is shown are the same stretches, in the order of the requests.
LEMMA TaskViewsAre ==
  ASSUME NEW an, NEW list, RowsTile(an.rows, list), NEW starts, NEW S, Cut(starts, S, Len(an.rows)),
         NEW p, Shuffled(an.tasks, an.rows, starts, p)
  PROVE  /\ TasksCut(TaskViews(an), an.rows, starts)
         /\ \A n \in 1 .. Len(starts) : "requests" \in DOMAIN TaskViews(an)[n]
<1> DEFINE rows == an.rows
           N == Len(rows)
           M == Len(starts)
           s == [n \in DOMAIN an.tasks |-> TaskView(an.tasks[n])]
           place(task) == CHOOSE k \in DOMAIN rows : rows[k].request = task.requests[1]
           R == {q \in (DOMAIN s) \X (DOMAIN s) :
                   \/ place(s[q[1]]) < place(s[q[2]])
                   \/ ~(place(s[q[2]]) < place(s[q[1]])) /\ q[1] < q[2]}
           order == Sorted(DOMAIN s, R)
           views == TaskViews(an)
           f == [n \in 1 .. M |-> starts[p[n]]]
<1>1. N \in Nat /\ DOMAIN rows = 1 .. N
  BY ListIs DEF RowsTile
<1>2. views = [k \in DOMAIN order |-> s[order[k]]]
  BY DEF TaskViews, StableSort
<1>3. M \in Nat /\ DOMAIN s = 1 .. M
  BY CutIs DEF Shuffled
<1>4. ASSUME NEW n \in 1 .. M
      PROVE  /\ p[n] \in 1 .. M
             /\ "requests" \in DOMAIN s[n]
             /\ s[n].requests = Stretch(rows, starts[p[n]], EndOf(starts, p[n], N))
  <2>1. /\ p[n] \in 1 .. M /\ "requests" \in DOMAIN an.tasks[n]
        /\ an.tasks[n].requests = Stretch(rows, starts[p[n]], EndOf(starts, p[n], N))
    BY DEF Shuffled
  <2>2. s[n] = TaskView(an.tasks[n])
    BY <1>3
  <2> HIDE DEF s
  <2> QED BY <2>1, <2>2, TaskViewIs
<1> HIDE DEF s
<1>5. ASSUME NEW n \in 1 .. M PROVE place(s[n]) = f[n] /\ f[n] \in Nat
  <2>1. p[n] \in 1 .. M
    BY <1>4
  <2>2. starts[p[n]] \in 1 .. N /\ EndOf(starts, p[n], N) \in 1 .. N
        /\ starts[p[n]] <= EndOf(starts, p[n], N)
    BY <2>1, CutIs
  <2>3. s[n].requests[1] = rows[starts[p[n]]].request
    <3>1. starts[p[n]] \in Nat /\ EndOf(starts, p[n], N) \in Nat
      BY <1>1, <2>2
    <3> QED BY <1>4, <2>2, <3>1, StretchBegins
  <2>4. \A k \in DOMAIN rows : rows[k].request = s[n].requests[1] <=> k = starts[p[n]]
    <3>1. \A j, k \in 1 .. N : rows[j].request = rows[k].request => j = k
      BY DEF RowsTile
    <3> QED BY <1>1, <2>2, <2>3, <3>1
  <2>5. place(s[n]) = starts[p[n]]
    BY <1>1, <2>2, <2>4
  <2>6. starts[p[n]] \in Nat
    BY <1>1, <2>2
  <2> QED BY <2>5, <2>6
<1>6. \A i, j \in 1 .. M : <<i, j>> \in R <=> f[i] < f[j] \/ (~(f[j] < f[i]) /\ i < j)
  <2>1. \A i, j \in 1 .. M :
          <<i, j>> \in R <=> place(s[i]) < place(s[j]) \/ (~(place(s[j]) < place(s[i])) /\ i < j)
    BY <1>3
  <2>2. \A n \in 1 .. M : place(s[n]) = f[n]
    BY <1>5
  <2> HIDE DEF R, place, f
  <2>3. ASSUME NEW i \in 1 .. M, NEW j \in 1 .. M
        PROVE  <<i, j>> \in R <=> f[i] < f[j] \/ (~(f[j] < f[i]) /\ i < j)
    <3>1. place(s[i]) = f[i] /\ place(s[j]) = f[j]
      BY <2>2
    <3>2. <<i, j>> \in R <=> place(s[i]) < place(s[j]) \/ (~(place(s[j]) < place(s[i])) /\ i < j)
      BY <2>1
    <3> HIDE DEF s, M
    <3> QED BY <3>1, <3>2
  <2> QED BY <2>3
<1>7. f \in [1 .. M -> Nat]
  BY <1>5
<1>8. \A n \in 1 .. M : f[n] = starts[p[n]]
  OBVIOUS
<1> HIDE DEF f, R
<1>9. Orders(R, 1 .. M)
  BY <1>3, <1>6, <1>7, StableOrder
<1>10. order = Sorted(DOMAIN s, R)
  OBVIOUS
<1> HIDE DEF order, views
<1>11. DOMAIN views = DOMAIN order /\ \A k \in DOMAIN order : views[k] = s[order[k]]
  BY <1>2
<1>12. Rearranges(views, s, M, R)
  BY <1>3, <1>9, <1>10, <1>11, Rearranged
<1>13. DOMAIN views = 1 .. M
  BY <1>12 DEF Rearranges
<1>14. PICK q \in [1 .. M -> 1 .. M] : Lists(q, 1 .. M, R) /\ \A k \in 1 .. M : views[k] = s[q[k]]
  BY <1>12 DEF Rearranges
<1>15. Len(q) = M
  BY <1>3, <1>14, FunctionIsSeq
<1> DEFINE h == [k \in 1 .. M |-> p[q[k]]]
<1>16. h \in [1 .. M -> 1 .. M]
  BY <1>4, <1>14
<1>17. ASSUME NEW j \in 1 .. M, NEW k \in 1 .. M, j < k PROVE h[j] < h[k]
  <2>1. q[j] \in 1 .. M /\ q[k] \in 1 .. M /\ h[j] = p[q[j]] /\ h[k] = p[q[k]]
    BY <1>14
  <2>2. <<q[j], q[k]>> \in R
    BY <1>14, <1>15, <1>17 DEF Lists
  <2>3. f[q[j]] < f[q[k]] \/ (~(f[q[k]] < f[q[j]]) /\ q[j] < q[k])
    BY <1>6, <2>1, <2>2
  <2>4. f[q[j]] = starts[h[j]] /\ f[q[k]] = starts[h[k]] /\ f[q[j]] \in Nat /\ f[q[k]] \in Nat
    BY <1>7, <1>8, <2>1
  <2>5. h[j] \in 1 .. M /\ h[k] \in 1 .. M
    BY <1>16
  <2>6. q[j] # q[k]
    <3>1. ~(q[j] = q[k])
      BY <1>9, <1>14, <1>15, <1>17, ListedOnce
    <3> QED BY <3>1
  <2>7. h[j] # h[k]
    BY <2>1, <2>6 DEF Shuffled
  <2> HIDE DEF h
  <2>8. starts[h[j]] # starts[h[k]]
    BY <2>5, <2>7 DEF Cut, Climbs
  <2>9. starts[h[j]] < starts[h[k]]
    BY <2>3, <2>4, <2>8
  <2> QED BY <2>5, <2>9 DEF Cut, Climbs
<1> HIDE DEF h
<1>18. \A k \in 1 .. M : h[k] = k
  BY <1>3, <1>16, <1>17, ClimbIsIdentity
<1>19. ASSUME NEW n \in 1 .. M
       PROVE  /\ "requests" \in DOMAIN views[n]
              /\ views[n].requests = Stretch(rows, starts[n], EndOf(starts, n, N))
  <2>1. q[n] \in 1 .. M /\ views[n] = s[q[n]]
    BY <1>14
  <2>2. p[q[n]] = n
    BY <1>18 DEF h
  <2> QED BY <1>4, <2>1, <2>2
<1> QED BY <1>13, <1>19 DEF TasksCut, views

-----------------------------------------------------------------------------
(***************************************************************************)
(* What is shown of a run divides its requests.                            *)
(***************************************************************************)
\* The parts of an analysis.
LEMMA AnalysisHas ==
  ASSUME NEW list, NEW a, NEW exposure, NEW rows, NEW order, NEW readable, NEW links
  PROVE  /\ Analysis(list, a, exposure, rows, order, readable, links).artifacts = a
         /\ Analysis(list, a, exposure, rows, order, readable, links).rows = rows
         /\ Analysis(list, a, exposure, rows, order, readable, links).tasks
              = Tasks(a, rows, readable, links)
         /\ Analysis(list, a, exposure, rows, order, readable, links).turns
              = Turns(list, rows, readable)
BY DEF Analysis

\* They are made of one another.
Analyzed(an, list, readable, links) ==
  /\ an.artifacts = Artifacts(list)
  /\ an.rows = Accounting(Artifacts(list), list)
  /\ an.tasks = Tasks(an.artifacts, an.rows, readable, links)
  /\ an.turns = Turns(list, an.rows, readable)

\* analyzeEvents makes each part from those before it.
LEMMA AnalyzeIs ==
  ASSUME NEW list
  PROVE  \E readable, links : Analyzed(Analyze(list), list, readable, links)
<1>1. ASSUME NEW a, NEW exposure, NEW rows, NEW order, NEW readable
      PROVE  \E links : AnalyzeReadable(list, a, exposure, rows, order, readable)
                          = Analysis(list, a, exposure, rows, order, readable, links)
  BY DEF AnalyzeReadable
<1>2. ASSUME NEW a, NEW exposure, NEW rows, NEW order
      PROVE  \E readable : AnalyzeOrder(list, a, exposure, rows, order)
                             = AnalyzeReadable(list, a, exposure, rows, order, readable)
  BY DEF AnalyzeOrder
<1>3. ASSUME NEW a, NEW exposure, NEW rows
      PROVE  \E order : AnalyzeRows(list, a, exposure, rows)
                          = AnalyzeOrder(list, a, exposure, rows, order)
  BY DEF AnalyzeRows
<1>4. ASSUME NEW a
      PROVE  \E exposure : AnalyzeArtifacts(list, a)
                             = AnalyzeRows(list, a, exposure, Accounting(a, list))
  BY DEF AnalyzeArtifacts
<1>5. Analyze(list) = AnalyzeArtifacts(list, Artifacts(list))
  BY DEF Analyze
<1> DEFINE a == Artifacts(list)
           rows == Accounting(a, list)
<1> HIDE DEF a, rows
<1>6. PICK exposure : AnalyzeArtifacts(list, a) = AnalyzeRows(list, a, exposure, rows)
  BY <1>4 DEF rows
<1>7. PICK order : AnalyzeRows(list, a, exposure, rows) = AnalyzeOrder(list, a, exposure, rows, order)
  BY <1>3
<1>8. PICK readable : AnalyzeOrder(list, a, exposure, rows, order)
                        = AnalyzeReadable(list, a, exposure, rows, order, readable)
  BY <1>2
<1>9. PICK links : AnalyzeReadable(list, a, exposure, rows, order, readable)
                     = Analysis(list, a, exposure, rows, order, readable, links)
  BY <1>1
<1>10. Analyze(list) = Analysis(list, a, exposure, rows, order, readable, links)
  BY <1>5, <1>6, <1>7, <1>8, <1>9 DEF a
<1>11. Analyzed(Analyze(list), list, readable, links)
  BY <1>10, AnalysisHas DEF Analyzed, a, rows
<1> QED BY <1>11

\* The tasks of an answer are those of the view.
LEMMA ResponseTasks ==
  Response.tasks = [n \in DOMAIN TaskViews(analysis) |-> ApiTask(TaskViews(analysis)[n])]
<1>1. ASSUME NEW view PROVE ApiRun(view).tasks = [n \in DOMAIN view.tasks |-> ApiTask(view.tasks[n])]
  BY DEF ApiRun
<1>2. ASSUME NEW an, NEW tasks, NEW rows PROVE ViewOf(an, tasks, rows).tasks = tasks
  BY DEF ViewOf
<1>3. ASSUME NEW an, NEW tasks PROVE \E rows : ViewWith(an, tasks) = ViewOf(an, tasks, rows)
  BY DEF ViewWith
<1>4. ASSUME NEW an, NEW tasks PROVE ViewWith(an, tasks).tasks = tasks
  <2>1. PICK rows : ViewWith(an, tasks) = ViewOf(an, tasks, rows)
    BY <1>3
  <2> QED BY <1>2, <2>1
<1>5. ViewModel(analysis).tasks = TaskViews(analysis)
  BY <1>4 DEF ViewModel
<1>6. ApiRun(ViewModel(analysis)).tasks
        = [n \in DOMAIN ViewModel(analysis).tasks |-> ApiTask(ViewModel(analysis).tasks[n])]
  BY <1>1
<1> QED BY <1>5, <1>6 DEF Response

\* Tasks that cut the rows where a prompt is tile the requests.
LEMMA TasksTileIs ==
  ASSUME NEW list, AreOfKind(A, list, "artifact"), RowsTile(analysis.rows, list),
         NEW starts, Cut(starts, PromptRows(analysis.rows, A), Len(analysis.rows)),
         NEW tasks, TasksCut(tasks, analysis.rows, starts)
  PROVE  TasksTile(tasks)
<1> DEFINE rows == analysis.rows
           N == Len(rows)
           M == Len(starts)
           ss == [n \in DOMAIN tasks |-> tasks[n].requests]
           taskOf(r) == {n \in DOMAIN tasks : r \in ToSet(tasks[n].requests)}
<1>1. IsList(rows) /\ N \in Nat /\ DOMAIN rows = 1 .. N /\ M \in Nat /\ DOMAIN tasks = 1 .. M
  BY ListIs, CutIs DEF RowsTile, TasksCut
<1>2. FlattenSeq(ss) = [k \in DOMAIN rows |-> rows[k].request]
  <2>1. ss = [n \in 1 .. M |-> ss[n]] /\ \A n \in 1 .. M : ss[n] = tasks[n].requests
    BY <1>1
  <2>2. \A n \in 1 .. M : ss[n] = Stretch(rows, starts[n], EndOf(starts, n, N))
    BY <2>1 DEF TasksCut
  <2> HIDE DEF ss
  <2>3. IsList(ss) /\ DOMAIN ss = 1 .. M
    BY <1>1, <2>1, FunctionIsList
  <2> QED BY <1>1, <2>2, <2>3, StretchesAreAll
<1>3. ASSUME NEW i \in DOMAIN A, IsPrompt(A[i])
      PROVE  \E m \in 1 .. M : rows[starts[m]].request = A[i].request
  <2>1. PICK e \in PlacesOf(list, "artifact") : A[i] = list[e]
    BY DEF AreOfKind
  <2>2. PICK k \in 1 .. N : rows[k].request = A[i].request
    BY <2>1 DEF RowsTile, Accounted
  <2>3. i \in Prompts(A, rows[k].request)
    BY <1>3, <2>2 DEF Prompts, InRequest
  <2>4. k \in PromptRows(rows, A)
    BY <1>1, <2>3 DEF PromptRows
  <2>5. PICK m \in 1 .. M : starts[m] = k
    BY <2>4 DEF Cut, Climbs
  <2> QED BY <2>2, <2>5
<1>4. ASSUME NEW m \in 1 .. M, NEW r
      PROVE  m \in taskOf(r) <=> \E k \in starts[m] .. EndOf(starts, m, N) : rows[k].request = r
  <2> DEFINE from == starts[m]
             to == EndOf(starts, m, N)
             s == Stretch(rows, from, to)
  <2>1. from \in Nat /\ to \in Nat
    <3>1. from \in 1 .. N /\ to \in 1 .. N
      BY CutIs
    <3> QED BY <1>1, <3>1
  <2>2. m \in taskOf(r) <=> r \in ToSet(s)
    BY <1>1 DEF TasksCut
  <2>3. DOMAIN s = 1 .. (to - from + 1) /\ \A i \in 1 .. (to - from + 1) : s[i] = rows[from + i - 1].request
    BY DEF Stretch
  <2>4. r \in ToSet(s) <=> \E i \in 1 .. (to - from + 1) : rows[from + i - 1].request = r
    <3> HIDE DEF s
    <3> QED BY <2>3 DEF ToSet
  <2> HIDE DEF s, from, to
  <2>5. ASSUME NEW i \in 1 .. (to - from + 1), rows[from + i - 1].request = r
        PROVE  \E k \in from .. to : rows[k].request = r
    <3>1. from + i - 1 \in from .. to
      BY <2>1
    <3> QED BY <2>5, <3>1
  <2>6. ASSUME NEW k \in from .. to, rows[k].request = r
        PROVE  \E i \in 1 .. (to - from + 1) : rows[from + i - 1].request = r
    <3>1. k - from + 1 \in 1 .. (to - from + 1) /\ from + (k - from + 1) - 1 = k
      BY <2>1
    <3> QED BY <2>6, <3>1
  <2> HIDE DEF taskOf
  <2>7. m \in taskOf(r) <=> \E k \in from .. to : rows[k].request = r
    BY <2>2, <2>4, <2>5, <2>6
  <2> QED BY <2>7 DEF from, to
<1>5. ASSUME NEW i \in DOMAIN A, NEW j \in DOMAIN A, IsPrompt(A[i]), IsPrompt(A[j]),
             A[i].request # A[j].request
      PROVE  taskOf(A[i].request) # taskOf(A[j].request)
  <2>1. PICK m \in 1 .. M : rows[starts[m]].request = A[i].request
    BY <1>3, <1>5
  <2>2. PICK n \in 1 .. M : rows[starts[n]].request = A[j].request
    BY <1>3, <1>5
  <2>3. /\ starts[m] \in 1 .. N /\ EndOf(starts, m, N) \in 1 .. N /\ starts[m] <= EndOf(starts, m, N)
        /\ starts[n] \in 1 .. N
    BY CutIs
  <2> HIDE DEF taskOf
  <2>4. m \in taskOf(A[i].request)
    <3>1. starts[m] \in starts[m] .. EndOf(starts, m, N)
      BY <1>1, <2>3
    <3> QED BY <1>4, <2>1, <3>1
  <2>5. ASSUME m \in taskOf(A[j].request) PROVE FALSE
    <3>1. PICK k \in starts[m] .. EndOf(starts, m, N) : rows[k].request = A[j].request
      BY <1>4, <2>5
    <3>2. k \in 1 .. N
      BY <1>1, <2>3
    <3>3. k = starts[n]
      BY <2>2, <2>3, <3>1, <3>2 DEF RowsTile
    <3>4. starts[m] <= starts[n] /\ starts[n] <= EndOf(starts, m, N)
      BY <1>1, <2>3, <3>1, <3>3
    <3>5. m = n
      BY <3>4, StretchesApart
    <3> QED BY <1>5, <2>1, <2>2, <3>5
  <2> QED BY <2>4, <2>5
<1> HIDE DEF taskOf, ss
<1>6. TasksTile(tasks) <=>
        /\ FlattenSeq(ss) = [k \in DOMAIN rows |-> rows[k].request]
        /\ \A i, j \in DOMAIN A :
             IsPrompt(A[i]) /\ IsPrompt(A[j]) /\ A[i].request # A[j].request
             => taskOf(A[i].request) # taskOf(A[j].request)
  BY DEF TasksTile, taskOf, ss
<1> QED BY <1>2, <1>5, <1>6

\* The tasks of an answer are cut where a prompt is.
LEMMA TasksAreTiled ==
  ASSUME NEW list, ListOK(list), analysis = Analyze(list)
  PROVE  TasksTileRequests
<1> DEFINE rows == analysis.rows
           starts == TaskStarts(A, rows)
           tasks == Response.tasks
<1>1. PICK readable, links : Analyzed(analysis, list, readable, links)
  BY AnalyzeIs
<1>2. AreOfKind(A, list, "artifact") /\ RowsTile(rows, list)
      /\ analysis.tasks = Tasks(A, rows, readable, links)
  BY <1>1, ArtifactsAre, RowsAre DEF Analyzed, A
<1>3. Cut(starts, PromptRows(rows, A), Len(rows))
  <2>1. IsList(rows)
    BY <1>2 DEF RowsTile
  <2> QED BY <2>1, TaskStartsAre
<1>4. PICK p : Shuffled(analysis.tasks, rows, starts, p)
  BY <1>2, TasksAre
<1> HIDE DEF starts
<1>5. /\ TasksCut(TaskViews(analysis), rows, starts)
      /\ \A n \in 1 .. Len(starts) : "requests" \in DOMAIN TaskViews(analysis)[n]
  BY <1>2, <1>3, <1>4, TaskViewsAre
<1>6. tasks = [n \in DOMAIN TaskViews(analysis) |-> ApiTask(TaskViews(analysis)[n])]
  BY ResponseTasks
<1> HIDE DEF tasks
<1>7. DOMAIN tasks = 1 .. Len(starts)
  BY <1>5, <1>6 DEF TasksCut
<1>8. ASSUME NEW n \in 1 .. Len(starts)
      PROVE  tasks[n].requests = Stretch(rows, starts[n], EndOf(starts, n, Len(rows)))
  <2>1. tasks[n] = ApiTask(TaskViews(analysis)[n])
    BY <1>6, <1>7
  <2>2. tasks[n].requests = TaskViews(analysis)[n].requests
    BY <1>5, <2>1, ApiTaskIs
  <2> QED BY <1>5, <2>2 DEF TasksCut
<1>9. TasksCut(tasks, rows, starts)
  BY <1>7, <1>8 DEF TasksCut
<1>10. TasksTile(tasks)
  BY <1>2, <1>3, <1>9, TasksTileIs
<1> QED BY <1>10 DEF TasksTileRequests, tasks

\* The turns in which an analysis shows a request.
GroupsIn(an, r) ==
  {n \in DOMAIN an.turns : \E m \in DOMAIN an.turns[n].requests : an.turns[n].requests[m].request = r}

\* They are divided as the rows are.
Divides(an, list) ==
  /\ RowsTile(an.rows, list)
  /\ TurnsTile(an.turns, an.rows, [k \in 1 .. Len(an.rows) |-> KeyOf(list, an.rows[k].request)])

\* The rows of any list of events are divided into turns.
LEMMA AnalyzeDivides ==
  ASSUME NEW list, ListOK(list)
  PROVE  Divides(Analyze(list), list)
<1> DEFINE an == Analyze(list)
<1>1. PICK readable, links : Analyzed(an, list, readable, links)
  BY AnalyzeIs
<1> HIDE DEF an
<1>2. RowsTile(an.rows, list) /\ an.turns = Turns(list, an.rows, readable)
  BY <1>1, RowsAre DEF Analyzed
<1>3. TurnsTile(an.turns, an.rows, [k \in 1 .. Len(an.rows) |-> KeyOf(list, an.rows[k].request)])
  BY <1>2, TurnsAre
<1> QED BY <1>2, <1>3 DEF Divides, an

\* A request is in one turn, once.
OnceIn(an, r, n) ==
  /\ n \in DOMAIN an.turns /\ GroupsIn(an, r) = {n}
  /\ \E m \in DOMAIN an.turns[n].requests : \A j \in DOMAIN an.turns[n].requests :
       an.turns[n].requests[j].request = r <=> j = m

\* It is the turn that its earliest turn event names.
LEMMA OneGroup ==
  ASSUME NEW list, NEW an, Divides(an, list), NEW k \in 1 .. Len(an.rows)
  PROVE  \E n \in DOMAIN an.turns :
           /\ OnceIn(an, an.rows[k].request, n)
           /\ an.turns[n].turn = KeyOf(list, an.rows[k].request)
<1> DEFINE rows == an.rows
           turns == an.turns
           key == [i \in 1 .. Len(rows) |-> KeyOf(list, rows[i].request)]
<1>1. TurnsTile(turns, rows, key) /\ key[k] = KeyOf(list, rows[k].request)
  BY DEF Divides
<1>2. \A i, j \in 1 .. Len(rows) : rows[i].request = rows[j].request => i = j
  BY DEF Divides, RowsTile
<1> HIDE DEF key
<1>3. PICK n \in DOMAIN turns :
        /\ turns[n].turn = key[k]
        /\ \E m \in DOMAIN turns[n].requests : turns[n].requests[m].request = rows[k].request
  BY <1>1 DEF TurnsTile
<1>4. ASSUME NEW i \in DOMAIN turns,
             NEW m \in DOMAIN turns[i].requests, turns[i].requests[m].request = rows[k].request
      PROVE  i = n
  <2>1. PICK j \in 1 .. Len(rows) : turns[i].requests[m].request = rows[j].request /\ key[j] = turns[i].turn
    BY <1>1 DEF TurnsTile
  <2>2. j = k
    BY <1>2, <1>4, <2>1
  <2>3. turns[i].turn = turns[n].turn
    BY <1>3, <2>1, <2>2
  <2> QED BY <1>1, <2>3 DEF TurnsTile
<1>5. GroupsIn(an, rows[k].request) = {n}
  BY <1>3, <1>4 DEF GroupsIn
<1>6. PICK m \in DOMAIN turns[n].requests : turns[n].requests[m].request = rows[k].request
  BY <1>3
<1>7. \A j \in DOMAIN turns[n].requests : turns[n].requests[j].request = rows[k].request <=> j = m
  BY <1>1, <1>6 DEF TurnsTile
<1>8. OnceIn(an, rows[k].request, n)
  BY <1>5, <1>7 DEF OnceIn
<1> QED BY <1>1, <1>3, <1>8

\* The turns under which a request is shown.
ShownTurns(an, r) == {an.turns[n].turn : n \in GroupsIn(an, r)}

\* The turn that a request is shown in is the one its events give it.
LEMMA ShownTurnIs ==
  ASSUME NEW list, NEW an, Divides(an, list), NEW k \in 1 .. Len(an.rows)
  PROVE  ShownTurns(an, an.rows[k].request) = {KeyOf(list, an.rows[k].request)}
<1>1. PICK n \in DOMAIN an.turns :
        OnceIn(an, an.rows[k].request, n) /\ an.turns[n].turn = KeyOf(list, an.rows[k].request)
  BY OneGroup
<1> QED BY <1>1 DEF ShownTurns, OnceIn

\* The turn that was recorded first is the one that Codex named with the request.
TurnIsKept(r) == HasTurn(events, r) => TurnFactOf(events, r).turn = requests[r].turn

\* Turns divide the requests of a file in which requests have the turn they were sent with.
LEMMA TurnsAreTiled ==
  ASSUME ListOK(events), analysis = Analyze(events), \A r \in DOMAIN requests : TurnIsKept(r)
  PROVE  TurnsTileRequests
<1> DEFINE rows == analysis.rows
           turns == analysis.turns
           key == [k \in 1 .. Len(rows) |-> KeyOf(events, rows[k].request)]
<1>1. Divides(analysis, events)
  BY AnalyzeDivides
<1>2. DOMAIN rows = 1 .. Len(rows)
  BY <1>1, ListIs DEF Divides, RowsTile
<1>3. \A r : GroupsOf(r) = GroupsIn(analysis, r)
  BY DEF GroupsOf, GroupsIn
<1>4. TurnsTile(turns, rows, key)
  BY <1>1 DEF Divides
<1>5. ASSUME NEW k \in DOMAIN rows
      PROVE  \E n \in DOMAIN turns :
               OnceIn(analysis, rows[k].request, n) /\ turns[n].turn = KeyOf(events, rows[k].request)
  <2>1. k \in 1 .. Len(rows)
    BY <1>2
  <2> QED BY <1>1, <2>1, OneGroup
<1>6. \A n \in DOMAIN turns : \A m \in DOMAIN turns[n].requests : \E k \in DOMAIN rows :
        turns[n].requests[m].request = rows[k].request
  <2> HIDE DEF key, turns
  <2>1. ASSUME NEW n \in DOMAIN turns, NEW m \in DOMAIN turns[n].requests
        PROVE  \E k \in DOMAIN rows : turns[n].requests[m].request = rows[k].request
    BY <1>2, <1>4 DEF TurnsTile
  <2> QED BY <2>1
<1>7. \A j, k \in DOMAIN rows : rows[j].request = rows[k].request => j = k
  BY <1>1, <1>2 DEF Divides, RowsTile
<1>8. \A m, n \in DOMAIN turns : turns[m].turn = turns[n].turn => m = n
  <2> HIDE DEF key
  <2> QED BY <1>4 DEF TurnsTile
<1>9. ASSUME NEW k \in DOMAIN rows, rows[k].request \in DOMAIN requests,
             HasTurn(events, rows[k].request), NEW n \in GroupsOf(rows[k].request)
      PROVE  turns[n].turn = IF requests[rows[k].request].turn = None THEN "missing"
                             ELSE requests[rows[k].request].turn
  <2>1. turns[n].turn = KeyOf(events, rows[k].request)
    <3>1. PICK i \in DOMAIN turns :
            OnceIn(analysis, rows[k].request, i) /\ turns[i].turn = KeyOf(events, rows[k].request)
      BY <1>5
    <3>2. n = i
      BY <1>3, <1>9, <3>1 DEF OnceIn
    <3> QED BY <3>1, <3>2
  <2>2. LET f == TurnFactOf(events, rows[k].request)
        IN  TurnKey(f) = IF f.turn = None THEN "missing" ELSE f.turn
    BY <1>9, FactIsTurn
  <2>3. TurnFactOf(events, rows[k].request).turn = requests[rows[k].request].turn
    BY <1>9 DEF TurnIsKept
  <2> QED BY <2>1, <2>2, <2>3 DEF KeyOf
<1> HIDE DEF key
<1>10. ASSUME NEW k \in DOMAIN rows
       PROVE  \E n \in DOMAIN turns :
                /\ GroupsOf(rows[k].request) = {n}
                /\ \E m \in DOMAIN turns[n].requests : \A j \in DOMAIN turns[n].requests :
                     turns[n].requests[j].request = rows[k].request <=> j = m
  <2>1. PICK n \in DOMAIN turns : OnceIn(analysis, rows[k].request, n)
    BY <1>5
  <2>2. GroupsOf(rows[k].request) = {n}
    BY <1>3, <2>1 DEF OnceIn
  <2>3. \E m \in DOMAIN turns[n].requests : \A j \in DOMAIN turns[n].requests :
          turns[n].requests[j].request = rows[k].request <=> j = m
    BY <2>1 DEF OnceIn
  <2> QED BY <2>2, <2>3
<1> HIDE DEF rows, turns
<1>11. TurnsTileRequests <=>
         /\ \A k \in DOMAIN rows : \E n \in DOMAIN turns :
              /\ GroupsOf(rows[k].request) = {n}
              /\ \E m \in DOMAIN turns[n].requests : \A j \in DOMAIN turns[n].requests :
                   turns[n].requests[j].request = rows[k].request <=> j = m
         /\ \A n \in DOMAIN turns : \A m \in DOMAIN turns[n].requests : \E k \in DOMAIN rows :
              turns[n].requests[m].request = rows[k].request
         /\ \A j, k \in DOMAIN rows : rows[j].request = rows[k].request => j = k
         /\ \A m, n \in DOMAIN turns : turns[m].turn = turns[n].turn => m = n
         /\ \A k \in DOMAIN rows :
              rows[k].request \in DOMAIN requests /\ HasTurn(events, rows[k].request)
              => \A n \in GroupsOf(rows[k].request) :
                   turns[n].turn = IF requests[rows[k].request].turn = None THEN "missing"
                                   ELSE requests[rows[k].request].turn
  BY DEF TurnsTileRequests, rows, turns
<1> QED BY <1>6, <1>7, <1>8, <1>9, <1>10, <1>11

-----------------------------------------------------------------------------
(***************************************************************************)
(* What is recorded of a request is a list of its events.                  *)
(***************************************************************************)
LEMMA OneIsList ==
  ASSUME NEW x
  PROVE  IsList(<<x>>) /\ Len(<<x>>) = 1 /\ <<x>>[1] = x
<1>1. <<x>> \in Seq({x}) /\ Len(<<x>>) = 1 /\ <<x>>[1] = x
  OBVIOUS
<1> QED BY <1>1, SeqIsList

\* The empty list.
LEMMA NoneIsList ==
  IsList(<<>>) /\ Len(<<>>) = 0
<1>1. <<>> \in Seq({}) /\ Len(<<>>) = 0
  OBVIOUS
<1> QED BY <1>1, SeqIsList

\* A list after another.
Joins(v, s, t) ==
  /\ IsList(v) /\ Len(v) = Len(s) + Len(t) /\ DOMAIN v = 1 .. (Len(s) + Len(t))
  /\ \A i \in 1 .. Len(s) : v[i] = s[i]
  /\ \A i \in 1 .. Len(t) : v[Len(s) + i] = t[i]

\* A list after another is a list.
LEMMA JoinIs ==
  ASSUME NEW s, IsList(s), NEW t, IsList(t), NEW v, v = s \o t
  PROVE  Joins(v, s, t)
<1> DEFINE S == ToSet(s) \cup ToSet(t)
<1>1. Len(s) \in Nat /\ Len(t) \in Nat
  BY ListIs
<1>2. s \in Seq(S) /\ t \in Seq(S)
  <2>1. DOMAIN s = 1 .. Len(s) /\ DOMAIN t = 1 .. Len(t) /\ s \in [1 .. Len(s) -> ToSet(s)]
        /\ t \in [1 .. Len(t) -> ToSet(t)]
    BY ListIs, LenProperties DEF IsList
  <2>2. s \in [1 .. Len(s) -> S] /\ t \in [1 .. Len(t) -> S]
    BY <2>1
  <2> QED BY <1>1, <2>2, SeqDef
<1> HIDE DEF S
<1>3. v \in Seq(S) /\ Len(v) = Len(s) + Len(t)
      /\ \A i \in 1 .. (Len(s) + Len(t)) : v[i] = IF i <= Len(s) THEN s[i] ELSE t[i - Len(s)]
  BY <1>2, ConcatProperties
<1>4. DOMAIN v = 1 .. (Len(s) + Len(t)) /\ IsList(v)
  BY <1>3, SeqIsList, LenProperties
<1>5. \A i \in 1 .. Len(s) : v[i] = s[i]
  <2>1. \A i \in 1 .. Len(s) : i \in 1 .. (Len(s) + Len(t)) /\ i <= Len(s)
    BY <1>1
  <2> QED BY <1>3, <2>1
<1>6. ASSUME NEW i \in 1 .. Len(t) PROVE v[Len(s) + i] = t[i]
  <2>1. Len(s) + i \in 1 .. (Len(s) + Len(t)) /\ ~(Len(s) + i <= Len(s)) /\ Len(s) + i - Len(s) = i
    BY <1>1
  <2> QED BY <1>3, <2>1
<1> QED BY <1>3, <1>4, <1>5, <1>6 DEF Joins

\* Lists one after the other are a list.
LEMMA FlattenIsList ==
  ASSUME NEW ss, IsList(ss), \A i \in 1 .. Len(ss) : IsList(ss[i])
  PROVE  IsList(FlattenSeq(ss))
<1> DEFINE n == Len(ss)
<1>1. n \in Nat
  BY ListIs
<1>2. CASE n = 0
  <2>1. FlattenSeq(ss) = ss
    BY <1>2 DEF FlattenSeq
  <2> QED BY <2>1
<1>3. CASE n # 0
  <2>1. PICK f : /\ FlattenSeq(ss) = f[n] /\ f[1] = ss[1]
                 /\ \A i \in 2 .. n : f[i] = f[i - 1] \o ss[i]
    BY <1>1, <1>3, FlattenIs
  <2> DEFINE G == {i \in 1 .. n : IsList(f[i])}
  <2>2. 1 \in G
    BY <1>1, <1>3, <2>1
  <2>3. ASSUME NEW i \in 1 .. n, i \in G, i < n PROVE i + 1 \in G
    <3>1. i + 1 \in 2 .. n /\ i + 1 \in 1 .. n /\ (i + 1) - 1 = i
      BY <1>1, <2>3
    <3>2. IsList(f[i]) /\ IsList(ss[i + 1])
      BY <2>3, <3>1
    <3>3. IsList(f[i] \o ss[i + 1])
      BY <3>2, JoinIs DEF Joins
    <3> QED BY <2>1, <3>1, <3>3
  <2> HIDE DEF G
  <2>4. \A i \in 1 .. n : i \in G
    BY <1>1, <2>2, <2>3, NumbersFromOne
  <2>5. n \in 1 .. n
    BY <1>1, <1>3
  <2> QED BY <2>1, <2>4, <2>5 DEF G
<1> QED BY <1>2, <1>3

\* The items of a conversation.
ItemsOK(items) == IsList(items) /\ \A i \in DOMAIN items : IsFiniteSet(DOMAIN items[i].parts)

\* An item belongs to one of five groups.
LEMMA GroupIs ==
  ASSUME NEW item
  PROVE  GroupOf(item) \in {"message", "tool_call", "tool_output", "reasoning", "opaque"}
<1>1. DOMAIN Groups = {"message", "tool_call", "tool_output", "reasoning", "opaque"}
  BY DEF Groups
<1>2. GroupOf(item) \in DOMAIN Groups \cup {"message", "opaque"}
  <2> HIDE DEF Groups
  <2> QED BY DEF GroupOf
<1> QED BY <1>1, <1>2

\* The artifacts of an item of the input are a list.
LEMMA ItemArtifactsAre ==
  ASSUME NEW inputs, ItemsOK(inputs), NEW i \in DOMAIN inputs
  PROVE  IsList(ItemArtifacts(inputs, i))
<1> DEFINE P == {p \in DOMAIN inputs[i].parts : inputs[i].parts[p] # None}
           n == Cardinality(P)
           texts == Ascending(P)
           own(k) == MessageArtifact(inputs[i].parts[texts[k]], RoleOf(inputs[i]), i, texts[k],
                                     IsTitleCandidate(inputs, i))
           messages == [k \in DOMAIN texts |-> own(k)]
<1>1. n \in Nat
  <2>1. IsFiniteSet(DOMAIN inputs[i].parts)
    BY DEF ItemsOK
  <2>2. IsFiniteSet(P)
    BY <2>1, FS_Subset
  <2> QED BY <2>2, FS_CardinalityType
<1>2. DOMAIN texts = 1 .. n
  <2> DEFINE R == {p \in P \X P : p[1] < p[2]}
             f == [k \in 1 .. n |-> CHOOSE x \in P : Cardinality({y \in P : <<y, x>> \in R}) = k - 1]
  <2>1. texts = SubSeq(f, 1, n)
    BY DEF Ascending, Sorted
  <2> HIDE DEF f, texts, n
  <2> QED BY <1>1, <2>1, SequenceOf
<1>3. MessageArtifacts(inputs, i) = messages
  BY DEF MessageArtifacts
<1> HIDE DEF n, own, texts
<1>4. messages = [k \in 1 .. n |-> messages[k]]
  BY <1>2
<1> HIDE DEF messages
<1>5. IsList(MessageArtifacts(inputs, i))
  BY <1>1, <1>3, <1>4, FunctionIsList
<1>6. IsList(OutputArtifacts(inputs, i))
  <2>1. OutputArtifacts(inputs, i) = <<>>
        \/ OutputArtifacts(inputs, i)
             = <<OutputArtifact(inputs[i], i, CallOf(inputs, inputs[i].call))>>
    BY DEF OutputArtifacts
  <2> QED BY <2>1, OneIsList, NoneIsList
<1>7. ASSUME NEW x, NEW y, NEW z,
             ItemArtifacts(inputs, i) \in {MessageArtifacts(inputs, i), OutputArtifacts(inputs, i),
                                           <<x>>, <<y>>, <<z>>}
      PROVE  IsList(ItemArtifacts(inputs, i))
  <2>1. IsList(<<x>>) /\ IsList(<<y>>) /\ IsList(<<z>>)
    BY OneIsList
  <2> QED BY <1>5, <1>6, <1>7, <2>1
<1> DEFINE item == inputs[i]
           call == CallArtifact(item, i)
           thought == OpaqueArtifact(item, i, <<"Reasoning state">>, "reasoning_state")
           other == OpaqueArtifact(item, i, <<"input", item.type, i>>, "unknown_input")
<1>8. ItemArtifacts(inputs, i) \in {MessageArtifacts(inputs, i), OutputArtifacts(inputs, i),
                                    <<call>>, <<thought>>, <<other>>}
  <2>1. GroupOf(item) \in {"message", "tool_call", "tool_output", "reasoning", "opaque"}
    BY GroupIs
  <2> DEFINE group == GroupOf(item)
  <2>2. ItemArtifacts(inputs, i)
          = CASE group = "message"     -> MessageArtifacts(inputs, i)
              [] group = "tool_call"   -> <<call>>
              [] group = "tool_output" -> OutputArtifacts(inputs, i)
              [] group = "reasoning"   -> <<thought>>
              [] group = "opaque"      -> <<other>>
    BY DEF ItemArtifacts
  <2> HIDE DEF group, call, thought, other
  <2>3. group \in {"message", "tool_call", "tool_output", "reasoning", "opaque"}
    BY <2>1 DEF group
  <2> QED BY <2>2, <2>3
<1> HIDE DEF call, thought, other
<1> QED BY <1>7, <1>8

\* A request as Codex sends it here: without instructions or tools of its own.
PayloadOK(payload) ==
  payload.instructions = None /\ payload.tools = <<>> /\ ItemsOK(payload.input)

\* The artifacts of a payload are a list.
LEMMA ExtractIs ==
  ASSUME NEW payload, PayloadOK(payload)
  PROVE  IsList(Extract(payload))
<1> DEFINE items == payload.input
           ss == [i \in DOMAIN items |-> ItemArtifacts(items, i)]
           tools == ToolArtifacts(payload)
<1>1. InstructionsArtifact(payload) = <<>>
  BY DEF InstructionsArtifact, PayloadOK
<1>2. IsList(tools)
  <2>1. DOMAIN tools = {}
    BY DEF ToolArtifacts, PayloadOK
  <2>2. tools = [t \in DOMAIN tools |-> tools[t]]
    BY DEF ToolArtifacts
  <2>3. 1 .. 0 = {}
    OBVIOUS
  <2> HIDE DEF tools
  <2>4. tools = [t \in 1 .. 0 |-> tools[t]]
    BY <2>1, <2>2, <2>3
  <2> QED BY <2>4, FunctionIsList
<1>3. IsList(ss) /\ \A i \in 1 .. Len(ss) : IsList(ss[i])
  <2>1. ItemsOK(items) /\ Len(items) \in Nat /\ DOMAIN items = 1 .. Len(items)
    BY ListIs DEF PayloadOK, ItemsOK
  <2>2. \A i \in 1 .. Len(items) : ss[i] = ItemArtifacts(items, i)
    BY <2>1
  <2>3. ss = [i \in 1 .. Len(items) |-> ss[i]]
    BY <2>1
  <2> HIDE DEF ss
  <2>4. IsList(ss) /\ Len(ss) = Len(items)
    BY <2>1, <2>3, FunctionIsList
  <2>5. \A i \in 1 .. Len(items) : IsList(ItemArtifacts(items, i))
    BY <2>1, ItemArtifactsAre
  <2> QED BY <2>2, <2>4, <2>5
<1> HIDE DEF ss, tools
<1>4. IsList(FlattenSeq(ss))
  BY <1>3, FlattenIsList
<1>5. IsList(<<>> \o tools)
  BY <1>2, NoneIsList, JoinIs DEF Joins
<1>6. IsList((<<>> \o tools) \o FlattenSeq(ss))
  BY <1>4, <1>5, JoinIs DEF Joins
<1>7. Extract(payload) = (<<>> \o tools) \o FlattenSeq(ss)
  BY <1>1 DEF Extract, tools, ss
<1> QED BY <1>6, <1>7

\* An artifact is recorded by an event of its request.
LEMMA ArtifactEventIs ==
  ASSUME NEW r \in Nat, NEW artifact, NEW index, NEW start, NEW m
  PROVE  /\ EventOK(ArtifactEvent(r, artifact, index, start, m, 0))
         /\ ArtifactEvent(r, artifact, index, start, m, 0).request = r
<1> DEFINE e == ArtifactEvent(r, artifact, index, start, m, 0)
<1>1. /\ e.kind = "artifact" /\ e.request = r /\ e.time = 0
      /\ {"kind", "request", "time"} \subseteq DOMAIN e
  BY DEF ArtifactEvent
<1> HIDE DEF e
<1>2. 0 \in 0 .. MaxClock
  BY RunAssumption
<1>3. EventOK(e)
  BY <1>1, <1>2 DEF EventOK
<1> QED BY <1>1, <1>3 DEF e

\* A turn is recorded by an event of its request.
LEMMA TurnEventOK ==
  ASSUME NEW r \in Requests_, NEW t \in TurnNames, NEW n \in 0 .. MaxClock
  PROVE  EventOK(TurnEvent(r, t, n))
<1> DEFINE e == TurnEvent(r, t, n)
<1>1. /\ e.kind = "turn" /\ e.request = r /\ e.time = n
      /\ {"kind", "request", "time"} \subseteq DOMAIN e
  BY TurnEventIs
<1>2. r \in Nat
  BY RunAssumption
<1>3. e = TurnEvent(r, t, e.time)
  BY <1>1
<1> HIDE DEF e
<1> QED BY <1>1, <1>2, <1>3 DEF EventOK, e

\* The events of a request, the first of which names its turn.
RecordingOK(list, r) == ListOK(list) /\ \A k \in DOMAIN list : list[k].request = r

\* recording.ts: what is appended for a request begins with its turn.
LEMMA RecordingIs ==
  ASSUME NEW r \in Requests_, NEW payload, PayloadOK(payload), NEW t \in TurnNames, NEW m
  PROVE  LET list == Recording(r, payload, t, m)
         IN  RecordingOK(list, r) /\ list # <<>> /\ list[1] = TurnEvent(r, t, 0)
<1> DEFINE a == Extract(payload)
           start(i) == FoldLeft(+, 0, [j \in 1..(i - 1) |-> TokenCount(a[j].content)])
           rest == [i \in DOMAIN a |-> ArtifactEvent(r, a[i], i, start(i), m, 0)]
           first == TurnEvent(r, t, 0)
           list == Recording(r, payload, t, m)
<1>1. Len(a) \in Nat /\ DOMAIN a = 1 .. Len(a)
  BY ExtractIs, ListIs
<1>2. list = <<first>> \o rest
  BY DEF Recording, EventsOf
<1>3. r \in Nat /\ 0 \in 0 .. MaxClock
  BY RunAssumption
<1>4. EventOK(first) /\ first.request = r
  BY <1>3, TurnEventOK, TurnEventIs
<1> HIDE DEF a, start, first
<1>5. \A i \in 1 .. Len(a) : EventOK(rest[i]) /\ rest[i].request = r
  <2>1. \A i \in 1 .. Len(a) : rest[i] = ArtifactEvent(r, a[i], i, start(i), m, 0)
    BY <1>1
  <2> HIDE DEF rest
  <2> QED BY <1>3, <2>1, ArtifactEventIs
<1>6. rest = [i \in 1 .. Len(a) |-> rest[i]]
  BY <1>1
<1> HIDE DEF rest, list
<1>7. IsList(rest) /\ Len(rest) = Len(a)
  BY <1>1, <1>6, FunctionIsList
<1>8. IsList(<<first>>) /\ Len(<<first>>) = 1 /\ <<first>>[1] = first
  BY OneIsList
<1>9. /\ IsList(list) /\ Len(list) = 1 + Len(a) /\ DOMAIN list = 1 .. (1 + Len(a))
      /\ list[1] = first /\ \A i \in 1 .. Len(a) : list[1 + i] = rest[i]
  <2> DEFINE head == <<first>>
  <2>1. 1 \in 1 .. 1
    OBVIOUS
  <2>2. IsList(head) /\ Len(head) = 1 /\ head[1] = first /\ list = head \o rest
    BY <1>2, <1>8
  <2> HIDE DEF head
  <2>3. Joins(list, head, rest)
    BY <1>7, <2>2, JoinIs
  <2>4. /\ IsList(list) /\ Len(list) = 1 + Len(a) /\ DOMAIN list = 1 .. (1 + Len(a))
        /\ list[1] = head[1]
    BY <1>7, <2>1, <2>2, <2>3 DEF Joins
  <2>5. \A i \in 1 .. Len(a) : list[1 + i] = rest[i]
    BY <1>7, <2>2, <2>3 DEF Joins
  <2> QED BY <2>2, <2>4, <2>5
<1>10. ASSUME NEW k \in DOMAIN list PROVE EventOK(list[k]) /\ list[k].request = r
  <2>1. k = 1 \/ (k - 1 \in 1 .. Len(a) /\ k = 1 + (k - 1))
    BY <1>1, <1>9
  <2>2. CASE k = 1
    BY <1>4, <1>9, <2>2
  <2>3. CASE k - 1 \in 1 .. Len(a) /\ k = 1 + (k - 1)
    <3>1. list[k] = rest[k - 1]
      BY <1>9, <2>3
    <3> QED BY <1>5, <2>3, <3>1
  <2> QED BY <2>1, <2>2, <2>3
<1>11. list # <<>>
  BY <1>1, <1>9, NoneIsList
<1>12. RecordingOK(list, r)
  BY <1>9, <1>10 DEF RecordingOK, ListOK
<1> QED BY <1>9, <1>11, <1>12 DEF list, first

-----------------------------------------------------------------------------
(***************************************************************************)
(* The invariant of a run.                                                 *)
(***************************************************************************)
\* The conversation is a list of items, with a turn for each prompt.
TalkOK ==
  ItemsOK(history) /\ IsList(asked) /\ Len(asked) <= Len(Prompts_) /\ covered \in Nat

\* What waits to be appended of a request are events of it.
RequestOK(r) ==
  /\ {"payload", "turn"} \subseteq DOMAIN requests[r]
  /\ requests[r].turn \in TurnNames /\ PayloadOK(requests[r].payload)
  /\ RecordingOK(recording[r], r)

\* The requests that were sent, and what is left to be recorded of them.
SentOK ==
  /\ DOMAIN recording = DOMAIN requests /\ DOMAIN requests \subseteq Requests_
  /\ \A r \in DOMAIN requests : RequestOK(r)

\* The file is a list of events up to now, of requests that were sent where they name a turn.
FileOK ==
  /\ clock \in 0 .. MaxClock
  /\ ListOK(events) /\ \A k \in DOMAIN events : events[k].time <= clock
  /\ \A k \in DOMAIN events : events[k].kind = "turn" => events[k].request \in DOMAIN requests
  /\ analysis = Analyze(events)

\* The turn of a request is the first that was recorded of it, or is about to be recorded.
TurnOK(r) ==
  IF HasTurn(events, r) THEN TurnFactOf(events, r).turn = requests[r].turn
  ELSE recording[r] # <<>> /\ recording[r][1] = TurnEvent(r, requests[r].turn, 0)

\* So it is with all of them.
TurnsOK == \A r \in DOMAIN requests : TurnOK(r)

\* The inductive invariant of a run.
RunInv == TalkOK /\ SentOK /\ FileOK /\ TurnsOK

-----------------------------------------------------------------------------
\* Items with one part, or with none.
LEMMA ItemsAre ==
  ASSUME NEW role, NEW text, NEW id
  PROVE  /\ IsFiniteSet(DOMAIN Message(role, text).parts)
         /\ IsFiniteSet(DOMAIN Call(id).parts) /\ IsFiniteSet(DOMAIN Output(id, text).parts)
<1>1. Message(role, text).parts = <<text>>
  BY DEF Message, Item
<1>2. Call(id).parts = <<>> /\ Output(id, text).parts = <<>>
  BY DEF Call, Output, Item
<1>3. DOMAIN <<text>> = 1 .. 1
  BY OneIsList, ListIs
<1>4. DOMAIN <<>> = 1 .. 0
  BY NoneIsList, ListIs
<1>5. IsFiniteSet(1 .. 1) /\ IsFiniteSet(1 .. 0)
  <2>1. \A n \in Nat : IsFiniteSet(1 .. n)
    BY FS_Interval
  <2> QED BY <2>1
<1> QED BY <1>1, <1>2, <1>3, <1>4, <1>5

\* A list of one item.
LEMMA OneItem ==
  ASSUME NEW x, IsFiniteSet(DOMAIN x.parts)
  PROVE  ItemsOK(<<x>>)
<1>1. IsList(<<x>>) /\ Len(<<x>>) = 1 /\ <<x>>[1] = x
  BY OneIsList
<1> DEFINE s == <<x>>
<1>2. IsList(s) /\ Len(s) = 1 /\ s[1] = x
  BY <1>1
<1> HIDE DEF s
<1>3. \A i \in DOMAIN s : s[i] = x
  BY <1>2, ListIs
<1>4. ItemsOK(s)
  BY <1>2, <1>3 DEF ItemsOK
<1> QED BY <1>4 DEF s

\* Items after items.
LEMMA MoreItems ==
  ASSUME NEW s, ItemsOK(s), NEW t, ItemsOK(t)
  PROVE  ItemsOK(s \o t)
<1> DEFINE v == s \o t
<1>1. Len(s) \in Nat /\ Len(t) \in Nat /\ DOMAIN s = 1 .. Len(s) /\ DOMAIN t = 1 .. Len(t)
  BY ListIs DEF ItemsOK
<1>2. Joins(v, s, t)
  BY JoinIs DEF ItemsOK
<1> HIDE DEF v
<1>3. ASSUME NEW i \in DOMAIN v PROVE IsFiniteSet(DOMAIN v[i].parts)
  <2>1. i \in 1 .. Len(s) \/ (i - Len(s) \in 1 .. Len(t) /\ i = Len(s) + (i - Len(s)))
    BY <1>1, <1>2 DEF Joins
  <2>2. CASE i \in 1 .. Len(s)
    <3>1. v[i] = s[i]
      BY <1>2, <2>2 DEF Joins
    <3> QED BY <1>1, <2>2, <3>1 DEF ItemsOK
  <2>3. CASE i - Len(s) \in 1 .. Len(t) /\ i = Len(s) + (i - Len(s))
    <3>1. v[i] = t[i - Len(s)]
      BY <1>2, <2>3 DEF Joins
    <3> QED BY <1>1, <2>3, <3>1 DEF ItemsOK
  <2> QED BY <2>1, <2>2, <2>3
<1>4. ItemsOK(v)
  BY <1>2, <1>3 DEF ItemsOK, Joins
<1> QED BY <1>4 DEF v

\* A list of two items.
LEMMA TwoItems ==
  ASSUME NEW x, NEW y, IsFiniteSet(DOMAIN x.parts), IsFiniteSet(DOMAIN y.parts)
  PROVE  ItemsOK(<<x, y>>)
<1> DEFINE s == <<x, y>>
<1>1. s \in Seq({x, y}) /\ Len(s) = 2 /\ s[1] = x /\ s[2] = y
  OBVIOUS
<1> HIDE DEF s
<1>2. IsList(s) /\ DOMAIN s = 1 .. 2
  BY <1>1, SeqIsList, ListIs
<1>3. \A i \in DOMAIN s : s[i] = x \/ s[i] = y
  BY <1>1, <1>2
<1>4. ItemsOK(s)
  BY <1>2, <1>3 DEF ItemsOK
<1> QED BY <1>4 DEF s

\* What a request leaves out of a conversation is at its beginning.
LEMMA ItemsFrom ==
  ASSUME NEW s, ItemsOK(s), NEW from \in Nat, from < Len(s)
  PROVE  ItemsOK(SubSeq(s, from + 1, Len(s)))
<1> DEFINE n == Len(s)
           t == SubSeq(s, from + 1, n)
<1>1. n \in Nat /\ DOMAIN s = 1 .. n /\ s \in Seq(ToSet(s))
  BY ListIs DEF ItemsOK, IsList
<1>2. /\ t \in Seq(ToSet(s)) /\ Len(t) = n - from
      /\ \A i \in 1 .. (n - from) : t[i] = s[from + 1 + i - 1]
  <2>1. from + 1 \in Int /\ n \in Int /\ from + 1 <= n /\ n - (from + 1) + 1 = n - from
    BY <1>1
  <2>2. \A i \in (from + 1) .. n : s[i] \in ToSet(s)
    <3>1. \A i \in (from + 1) .. n : i \in DOMAIN s
      BY <1>1
    <3> QED BY <3>1 DEF ToSet
  <2>3. /\ t \in Seq(ToSet(s)) /\ Len(t) = IF from + 1 <= n THEN n - (from + 1) + 1 ELSE 0
        /\ \A i \in 1 .. (n - (from + 1) + 1) : t[i] = s[(from + 1) + i - 1]
    BY <2>1, <2>2, SubSeqProperties
  <2> HIDE DEF t
  <2> QED BY <2>1, <2>3
<1> HIDE DEF t
<1>3. IsList(t) /\ DOMAIN t = 1 .. (n - from)
  BY <1>2, SeqIsList, LenProperties
<1>4. ASSUME NEW i \in DOMAIN t PROVE IsFiniteSet(DOMAIN t[i].parts)
  <2>1. from + 1 + i - 1 \in DOMAIN s
    BY <1>1, <1>3
  <2> QED BY <1>2, <1>3, <2>1 DEF ItemsOK
<1>5. ItemsOK(t)
  BY <1>3, <1>4 DEF ItemsOK
<1> QED BY <1>5 DEF t

\* An event that gets its time.
LEMMA Timed ==
  ASSUME NEW e, EventOK(e), NEW t \in 0 .. MaxClock, NEW x, x = [e EXCEPT !.time = t]
  PROVE  EventOK(x) /\ x.kind = e.kind /\ x.request = e.request /\ x.time = t
<1>1. /\ {"kind", "request", "time"} \subseteq DOMAIN x
      /\ x.kind = e.kind /\ x.request = e.request /\ x.time = t
  BY DEF EventOK
<1>2. ASSUME x.kind = "turn"
      PROVE  \E r \in Requests_, n \in TurnNames : x = TurnEvent(r, n, x.time)
  <2>1. PICK r \in Requests_, n \in TurnNames : e = TurnEvent(r, n, e.time)
    BY <1>1, <1>2 DEF EventOK
  <2>2. \A m : [TurnEvent(r, n, e.time) EXCEPT !.time = m] = TurnEvent(r, n, m)
    BY TurnEventIs
  <2>3. x = TurnEvent(r, n, t)
    BY <2>1, <2>2
  <2> QED BY <1>1, <2>3
<1>3. e.request \in Nat
  BY DEF EventOK
<1> QED BY <1>1, <1>2, <1>3 DEF EventOK

\* A request keeps its turn when the next event is recorded.
LEMMA TurnStays ==
  ASSUME ListOK(events), NEW x, EventOK(x), \A k \in DOMAIN events : events[k].time <= x.time,
         events' = Append(events, x),
         NEW r, TurnOK(r), requests'[r].turn = requests[r].turn,
         \/ HasTurn(events, r)
         \/ recording'[r] = recording[r] /\ ~(x.kind = "turn" /\ x.request = r)
  PROVE  TurnOK(r)'
<1>1. CASE HasTurn(events, r)
  <2>1. HasTurn(events', r) /\ TurnFactOf(events', r) = TurnFactOf(events, r)
    BY <1>1, FactStays
  <2> QED BY <1>1, <2>1 DEF TurnOK
<1>2. CASE ~HasTurn(events, r)
  <2>1. ~HasTurn(events', r)
    BY <1>2, FactBegins
  <2> QED BY <1>2, <2>1 DEF TurnOK
<1> QED BY <1>1, <1>2

-----------------------------------------------------------------------------
\* What moves nothing but the conversation and the clock.
LEMMA NothingRecorded ==
  ASSUME SentOK, FileOK, TurnsOK, UNCHANGED <<requests, recording, events, analysis>>,
         clock' \in clock .. MaxClock
  PROVE  SentOK' /\ FileOK' /\ TurnsOK'
<1>1. SentOK' /\ TurnsOK'
  BY DEF SentOK, RequestOK, TurnsOK, TurnOK, HasTurn
<1>2. clock' \in 0 .. MaxClock /\ clock <= clock'
  BY RunAssumption DEF FileOK
<1>3. \A k \in DOMAIN events : events[k].time <= clock'
  <2>1. ASSUME NEW k \in DOMAIN events PROVE events[k].time <= clock'
    <3>1. events[k].time \in Nat /\ events[k].time <= clock /\ clock \in Nat /\ clock' \in Nat
      BY <1>2, EventType DEF FileOK
    <3> QED BY <1>2, <3>1
  <2> QED BY <2>1
<1> QED BY <1>1, <1>2, <1>3 DEF FileOK

\* The prompts of the turns so far are no more than there are.
LEMMA AskKeeps ==
  ASSUME RunInv, Ask
  PROVE  RunInv'
<1> DEFINE prompt == Prompts_[Len(asked) + 1]
<1>1. ItemsOK(history')
  <2>1. history' = history \o <<Message("user", prompt)>>
    BY DEF Ask, Says
  <2>2. ItemsOK(<<Message("user", prompt)>>)
    BY ItemsAre, OneItem
  <2> HIDE DEF prompt
  <2> QED BY <2>1, <2>2, MoreItems DEF RunInv, TalkOK
<1>2. IsList(asked') /\ Len(asked') <= Len(Prompts_)
  <2>1. Len(asked) \in Nat /\ Len(Prompts_) \in Nat
    BY ListIs, RunAssumption DEF RunInv, TalkOK
  <2>2. asked' = Append(asked, prompt) /\ Len(asked) < Len(Prompts_)
    BY DEF Ask
  <2> HIDE DEF prompt
  <2>3. asked \in Seq(ToSet(asked) \cup {prompt})
    BY SeqMonotonic DEF RunInv, TalkOK, IsList
  <2>4. asked' \in Seq(ToSet(asked) \cup {prompt}) /\ Len(asked') = Len(asked) + 1
    BY <2>2, <2>3, AppendProperties
  <2>5. IsList(asked')
    BY <2>4, SeqIsList
  <2>6. Len(asked') <= Len(Prompts_)
    BY <2>1, <2>2, <2>4
  <2> QED BY <2>5, <2>6
<1>3. clock' \in clock .. MaxClock
  BY DEF Ask, RunInv, FileOK
<1>4. TalkOK'
  BY <1>1, <1>2 DEF Ask, RunInv, TalkOK
<1>5. SentOK' /\ FileOK' /\ TurnsOK'
  BY <1>3, NothingRecorded DEF Ask, Says, RunInv
<1> QED BY <1>4, <1>5 DEF RunInv

\* The calls that a response asks for are some of the calls there are.
LEMMA SomeCalls ==
  ASSUME NEW m \in DOMAIN CallIds, NEW n \in m .. Len(CallIds)
  PROVE  IsList(SubSeq(CallIds, m, n))
<1>1. DOMAIN CallIds = 1 .. Len(CallIds) /\ Len(CallIds) \in Nat /\ IsList(CallIds)
  BY RunAssumption, ListIs DEF IsList
<1>2. m \in Int /\ n \in Int /\ m <= n
  BY <1>1
<1>3. \A i \in m .. n : CallIds[i] \in ToSet(CallIds)
  <2>1. \A i \in m .. n : i \in DOMAIN CallIds
    BY <1>1
  <2> QED BY <2>1 DEF ToSet
<1>4. SubSeq(CallIds, m, n) \in Seq(ToSet(CallIds))
  BY <1>2, <1>3, SubSeqProperties
<1> QED BY <1>4, SeqIsList

\* An item for each of them.
LEMMA CallsAreItems ==
  ASSUME NEW calls, IsList(calls)
  PROVE  /\ ItemsOK([k \in DOMAIN calls |-> Call(calls[k])])
         /\ ItemsOK([k \in DOMAIN calls |-> Output(calls[k], calls[k])])
<1> DEFINE c == [k \in DOMAIN calls |-> Call(calls[k])]
           o == [k \in DOMAIN calls |-> Output(calls[k], calls[k])]
<1>1. Len(calls) \in Nat /\ DOMAIN calls = 1 .. Len(calls)
  BY ListIs
<1>2. /\ c \in [1 .. Len(calls) -> {c[k] : k \in 1 .. Len(calls)}]
      /\ o \in [1 .. Len(calls) -> {o[k] : k \in 1 .. Len(calls)}]
  BY <1>1
<1>3. /\ \A k \in DOMAIN calls : IsFiniteSet(DOMAIN c[k].parts)
      /\ \A k \in DOMAIN calls : IsFiniteSet(DOMAIN o[k].parts)
  BY ItemsAre
<1>4. DOMAIN c = DOMAIN calls /\ DOMAIN o = DOMAIN calls
  OBVIOUS
<1> HIDE DEF c, o
<1>5. IsList(c) /\ IsList(o)
  <2>1. \A S : \A s \in [1 .. Len(calls) -> S] : s \in Seq(S)
    BY <1>1
  <2> QED BY <1>2, <2>1, SeqIsList
<1>6. ItemsOK(c) /\ ItemsOK(o)
  BY <1>3, <1>4, <1>5 DEF ItemsOK
<1> QED BY <1>6 DEF c, o

\* Reply and UseTools keep the invariant.
LEMMA AnswerKeeps ==
  ASSUME RunInv, (\E text : Reply(text)) \/ (\E calls : IsList(calls) /\ UseTools(calls))
  PROVE  RunInv'
<1>1. PICK items : ItemsOK(items) /\ Says(items)
  <2>1. CASE \E text : Reply(text)
    <3>1. PICK text : Says(<<Message("assistant", text)>>)
      BY <2>1 DEF Reply
    <3> QED BY <3>1, ItemsAre, OneItem
  <2>2. CASE \E calls : IsList(calls) /\ UseTools(calls)
    <3>1. PICK calls : IsList(calls) /\ UseTools(calls)
      BY <2>2
    <3>2. Says([k \in DOMAIN calls |-> Call(calls[k])] \o
              [k \in DOMAIN calls |-> Output(calls[k], calls[k])])
      BY <3>1 DEF UseTools
    <3>3. /\ ItemsOK([k \in DOMAIN calls |-> Call(calls[k])])
          /\ ItemsOK([k \in DOMAIN calls |-> Output(calls[k], calls[k])])
      BY <3>1, CallsAreItems
    <3> QED BY <3>2, <3>3, MoreItems
  <2> QED BY <2>1, <2>2
<1>2. covered' \in Nat /\ UNCHANGED <<asked, clock>>
  <2>1. Len(history) \in Nat
    BY ListIs DEF RunInv, TalkOK, ItemsOK
  <2>2. CASE \E text : Reply(text)
    BY <2>1, <2>2 DEF Reply
  <2>3. CASE \E calls : IsList(calls) /\ UseTools(calls)
    BY <2>1, <2>3, ListIs DEF UseTools
  <2> QED BY <2>2, <2>3
<1>3. TalkOK'
  <2>1. ItemsOK(history')
    BY <1>1, MoreItems DEF Says, RunInv, TalkOK
  <2> QED BY <1>2, <2>1 DEF RunInv, TalkOK
<1>4. clock' \in clock .. MaxClock
  BY <1>2 DEF RunInv, FileOK
<1>5. SentOK' /\ FileOK' /\ TurnsOK'
  BY <1>1, <1>4, NothingRecorded DEF Says, RunInv
<1> QED BY <1>3, <1>5 DEF RunInv

\* So does Restart.
LEMMA RestartKeeps ==
  ASSUME RunInv, NEW m, Restart(m)
  PROVE  RunInv'
<1>1. TalkOK'
  BY DEF RunInv, TalkOK, Restart, conversation
<1>2. clock' \in clock .. MaxClock
  BY DEF RunInv, FileOK, Restart
<1>3. SentOK' /\ FileOK' /\ TurnsOK'
  BY <1>2, NothingRecorded DEF Restart, RunInv
<1> QED BY <1>1, <1>3 DEF RunInv

\* What touches neither the file nor what waits for it, nor the payload and turn of a request.
LEMMA SameRequests ==
  ASSUME SentOK, FileOK, TurnsOK, UNCHANGED <<clock, events, analysis>>,
         DOMAIN requests' = DOMAIN requests, DOMAIN recording' = DOMAIN recording,
         \A r \in DOMAIN requests :
           /\ {"payload", "turn"} \subseteq DOMAIN requests'[r]
           /\ requests'[r].payload = requests[r].payload /\ requests'[r].turn = requests[r].turn
           /\ \/ recording'[r] = recording[r]
              \/ HasTurn(events, r) /\ RecordingOK(recording'[r], r)
  PROVE  SentOK' /\ FileOK' /\ TurnsOK'
<1>1. FileOK'
  BY DEF FileOK
<1>2. SentOK'
  <2>1. ASSUME NEW r \in DOMAIN requests PROVE RequestOK(r)'
    BY DEF SentOK, RequestOK
  <2> QED BY <2>1 DEF SentOK
<1>3. TurnsOK'
  <2>1. ASSUME NEW r \in DOMAIN requests PROVE TurnOK(r)'
    <3>1. TurnOK(r)
      BY DEF TurnsOK
    <3> QED BY <3>1 DEF TurnOK
  <2> QED BY <2>1 DEF TurnsOK
<1> QED BY <1>1, <1>2, <1>3

\* So does Compact.
LEMMA CompactKeeps ==
  ASSUME RunInv, NEW text, Compact(text)
  PROVE  RunInv'
<1>1. TalkOK'
  <2>1. ItemsOK(<<Message("assistant", text), Message("user", Last(asked))>>)
    BY ItemsAre, TwoItems
  <2> QED BY <2>1 DEF Compact, RunInv, TalkOK
<1>2. requests' = [r \in DOMAIN requests |-> [requests[r] EXCEPT !.until = 0]]
      /\ UNCHANGED <<recording, clock, events, analysis>>
  BY DEF Compact
<1>3. ASSUME NEW r \in DOMAIN requests
      PROVE  /\ {"payload", "turn"} \subseteq DOMAIN requests'[r]
             /\ requests'[r].payload = requests[r].payload /\ requests'[r].turn = requests[r].turn
  <2>1. {"payload", "turn"} \subseteq DOMAIN requests[r]
    BY DEF RunInv, SentOK, RequestOK
  <2> QED BY <1>2, <2>1
<1>4. SentOK' /\ FileOK' /\ TurnsOK'
  BY <1>2, <1>3, SameRequests DEF RunInv
<1> QED BY <1>1, <1>4 DEF RunInv

\* The turn that is going on has a name.
LEMMA CurrentTurnIs ==
  ASSUME TalkOK
  PROVE  CurrentTurn \in TurnNames
<1>1. CASE asked = <<>>
  BY <1>1 DEF CurrentTurn, TurnNames
<1>2. CASE asked # <<>>
  <2>1. Len(asked) \in Nat /\ Len(Prompts_) <= Len(TurnIds) /\ Len(TurnIds) \in Nat
        /\ Len(Prompts_) \in Nat /\ DOMAIN TurnIds = 1 .. Len(TurnIds)
    BY ListIs, RunAssumption DEF TalkOK, IsList
  <2>2. Len(asked) # 0
    BY <1>2, <2>1, EmptySeq DEF TalkOK, IsList
  <2>3. Len(asked) \in DOMAIN TurnIds
    BY <2>1, <2>2 DEF TalkOK
  <2> QED BY <1>2, <2>3 DEF CurrentTurn, TurnNames, ToSet
<1> QED BY <1>1, <1>2

\* A retry records the turn that is going on, which does not become the first of its request.
LEMMA RetryKeeps ==
  ASSUME RunInv, NEW r \in DOMAIN requests, Retry(r)
  PROVE  RunInv'
<1> DEFINE again == Recording(r, requests[r].payload, CurrentTurn, mode)
<1>1. /\ recording[r] = <<>>
      /\ requests' = [requests EXCEPT ![r].times = @ + 1]
      /\ recording' = [recording EXCEPT ![r] = again]
      /\ UNCHANGED <<history, asked, covered, clock, events, analysis>>
  BY DEF Retry, conversation
<1>2. TalkOK'
  BY <1>1 DEF RunInv, TalkOK
<1>3. RecordingOK(again, r)
  <2>1. r \in Requests_ /\ PayloadOK(requests[r].payload)
    BY DEF RunInv, SentOK, RequestOK
  <2>2. CurrentTurn \in TurnNames
    BY CurrentTurnIs DEF RunInv
  <2> QED BY <2>1, <2>2, RecordingIs
<1>4. HasTurn(events, r)
  <2>1. TurnOK(r)
    BY DEF RunInv, TurnsOK
  <2> QED BY <1>1, <2>1 DEF TurnOK
<1> HIDE DEF again
<1>5. DOMAIN requests' = DOMAIN requests /\ DOMAIN recording' = DOMAIN recording
      /\ r \in DOMAIN recording
  BY <1>1 DEF RunInv, SentOK
<1>6. ASSUME NEW q \in DOMAIN requests
      PROVE  /\ {"payload", "turn"} \subseteq DOMAIN requests'[q]
             /\ requests'[q].payload = requests[q].payload /\ requests'[q].turn = requests[q].turn
             /\ \/ recording'[q] = recording[q]
                \/ HasTurn(events, q) /\ RecordingOK(recording'[q], q)
  <2>1. {"payload", "turn"} \subseteq DOMAIN requests[q]
    BY DEF RunInv, SentOK, RequestOK
  <2>2. CASE q = r
    <3>1. requests'[q] = [requests[q] EXCEPT !.times = @ + 1]
      BY <1>1, <2>2
    <3>2. recording'[q] = again
      BY <1>1, <1>5, <2>2
    <3> QED BY <1>3, <1>4, <2>1, <2>2, <3>1, <3>2
  <2>3. CASE q # r
    <3>1. requests'[q] = requests[q] /\ recording'[q] = recording[q]
      <4>1. q \in DOMAIN recording
        BY DEF RunInv, SentOK
      <4> QED BY <1>1, <2>3, <4>1
    <3> QED BY <2>1, <3>1
  <2> QED BY <2>2, <2>3
<1>7. SentOK' /\ FileOK' /\ TurnsOK'
  BY <1>1, <1>5, <1>6, SameRequests DEF RunInv
<1> QED BY <1>2, <1>7 DEF RunInv

\* A request that is sent waits with the event that names its turn.
LEMMA SendKeeps ==
  ASSUME RunInv, NEW r \in Requests_, NEW from \in {0, covered},
         NEW turn \in {CurrentTurn} \cup NoTurn, Send(r, from, turn)
  PROVE  RunInv'
<1> DEFINE payload == [instructions |-> None, tools |-> <<>>,
                       input |-> SubSeq(history, from + 1, Len(history))]
           sent == [payload |-> payload, turn |-> turn, whole |-> from = 0,
                    until |-> Len(history), times |-> 1]
           list == Recording(r, payload, turn, mode)
<1>1. /\ r \notin DOMAIN requests /\ from < Len(history)
      /\ requests' = Put(requests, r, sent) /\ recording' = Put(recording, r, list)
      /\ UNCHANGED <<history, asked, covered, clock, events, analysis>>
  BY DEF Send, conversation
<1>2. TalkOK'
  BY <1>1 DEF RunInv, TalkOK
<1>3. turn \in TurnNames
  <2>1. CurrentTurn \in TurnNames
    BY CurrentTurnIs DEF RunInv
  <2> QED BY <2>1 DEF TurnNames
<1>4. PayloadOK(payload)
  <2>1. from \in Nat /\ ItemsOK(history)
    BY DEF RunInv, TalkOK
  <2>2. ItemsOK(SubSeq(history, from + 1, Len(history)))
    BY <1>1, <2>1, ItemsFrom
  <2> QED BY <2>2 DEF PayloadOK
<1> HIDE DEF payload
<1>5. RecordingOK(list, r) /\ list # <<>> /\ list[1] = TurnEvent(r, turn, 0)
  BY <1>3, <1>4, RecordingIs
<1>6. {"payload", "turn"} \subseteq DOMAIN sent /\ sent.payload = payload /\ sent.turn = turn
  OBVIOUS
<1> HIDE DEF sent, list
<1>7. /\ DOMAIN requests' = DOMAIN requests \cup {r} /\ requests'[r] = sent
      /\ DOMAIN recording' = DOMAIN recording \cup {r} /\ recording'[r] = list
      /\ \A q \in DOMAIN requests : requests'[q] = requests[q] /\ recording'[q] = recording[q]
  <2>1. DOMAIN recording = DOMAIN requests
    BY DEF RunInv, SentOK
  <2> QED BY <1>1, <2>1 DEF Put
<1>8. SentOK'
  <2>1. ASSUME NEW q \in DOMAIN requests' PROVE RequestOK(q)'
    <3>1. CASE q = r
      BY <1>3, <1>4, <1>5, <1>6, <1>7, <3>1 DEF RequestOK
    <3>2. CASE q # r
      <4>1. RequestOK(q) /\ requests'[q] = requests[q] /\ recording'[q] = recording[q]
        BY <1>7, <3>2 DEF RunInv, SentOK
      <4> QED BY <4>1 DEF RequestOK
    <3> QED BY <3>1, <3>2
  <2> QED BY <1>7, <2>1 DEF RunInv, SentOK
<1>9. FileOK'
  BY <1>1, <1>7 DEF RunInv, FileOK
<1>10. TurnsOK'
  <2>1. ASSUME NEW q \in DOMAIN requests' PROVE TurnOK(q)'
    <3>1. CASE q = r
      <4>1. ~HasTurn(events, r)
        BY <1>1 DEF RunInv, FileOK, HasTurn
      <4> QED BY <1>1, <1>5, <1>6, <1>7, <3>1, <4>1 DEF TurnOK
    <3>2. CASE q # r
      <4>1. TurnOK(q) /\ requests'[q] = requests[q] /\ recording'[q] = recording[q]
        BY <1>7, <3>2 DEF RunInv, TurnsOK
      <4> QED BY <1>1, <4>1 DEF TurnOK
    <3> QED BY <3>1, <3>2
  <2> QED BY <2>1 DEF TurnsOK
<1> QED BY <1>2, <1>8, <1>9, <1>10 DEF RunInv

-----------------------------------------------------------------------------
\* An event that is recorded is the last of the list, and the latest.
Recorded(x, time) ==
  /\ EventOK(x) /\ x.time = time /\ events' = Append(events, x)
  /\ \A k \in DOMAIN events : events[k].time <= x.time

\* An event that is recorded gets its time and is the last of the file.
LEMMA RecordIs ==
  ASSUME FileOK, NEW e, EventOK(e), NEW time, Record(e, time)
  PROVE  /\ Recorded([e EXCEPT !.time = time], time)
         /\ [e EXCEPT !.time = time].kind = e.kind
         /\ [e EXCEPT !.time = time].request = e.request
<1> DEFINE x == [e EXCEPT !.time = time]
<1>1. clock \in Nat /\ time \in 0 .. MaxClock /\ clock <= time
  BY RunAssumption DEF FileOK, Record
<1>2. EventOK(x) /\ x.kind = e.kind /\ x.request = e.request /\ x.time = time
  BY <1>1, Timed
<1>3. events' = Append(events, x)
  BY DEF Record
<1>4. \A k \in DOMAIN events : events[k].time <= time
  <2>1. ASSUME NEW k \in DOMAIN events PROVE events[k].time <= time
    <3>1. events[k].time \in Nat /\ events[k].time <= clock
      BY EventType DEF FileOK
    <3> QED BY <1>1, <3>1
  <2> QED BY <2>1
<1> HIDE DEF x
<1>5. Recorded(x, time)
  BY <1>2, <1>3, <1>4 DEF Recorded
<1> QED BY <1>2, <1>5 DEF x

\* The file stays a list of events up to now.
LEMMA RecordKeeps ==
  ASSUME FileOK, NEW e, EventOK(e), NEW time, Record(e, time), requests' = requests,
         e.kind = "turn" => e.request \in DOMAIN requests
  PROVE  FileOK'
<1> DEFINE x == [e EXCEPT !.time = time]
<1>1. Recorded(x, time) /\ x.kind = e.kind /\ x.request = e.request
  BY RecordIs
<1>2. clock' = time /\ time \in 0 .. MaxClock /\ analysis' = Analyze(events')
  BY RunAssumption DEF FileOK, Record
<1> HIDE DEF x
<1>3. /\ ListOK(events') /\ Len(events) \in Nat /\ DOMAIN events = 1 .. Len(events)
      /\ DOMAIN events' = 1 .. (Len(events) + 1)
      /\ events'[Len(events) + 1] = x /\ \A k \in 1 .. Len(events) : events'[k] = events[k]
  BY <1>1, AppendIs, ListIs DEF Recorded, FileOK, ListOK
<1>4. ASSUME NEW k \in DOMAIN events'
      PROVE  events'[k].time <= clock' /\ (events'[k].kind = "turn" => events'[k].request \in DOMAIN requests')
  <2>1. k \in 1 .. Len(events) \/ k = Len(events) + 1
    BY <1>3
  <2>2. CASE k \in 1 .. Len(events)
    <3>1. events'[k] = events[k] /\ k \in DOMAIN events
      BY <1>3, <2>2
    <3>2. events[k].time <= time
      BY <1>1, <3>1 DEF Recorded
    <3> QED BY <1>2, <3>1, <3>2 DEF FileOK
  <2>3. CASE k = Len(events) + 1
    <3>1. events'[k] = x /\ x.time = time /\ time \in Int
      BY <1>1, <1>2, <1>3, <2>3 DEF Recorded
    <3> QED BY <1>1, <1>2, <3>1
  <2> QED BY <2>1, <2>2, <2>3
<1> QED BY <1>2, <1>3, <1>4 DEF FileOK

\* What is no turn event changes no turn.
LEMMA OtherEventKeeps ==
  ASSUME RunInv, NEW e, EventOK(e), e.kind # "turn", NEW time, Record(e, time),
         UNCHANGED <<history, asked, covered, requests, recording>>
  PROVE  RunInv'
<1> DEFINE x == [e EXCEPT !.time = time]
<1>1. Recorded(x, time) /\ x.kind # "turn"
  BY RecordIs DEF RunInv
<1> HIDE DEF x
<1>2. FileOK'
  BY RecordKeeps DEF RunInv
<1>3. TalkOK' /\ SentOK'
  BY DEF RunInv, TalkOK, SentOK, RequestOK
<1>4. TurnsOK'
  <2>1. ASSUME NEW r \in DOMAIN requests PROVE TurnOK(r)'
    <3>1. TurnOK(r) /\ ListOK(events)
      BY DEF RunInv, TurnsOK, FileOK
    <3> QED BY <1>1, <3>1, TurnStays DEF Recorded
  <2> QED BY <2>1 DEF TurnsOK
<1> QED BY <1>2, <1>3, <1>4 DEF RunInv

\* A usage is recorded by an event that is no turn.
LEMMA UsageEventIs ==
  ASSUME NEW r \in Nat, NEW u
  PROVE  EventOK(UsageEvent(r, u, 0)) /\ UsageEvent(r, u, 0).kind # "turn"
<1> DEFINE e == UsageEvent(r, u, 0)
<1>1. /\ e.kind = "usage" /\ e.request = r /\ e.time = 0
      /\ {"kind", "request", "time"} \subseteq DOMAIN e
  BY DEF UsageEvent
<1> HIDE DEF e
<1>2. EventOK(e) /\ e.kind # "turn"
  BY <1>1, RunAssumption DEF EventOK
<1> QED BY <1>2 DEF e

\* So is what is recorded by hand.
LEMMA HandEventIs ==
  ASSUME NEW r \in Nat, NEW text
  PROVE  /\ EventOK(HandEvent(r, "file", text, "preview", 0))
         /\ HandEvent(r, "file", text, "preview", 0).kind # "turn"
<1> DEFINE e == HandEvent(r, "file", text, "preview", 0)
<1>1. /\ e.kind = "artifact" /\ e.request = r /\ e.time = 0
      /\ {"kind", "request", "time"} \subseteq DOMAIN e
  BY DEF HandEvent
<1> HIDE DEF e
<1>2. EventOK(e) /\ e.kind # "turn"
  BY <1>1, RunAssumption DEF EventOK
<1> QED BY <1>2 DEF e

\* Report keeps the invariant.
LEMMA ReportKeeps ==
  ASSUME RunInv, NEW r \in DOMAIN requests, NEW u, NEW t, Report(r, u, t)
  PROVE  RunInv'
<1>1. r \in Nat
  BY RunAssumption DEF RunInv, SentOK
<1>2. EventOK(UsageEvent(r, u, 0)) /\ UsageEvent(r, u, 0).kind # "turn"
  BY <1>1, UsageEventIs
<1>3. Record(UsageEvent(r, u, 0), t) /\ UNCHANGED <<history, asked, covered, requests, recording>>
  BY DEF Report, conversation
<1> QED BY <1>2, <1>3, OtherEventKeeps

\* So does RecordByHand.
LEMMA RecordByHandKeeps ==
  ASSUME RunInv, NEW r \in Hand \cup Requests_, NEW text, NEW t, RecordByHand(r, text, t)
  PROVE  RunInv'
<1>1. r \in Nat
  BY RunAssumption
<1>2. /\ EventOK(HandEvent(r, "file", text, "preview", 0))
      /\ HandEvent(r, "file", text, "preview", 0).kind # "turn"
  BY <1>1, HandEventIs
<1>3. /\ Record(HandEvent(r, "file", text, "preview", 0), t)
      /\ UNCHANGED <<history, asked, covered, requests, recording>>
  BY DEF RecordByHand, conversation
<1> QED BY <1>2, <1>3, OtherEventKeeps

\* The next event of a recording, and those after it.
LEMMA RestIs ==
  ASSUME NEW list, NEW r, RecordingOK(list, r), list # <<>>
  PROVE  /\ EventOK(Head(list)) /\ Head(list).request = r /\ Head(list) = list[1]
         /\ RecordingOK(Tail(list), r)
<1> DEFINE n == Len(list)
           rest == Tail(list)
<1>1. n \in Nat /\ DOMAIN list = 1 .. n /\ list \in Seq(ToSet(list))
  BY ListIs DEF RecordingOK, ListOK, IsList
<1>2. n # 0
  BY <1>1, EmptySeq
<1>3. Head(list) = list[1] /\ 1 \in DOMAIN list
  BY <1>1, <1>2
<1>4. /\ rest \in Seq(ToSet(list)) /\ Len(rest) = n - 1
      /\ \A i \in 1 .. Len(rest) : rest[i] = list[i + 1]
  BY <1>1, HeadTailProperties
<1> HIDE DEF rest
<1>5. IsList(rest) /\ DOMAIN rest = 1 .. (n - 1)
  BY <1>4, SeqIsList, LenProperties
<1>6. \A i \in DOMAIN rest : i + 1 \in DOMAIN list /\ rest[i] = list[i + 1]
  BY <1>1, <1>4, <1>5
<1>7. RecordingOK(rest, r)
  BY <1>5, <1>6 DEF RecordingOK, ListOK
<1> QED BY <1>3, <1>7 DEF RecordingOK, ListOK, rest

\* The event that names the turn is the first of those of a request.
LEMMA AppendNextKeeps ==
  ASSUME RunInv, NEW r \in DOMAIN requests, NEW t, AppendNext(r, t)
  PROVE  RunInv'
<1> DEFINE e == Head(recording[r])
           x == [e EXCEPT !.time = t]
<1>1. /\ recording[r] # <<>> /\ Record(e, t)
      /\ recording' = [recording EXCEPT ![r] = Tail(@)]
      /\ UNCHANGED <<history, asked, covered, requests>>
  BY DEF AppendNext, conversation
<1>2. RecordingOK(recording[r], r) /\ requests[r].turn \in TurnNames /\ r \in Requests_
  BY DEF RunInv, SentOK, RequestOK
<1>3. EventOK(e) /\ e.request = r /\ e = recording[r][1] /\ RecordingOK(Tail(recording[r]), r)
  BY <1>1, <1>2, RestIs
<1> HIDE DEF e
<1>4. Recorded(x, t) /\ x.kind = e.kind /\ x.request = r
  BY <1>1, <1>3, RecordIs DEF RunInv
<1>5. FileOK'
  BY <1>1, <1>3, RecordKeeps DEF RunInv
<1>6. DOMAIN recording = DOMAIN requests
  BY DEF RunInv, SentOK
<1>7. \A q \in DOMAIN requests : recording'[q] = IF q = r THEN Tail(recording[r]) ELSE recording[q]
  BY <1>1, <1>6
<1>8. TalkOK' /\ SentOK'
  <2>1. ASSUME NEW q \in DOMAIN requests PROVE RequestOK(q)'
    <3>1. RequestOK(q)
      BY DEF RunInv, SentOK
    <3> QED BY <1>1, <1>3, <1>7, <3>1 DEF RequestOK
  <2> QED BY <1>1, <1>6, <2>1 DEF RunInv, TalkOK, SentOK
<1>9. TurnsOK'
  <2>1. ASSUME NEW q \in DOMAIN requests PROVE TurnOK(q)'
    <3>1. TurnOK(q) /\ ListOK(events)
      BY DEF RunInv, TurnsOK, FileOK
    <3>2. CASE HasTurn(events, q)
      <4> HIDE DEF x
      <4> QED BY <1>1, <1>4, <3>1, <3>2, TurnStays DEF Recorded
    <3>3. CASE q # r
      <4> HIDE DEF x
      <4> QED BY <1>1, <1>4, <1>7, <3>1, <3>3, TurnStays DEF Recorded
    <3>4. CASE q = r /\ ~HasTurn(events, q)
      <4>1. e = TurnEvent(r, requests[r].turn, 0)
        BY <1>3, <3>1, <3>4 DEF TurnOK
      <4>2. x = TurnEvent(r, requests[r].turn, t)
        BY <4>1, TurnEventIs
      <4> HIDE DEF x
      <4>3. x.kind = "turn" /\ x.turn = requests[r].turn
        BY <4>2, TurnEventIs
      <4>4. HasTurn(events', r) /\ TurnFactOf(events', r) = x
        BY <1>4, <3>1, <3>4, <4>3, FactBegins DEF Recorded
      <4> QED BY <1>1, <3>4, <4>3, <4>4 DEF TurnOK
    <3> QED BY <3>2, <3>3, <3>4
  <2> QED BY <1>1, <2>1 DEF TurnsOK
<1> QED BY <1>5, <1>8, <1>9 DEF RunInv

\* The invariant holds at first.
LEMMA InitKeeps ==
  ASSUME Init
  PROVE  RunInv
<1>1. /\ history = <<>> /\ asked = <<>> /\ covered = 0 /\ requests = <<>> /\ recording = <<>>
      /\ clock = 0 /\ events = <<>> /\ analysis = Analyze(<<>>)
  BY DEF Init
<1>2. IsList(<<>>) /\ Len(<<>>) = 0 /\ DOMAIN <<>> = {}
  <2>1. DOMAIN <<>> = {}
    OBVIOUS
  <2> QED BY <2>1, NoneIsList
<1>3. MaxClock \in Nat /\ Len(Prompts_) \in Nat
  BY RunAssumption
<1>4. TalkOK
  BY <1>1, <1>2, <1>3 DEF TalkOK, ItemsOK
<1>5. SentOK /\ TurnsOK
  BY <1>1, <1>2 DEF SentOK, TurnsOK
<1>6. ListOK(<<>>)
  BY <1>2 DEF ListOK
<1>7. FileOK
  BY <1>1, <1>2, <1>3, <1>6 DEF FileOK
<1> QED BY <1>4, <1>5, <1>7 DEF RunInv

\* Every step keeps it.
LEMMA StepKeeps ==
  ASSUME RunInv, [Next]_vars
  PROVE  RunInv'
<1>1. CASE Ask
  BY <1>1, AskKeeps
<1>2. ASSUME NEW text, Reply(text) \/ Compact(text) PROVE RunInv'
  BY <1>2, AnswerKeeps, CompactKeeps
<1>3. ASSUME NEW m \in DOMAIN CallIds, NEW n \in m .. Len(CallIds), UseTools(SubSeq(CallIds, m, n))
      PROVE  RunInv'
  <2>1. IsList(SubSeq(CallIds, m, n))
    BY SomeCalls
  <2> QED BY <1>3, <2>1, AnswerKeeps
<1>4. ASSUME NEW r \in Requests_, NEW from \in {0, covered}, NEW turn \in {CurrentTurn} \cup NoTurn,
             Send(r, from, turn)
      PROVE  RunInv'
  BY <1>4, SendKeeps
<1>5. ASSUME NEW r \in DOMAIN requests, Retry(r) PROVE RunInv'
  BY <1>5, RetryKeeps
<1>6. ASSUME NEW r \in DOMAIN requests, NEW t, AppendNext(r, t) PROVE RunInv'
  BY <1>6, AppendNextKeeps
<1>7. ASSUME NEW r \in DOMAIN requests, NEW u, NEW t, Report(r, u, t) PROVE RunInv'
  BY <1>7, ReportKeeps
<1>8. ASSUME NEW r \in Hand \cup Requests_, NEW text, NEW t, RecordByHand(r, text, t) PROVE RunInv'
  BY <1>8, RecordByHandKeeps
<1>9. ASSUME NEW m, Restart(m) PROVE RunInv'
  BY <1>9, RestartKeeps
<1>10. CASE UNCHANGED vars
  <2>1. UNCHANGED <<history, asked, covered, requests, recording, clock, events, analysis>>
    BY <1>10 DEF vars
  <2> QED BY <2>1 DEF RunInv, TalkOK, SentOK, RequestOK, FileOK, TurnsOK, TurnOK, HasTurn
<1> QED BY <1>1, <1>2, <1>3, <1>4, <1>5, <1>6, <1>7, <1>8, <1>9, <1>10 DEF Next

\* The invariant of a run holds.
THEOREM RunInvariance == Spec => []RunInv
<1>1. Init => RunInv
  BY InitKeeps
<1>2. RunInv /\ [Next]_vars => RunInv'
  BY StepKeeps
<1> QED BY <1>1, <1>2, PTL DEF Spec

\* Turns and tasks divide the requests.
THEOREM RequestsStayTiled == Spec => []RequestsAreTiled
<1>1. RunInv => RequestsAreTiled
  <2> SUFFICES ASSUME RunInv PROVE RequestsAreTiled
    OBVIOUS
  <2>1. ListOK(events) /\ analysis = Analyze(events)
    BY DEF RunInv, FileOK
  <2>2. TasksTileRequests
    BY <2>1, TasksAreTiled
  <2>3. \A r \in DOMAIN requests : TurnIsKept(r)
    BY DEF RunInv, TurnsOK, TurnOK, TurnIsKept
  <2>4. TurnsTileRequests
    BY <2>1, <2>3, TurnsAreTiled
  <2> QED BY <2>2, <2>4 DEF RequestsAreTiled
<1> QED BY <1>1, RunInvariance, PTL

\* A request that has a row goes on to have one.
HasRow(rows, r) == \E j \in 1 .. Len(rows) : rows[j].request = r

\* A request that has a row has one after another event.
LEMMA RowsStay ==
  ASSUME NEW list, ListOK(list), NEW x, EventOK(x), NEW more, more = Append(list, x),
         NEW an, Divides(an, list), NEW later, Divides(later, more), NEW k \in 1 .. Len(an.rows)
  PROVE  HasRow(later.rows, an.rows[k].request)
<1>1. PICK e \in Accounted(list) : an.rows[k].request = list[e].request
  BY DEF Divides, RowsTile
<1>2. /\ Len(list) \in Nat /\ DOMAIN list = 1 .. Len(list) /\ DOMAIN more = 1 .. (Len(list) + 1)
      /\ \A i \in 1 .. Len(list) : more[i] = list[i]
  BY AppendIs, ListIs DEF ListOK
<1>3. e \in Accounted(more) /\ more[e].request = an.rows[k].request
  <2>1. e \in 1 .. Len(list) /\ e \in 1 .. (Len(list) + 1)
    BY <1>1, <1>2 DEF Accounted, PlacesOf
  <2>2. more[e] = list[e]
    BY <1>2, <2>1
  <2> QED BY <1>1, <1>2, <2>1, <2>2 DEF Accounted, PlacesOf
<1> DEFINE rows == later.rows
<1>4. RowsTile(rows, more)
  BY DEF Divides
<1> HIDE DEF rows
<1>5. \E j \in 1 .. Len(rows) : rows[j].request = more[e].request
  BY <1>3, <1>4 DEF RowsTile
<1> QED BY <1>3, <1>5 DEF HasRow, rows

\* What is recorded later moves no request to another turn.
LEMMA ShownTurnsStay ==
  ASSUME FileOK, NEW x, NEW time, Recorded(x, time), FileOK',
         NEW k \in 1 .. Len(analysis.rows), HasTurn(events, analysis.rows[k].request)
  PROVE  ShownTurns(analysis, analysis.rows[k].request)
           = ShownTurns(analysis', analysis.rows[k].request)
<1> DEFINE r == analysis.rows[k].request
<1>1. /\ Divides(analysis, events) /\ Divides(analysis', events') /\ ListOK(events)
      /\ events' = Append(events, x) /\ EventOK(x)
  BY AnalyzeDivides DEF FileOK, Recorded
<1>2. HasRow(analysis'.rows, r)
  BY <1>1, RowsStay
<1>3. ShownTurns(analysis, r) = {KeyOf(events, r)}
  BY <1>1, ShownTurnIs
<1>4. ShownTurns(analysis', r) = {KeyOf(events', r)}
  <2> DEFINE later == analysis'
             more == events'
  <2>1. Divides(later, more) /\ HasRow(later.rows, r)
    BY <1>1, <1>2
  <2> HIDE DEF later, more, r
  <2>2. PICK j \in 1 .. Len(later.rows) : later.rows[j].request = r
    BY <2>1 DEF HasRow
  <2>3. ShownTurns(later, later.rows[j].request) = {KeyOf(more, later.rows[j].request)}
    BY <2>1, ShownTurnIs
  <2> QED BY <2>2, <2>3 DEF later, more
<1>5. TurnFactOf(events', r) = TurnFactOf(events, r)
  BY <1>1, FactStays DEF Recorded
<1> QED BY <1>3, <1>4, <1>5 DEF KeyOf

\* A step records an event, or leaves what is shown as it is.
LEMMA StepRecords ==
  ASSUME RunInv, [Next]_vars
  PROVE  UNCHANGED <<events, analysis>> \/ \E x, time : Recorded(x, time)
<1>1. ASSUME NEW e, NEW time, EventOK(e), Record(e, time) PROVE \E x, u : Recorded(x, u)
  BY <1>1, RecordIs DEF RunInv
<1>2. ASSUME NEW r \in DOMAIN requests, NEW t, AppendNext(r, t) PROVE \E x, u : Recorded(x, u)
  <2>1. RecordingOK(recording[r], r)
    BY DEF RunInv, SentOK, RequestOK
  <2>2. EventOK(Head(recording[r])) /\ Record(Head(recording[r]), t)
    BY <1>2, <2>1, RestIs DEF AppendNext
  <2> QED BY <1>1, <2>2
<1>3. ASSUME NEW r \in DOMAIN requests, NEW u, NEW t, Report(r, u, t)
      PROVE  \E x, time : Recorded(x, time)
  <2>1. r \in Nat
    BY RunAssumption DEF RunInv, SentOK
  <2>2. EventOK(UsageEvent(r, u, 0))
    BY <2>1, UsageEventIs
  <2> QED BY <1>1, <1>3, <2>2 DEF Report
<1>4. ASSUME NEW r \in Hand \cup Requests_, NEW text, NEW t, RecordByHand(r, text, t)
      PROVE  \E x, time : Recorded(x, time)
  <2>1. r \in Nat
    BY RunAssumption
  <2>2. EventOK(HandEvent(r, "file", text, "preview", 0))
    BY <2>1, HandEventIs
  <2> QED BY <1>1, <1>4, <2>2 DEF RecordByHand
<1>5. ASSUME \/ Ask \/ (\E text : Reply(text) \/ Compact(text)) \/ (\E calls : UseTools(calls))
             \/ (\E r, from, turn : Send(r, from, turn)) \/ (\E r : Retry(r)) \/ (\E m : Restart(m))
             \/ UNCHANGED vars
      PROVE  UNCHANGED <<events, analysis>>
  BY <1>5 DEF Ask, Reply, Compact, UseTools, Send, Retry, Restart, Says, vars
<1> QED BY <1>2, <1>3, <1>4, <1>5 DEF Next

\* No step moves a request that has a turn to another.
THEOREM RequestsStayInTheirTurn == Spec => RequestsKeepTheirTurn
<1>1. ASSUME RunInv, RunInv', [Next]_vars,
             NEW r \in {analysis.rows[k].request : k \in DOMAIN analysis.rows}, HasTurn(events, r)
      PROVE  {analysis.turns[n].turn : n \in GroupsOf(r)}
               = {(analysis.turns[n].turn)' : n \in GroupsOf(r)'}
  <2>1. {analysis.turns[n].turn : n \in GroupsOf(r)} = ShownTurns(analysis, r)
    BY DEF ShownTurns, GroupsIn, GroupsOf
  <2>2. {(analysis.turns[n].turn)' : n \in GroupsOf(r)'} = ShownTurns(analysis', r)
    BY DEF ShownTurns, GroupsIn, GroupsOf
  <2>3. CASE UNCHANGED <<events, analysis>>
    BY <2>1, <2>2, <2>3
  <2>4. CASE \E x, time : Recorded(x, time)
    <3>1. PICK k \in DOMAIN analysis.rows : analysis.rows[k].request = r
      BY <1>1
    <3>2. k \in 1 .. Len(analysis.rows)
      BY <1>1, AnalyzeDivides, ListIs DEF RunInv, FileOK, Divides, RowsTile
    <3>3. ShownTurns(analysis, analysis.rows[k].request)
            = ShownTurns(analysis', analysis.rows[k].request)
      BY <1>1, <2>4, <3>1, <3>2, ShownTurnsStay DEF RunInv
    <3> QED BY <2>1, <2>2, <3>1, <3>3
  <2> QED BY <1>1, <2>3, <2>4, StepRecords
<1>2. RunInv /\ RunInv' /\ [Next]_vars
      => [\A r \in {analysis.rows[k].request : k \in DOMAIN analysis.rows} :
            HasTurn(events, r)
            => {analysis.turns[n].turn : n \in GroupsOf(r)}
                 = {(analysis.turns[n].turn)' : n \in GroupsOf(r)'}]_vars
  BY <1>1
<1> QED BY <1>2, RunInvariance, PTL DEF RequestsKeepTheirTurn, Spec
=============================================================================
