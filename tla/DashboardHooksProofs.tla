------------------------ MODULE DashboardHooksProofs ------------------------
(***************************************************************************)
(* Proofs that the page shows what the reader selected, and is never stuck *)
(* on an answer: for any runs, pages and artifacts, any number of calls in *)
(* flight, and answers in any order.                                       *)
(***************************************************************************)
EXTENDS DashboardHooks, SequenceTheorems, WellFoundedInduction, TLAPS

-----------------------------------------------------------------------------
(***************************************************************************)
(* The inductive invariant.                                                *)
(***************************************************************************)
MaybeRun == Runs \cup {None}

CallType == [run : MaybeRun, ids : SUBSET Ids, page : 0 .. Len(Pages), refresh : BOOLEAN]

ViewType == [run : MaybeRun, open : SUBSET Ids]

StatusType == [loading : BOOLEAN, ready : BOOLEAN, error : BOOLEAN]

SessionsType ==
  [items : Seq(Runs) \cup {None}, next : 0 .. Len(Pages), loading : BOOLEAN, error : BOOLEAN]

ShownType == [run : MaybeRun, loading : BOOLEAN, error : BOOLEAN]

DataType == UNION {[D -> Runs] : D \in SUBSET Ids}

DetailsType == [data : DataType, errors : SUBSET Ids, loading : SUBSET Ids, run : MaybeRun]

RefsType == [run : MaybeRun, ids : SUBSET Ids]

LargeType == [at : MaybeRun, run : MaybeRun, page : MaybeRun, artifacts : MaybeRun, error : BOOLEAN]

UiType ==
  [view : ViewType, status : StatusType, sessions : SessionsType, shown : ShownType,
   details : DetailsType, refs : RefsType, large : LargeType, refresh : Refreshes \cup {None},
   calls : [Hooks -> Seq(CallType)]]

(***************************************************************************)
(* What is said of a hook takes its state and its calls in flight (queue)  *)
(* as parameters, so that it can be said between the effects of a render.  *)
(***************************************************************************)

\* Some call behind the from-th asks for this detail of the run.
Asked(id, run, queue, from) ==
  \E i \in DOMAIN queue : i > from /\ queue[i].run = run /\ id \in queue[i].ids

\* A status call is behind every spinner.
StatusOK(status, queue) == status.loading => queue # <<>>

\* The items are those of the first n pages, and the next page is the one after them.
WholeList(items, next) ==
  \E n \in DOMAIN Pages : items = FlattenSeq(SubSeq(Pages, 1, n)) /\ next = NextPage(n)

\* A call for a later page has a list to extend, and is alone when the reader waits.
ListOK(sessions, queue, ready, refresh, o) ==
  /\ sessions.loading => queue # <<>>
  /\ \A i \in DOMAIN queue : queue[i].page # 0 /\ (queue[i].page # 1 => sessions.items # None)
  /\ sessions.items # None \/ queue # <<>> => ready
  /\ o /\ sessions.items # None => WholeList(sessions.items, sessions.next)
  /\ o => \A i \in DOMAIN queue : queue[i].page # 1 =>
            Len(queue) = 1 /\ queue[i].page = sessions.next /\ ~sessions.error /\ refresh = None

\* The last call in flight is for the selected run.
ShownOK(run, large, shown, queue, o) ==
  /\ shown.loading => queue # <<>>
  /\ o /\ run # None /\ ~large =>
       IF queue = <<>> THEN shown.run = run \/ shown.error ELSE queue[Len(queue)].run = run

\* Every wanted id has an answer or a call, and a call for another run is
\* followed by calls for the selected one.
DetailsOK(refs, details, queue, o) ==
  /\ \A i \in DOMAIN queue : queue[i].run \in Runs
  /\ details.run = refs.run
  /\ DOMAIN details.data \cup details.loading \subseteq refs.ids
  /\ \A id \in DOMAIN details.data : id \in ArtifactIds[details.data[id]]
  /\ \A id \in details.loading : \E i \in DOMAIN queue : id \in queue[i].ids
  /\ refs.run # None =>
       refs.ids \subseteq DOMAIN details.data \cup details.errors \cup details.loading
  /\ o /\ refs.run # None =>
       /\ \A i \in DOMAIN queue : queue[i].run # refs.run =>
            \A id \in refs.ids : Asked(id, refs.run, queue, i)
       /\ \A id \in DOMAIN details.data : details.data[id] # refs.run =>
            id \in details.errors \/ Asked(id, refs.run, queue, 0)

\* The explorer's summary and the call for it are those of the run it is mounted for.
LargeOK(at, large, summaries, requests, artifacts, o) ==
  /\ large.at = at
  /\ large.run \in {None, at}
  /\ \A i \in DOMAIN summaries : summaries[i].run = at
  /\ at = None => summaries = <<>> /\ requests = <<>> /\ artifacts = <<>>
  /\ o => /\ {large.page, large.artifacts} \subseteq {None, at}
          /\ \A i \in DOMAIN requests : requests[i].run = at
          /\ \A i \in DOMAIN artifacts : artifacts[i].run = at

Own(queue) == {i \in DOMAIN queue : queue[i].refresh}

NoOwn(calls) == \A h \in Hooks : Own(calls[h]) = {}

OneOwn(calls, hook) ==
  (\E i \in Own(calls[hook]) : Own(calls[hook]) = {i}) /\ \A h \in Hooks \ {hook} : Own(calls[h]) = {}

Reloaded == {"status", "sessions", "run", "details"}

\* A refresh waits for one call.  One that is to hide the run on the screen, a
\* large one, finds it selected and listed when it comes to it.
RefreshOK(refresh, calls, ready, run, large, o) ==
  /\ refresh = None => NoOwn(calls)
  /\ refresh # None =>
       /\ \E hook \in Reloaded : OneOwn(calls, hook)
       /\ refresh.ready => ready
       /\ o => refresh.run = run
       /\ o /\ ~refresh.enabled /\ Own(calls["status"]) \cup Own(calls["sessions"]) # {} =>
            refresh.ready /\ large /\ \A i \in DOMAIN calls["sessions"] : calls["sessions"][i].refresh

\* What the render gives useArtifactDetails.
RefsOf(u) == IF IsLargeRun(u) THEN [run |-> None, ids |-> {}] ELSE [run |-> u.view.run, ids |-> u.view.open]

UiOK(u, o) ==
  /\ u \in UiType
  /\ u.refs = RefsOf(u)
  /\ StatusOK(u.status, u.calls["status"])
  /\ ListOK(u.sessions, u.calls["sessions"], u.status.ready, u.refresh, o)
  /\ ShownOK(u.view.run, IsLargeRun(u), u.shown, u.calls["run"], o)
  /\ DetailsOK(u.refs, u.details, u.calls["details"], o)
  /\ LargeOK(LargeRunShown(u), u.large, u.calls["large"], u.calls["requests"], u.calls["artifacts"], o)
  /\ RefreshOK(u.refresh, u.calls, u.status.ready, u.view.run, IsLargeRun(u), o)

IInv == orderly \in BOOLEAN /\ UiOK(ui, orderly)

-----------------------------------------------------------------------------
(***************************************************************************)
(* Queues of calls.                                                        *)
(***************************************************************************)

LEMMA Sent ==
  ASSUME NEW s \in Seq(CallType), NEW c \in CallType
  PROVE  /\ Append(s, c) \in Seq(CallType) /\ Append(s, c) # s /\ Append(s, c) # <<>>
         /\ Len(Append(s, c)) = Len(s) + 1
         /\ \A i \in DOMAIN s : i \in DOMAIN Append(s, c) /\ Append(s, c)[i] = s[i]
         /\ Append(s, c)[Len(s) + 1] = c /\ DOMAIN Append(s, c) = DOMAIN s \cup {Len(s) + 1}
OBVIOUS

LEMMA Taken ==
  ASSUME NEW s \in Seq(CallType), NEW i \in DOMAIN s
  PROVE  /\ RemoveAt(s, i) \in Seq(CallType)
         /\ Len(RemoveAt(s, i)) = Len(s) - 1
         /\ \A j \in DOMAIN RemoveAt(s, i) :
              RemoveAt(s, i)[j] = s[IF j < i THEN j ELSE j + 1]
<1> DEFINE p == SubSeq(s, 1, i - 1)
           q == SubSeq(s, i + 1, Len(s))
<1>1. i \in 1..Len(s) /\ Len(s) \in Nat
  OBVIOUS
<1>2. p \in Seq(CallType) /\ Len(p) = i - 1 /\ \A j \in 1..(i - 1) : p[j] = s[j]
  BY <1>1
<1>3. q \in Seq(CallType) /\ Len(q) = Len(s) - i /\ \A j \in 1..(Len(s) - i) : q[j] = s[i + j]
  BY <1>1
<1>4. RemoveAt(s, i) = p \o q
  BY DEF RemoveAt
<1> HIDE DEF p, q
<1>5. p \o q \in Seq(CallType) /\ Len(p \o q) = Len(s) - 1
  BY <1>1, <1>2, <1>3
<1>6. \A j \in 1..(Len(s) - 1) : (p \o q)[j] = s[IF j < i THEN j ELSE j + 1]
  <2> TAKE j \in 1..(Len(s) - 1)
  <2>1. CASE j < i
    BY <1>1, <1>2, <1>3, <2>1
  <2>2. CASE ~(j < i)
    <3>1. j - (i - 1) \in 1..(Len(s) - i) /\ ~(j <= Len(p)) /\ j - Len(p) = j - (i - 1)
      BY <1>1, <1>2, <2>2
    <3>2. (p \o q)[j] = q[j - (i - 1)]
      <4>1. j \in 1..(Len(p) + Len(q))
        BY <1>1, <1>2, <1>3
      <4>2. (p \o q)[j] = q[j - Len(p)]
        BY <1>2, <1>3, <3>1, <4>1, ConcatProperties
      <4> QED
        BY <3>1, <4>2
    <3>3. i + (j - (i - 1)) = j + 1
      BY <1>1
    <3> QED
      BY <1>3, <2>2, <3>1, <3>2, <3>3
  <2> QED
    BY <2>1, <2>2
<1>7. DOMAIN (p \o q) = 1..(Len(s) - 1)
  BY <1>1, <1>5
<1> QED
  BY <1>4, <1>5, <1>6, <1>7

LEMMA OwnSent ==
  ASSUME NEW s \in Seq(CallType), NEW c \in CallType
  PROVE  Own(Append(s, c)) = Own(s) \cup (IF c.refresh THEN {Len(s) + 1} ELSE {})
BY Sent DEF Own

\* What becomes of a refresh's call when some call is answered.
LEMMA OwnTaken ==
  ASSUME NEW s \in Seq(CallType), NEW i \in DOMAIN s
  PROVE  /\ Own(s) = {} => Own(RemoveAt(s, i)) = {}
         /\ i \in Own(s) /\ (\E k \in Own(s) : Own(s) = {k}) => Own(RemoveAt(s, i)) = {}
         /\ i \notin Own(s) /\ (\E k \in Own(s) : Own(s) = {k}) =>
              \E k \in Own(RemoveAt(s, i)) : Own(RemoveAt(s, i)) = {k}
         /\ Own(RemoveAt(s, i)) # {} => Own(s) # {}
<1> DEFINE t == RemoveAt(s, i)
<1>1. /\ t \in Seq(CallType) /\ Len(t) = Len(s) - 1 /\ i \in 1..Len(s) /\ Len(s) \in Nat
      /\ \A j \in DOMAIN t : t[j] = s[IF j < i THEN j ELSE j + 1]
  BY Taken
<1> HIDE DEF t
<1>2. ASSUME NEW j \in Own(t)
      PROVE  (IF j < i THEN j ELSE j + 1) \in Own(s) \ {i}
  BY <1>1 DEF Own
<1>3. ASSUME NEW k \in Own(s), k # i
      PROVE  (IF k < i THEN k ELSE k - 1) \in Own(t)
  BY <1>1, <1>3 DEF Own
<1>4. ASSUME i \notin Own(s), NEW k \in Own(s), Own(s) = {k}
      PROVE  \E j \in Own(t) : Own(t) = {j}
  <2> DEFINE j == IF k < i THEN k ELSE k - 1
  <2>1. j \in Own(t) /\ k \in Nat /\ k # i /\ i \in Nat
    BY <1>1, <1>3, <1>4 DEF Own
  <2>2. \A l \in Own(t) : l \in Nat /\ (IF l < i THEN l ELSE l + 1) = k
    BY <1>1, <1>2, <1>4 DEF Own
  <2>3. \A l \in Own(t) : l = j
    BY <2>1, <2>2
  <2> QED
    BY <2>1, <2>3
<1>5. i \in Own(s) /\ (\E k \in Own(s) : Own(s) = {k}) => Own(t) = {}
  BY <1>2
<1>6. Own(s) = {} => Own(t) = {}
  BY <1>2
<1> QED
  BY <1>2, <1>4, <1>5, <1>6 DEF t

-----------------------------------------------------------------------------
(***************************************************************************)
(* The session list: page after page.                                      *)
(***************************************************************************)

\* A set of numbers has a least one, if any.
LEMMA LeastNumber ==
  ASSUME NEW T \in SUBSET Nat, T # {}
  PROVE  \E m \in T : \A j \in T : m <= j
<1> DEFINE R == OpToRel(<, Nat)
<1>1. IsWellFoundedOn(R, Nat)
  BY NatLessThanWellFounded
<1>2. \A x, y \in Nat : <<x, y>> \in R <=> x < y
  BY DEF OpToRel
<1> HIDE DEF R
<1>3. PICK m \in T : \A j \in T : <<j, m>> \notin R
  BY <1>1, WFMin
<1>4. ASSUME NEW j \in T PROVE m <= j
  <2>1. j \in Nat /\ m \in Nat /\ ~(j < m)
    BY <1>2, <1>3
  <2> QED
    BY <2>1
<1> QED
  BY <1>4

\* f holds the concatenations of the first sequences of ss, which FlattenSeq computes.
Concats(ss, f) == f = [i \in 1..Len(ss) |-> IF i = 1 THEN ss[i] ELSE f[i - 1] \o ss[i]]

LEMMA ConcatsExist ==
  ASSUME NEW ss, Len(ss) \in Nat, Len(ss) # 0
  PROVE  \E f : Concats(ss, f)
<1> DEFINE UpTo(k) == \E f : f = [i \in 1..k |-> IF i = 1 THEN ss[i] ELSE f[i - 1] \o ss[i]]
           T == {k \in 1..Len(ss) : ~UpTo(k)}
<1>1. UpTo(1)
  <2>1. [i \in 1..1 |-> ss[i]] = [i \in 1..1 |-> IF i = 1 THEN ss[i] ELSE [j \in 1..1 |-> ss[j]][i - 1] \o ss[i]]
    OBVIOUS
  <2> QED
    BY <2>1
<1>2. ASSUME NEW k \in Nat, k # 0, UpTo(k)
      PROVE  UpTo(k + 1)
  <2>1. PICK f : f = [i \in 1..k |-> IF i = 1 THEN ss[i] ELSE f[i - 1] \o ss[i]]
    BY <1>2
  <2> DEFINE g == [i \in 1..(k + 1) |-> IF i = k + 1 THEN f[k] \o ss[k + 1] ELSE f[i]]
  <2>2. ASSUME NEW i \in 1..(k + 1)
        PROVE  g[i] = IF i = 1 THEN ss[i] ELSE g[i - 1] \o ss[i]
    <3>1. CASE i = k + 1
      <4>1. i # 1 /\ i - 1 = k /\ k \in 1..(k + 1) /\ k # k + 1
        BY <1>2, <3>1
      <4> QED
        BY <3>1, <4>1
    <3>2. CASE i # k + 1
      <4>1. i \in 1..k
        BY <1>2, <3>2
      <4>2. g[i] = IF i = 1 THEN ss[i] ELSE f[i - 1] \o ss[i]
        BY <2>1, <3>2, <4>1
      <4>3. i # 1 => i - 1 \in 1..(k + 1) /\ i - 1 # k + 1
        BY <1>2, <4>1
      <4> QED
        BY <4>2, <4>3
    <3> QED
      BY <3>1, <3>2
  <2>3. g = [i \in 1..(k + 1) |-> IF i = 1 THEN ss[i] ELSE g[i - 1] \o ss[i]]
    BY <2>2
  <2> QED
    BY <2>3
<1> HIDE DEF UpTo
<1>3. T = {}
  <2> SUFFICES ASSUME T # {} PROVE FALSE
    OBVIOUS
  <2>1. T \in SUBSET Nat
    OBVIOUS
  <2>2. PICK m \in T : \A j \in T : m <= j
    BY <2>1, LeastNumber
  <2>3. m \in Nat /\ m >= 1 /\ m <= Len(ss) /\ ~UpTo(m)
    OBVIOUS
  <2>4. m # 1
    BY <1>1, <2>3
  <2>5. m - 1 \in 1..Len(ss) /\ ~(m <= m - 1) /\ (m - 1) + 1 = m
    BY <2>3, <2>4
  <2>6. UpTo(m - 1)
    BY <2>2, <2>5
  <2>7. UpTo((m - 1) + 1)
    BY <1>2, <2>5, <2>6
  <2> QED
    BY <2>3, <2>5, <2>7
<1>4. UpTo(Len(ss))
  BY <1>3
<1> QED
  BY <1>4 DEF UpTo, Concats

LEMMA FlattenIs ==
  ASSUME NEW ss, Len(ss) \in Nat, Len(ss) # 0
  PROVE  \E f : Concats(ss, f) /\ FlattenSeq(ss) = f[Len(ss)]
<1> DEFINE f == CHOOSE f : Concats(ss, f)
<1>1. Concats(ss, f)
  BY ConcatsExist
<1>2. FlattenSeq(ss) = f[Len(ss)]
  BY DEF FlattenSeq, Concats
<1> QED
  BY <1>1, <1>2

\* The concatenations of a prefix are those of the whole.
LEMMA ConcatsAgree ==
  ASSUME NEW ss, NEW tt, NEW f, NEW g, Concats(ss, f), Concats(tt, g),
         Len(ss) \in Nat, Len(tt) \in Nat, Len(ss) <= Len(tt), \A i \in 1..Len(ss) : ss[i] = tt[i]
  PROVE  \A i \in 1..Len(ss) : f[i] = g[i]
<1> DEFINE T == {i \in 1..Len(ss) : f[i] # g[i]}
<1>1. \A i \in 1..Len(ss) : f[i] = IF i = 1 THEN ss[i] ELSE f[i - 1] \o ss[i]
  BY DEF Concats
<1>2. \A i \in 1..Len(tt) : g[i] = IF i = 1 THEN tt[i] ELSE g[i - 1] \o tt[i]
  BY DEF Concats
<1>3. T = {}
  <2> SUFFICES ASSUME T # {} PROVE FALSE
    OBVIOUS
  <2>1. T \in SUBSET Nat
    OBVIOUS
  <2>2. PICK m \in T : \A j \in T : m <= j
    BY <2>1, LeastNumber
  <2>3. m \in 1..Len(ss) /\ m \in 1..Len(tt) /\ m \in Nat /\ ss[m] = tt[m] /\ f[m] # g[m]
    OBVIOUS
  <2>4. m # 1
    BY <1>1, <1>2, <2>3
  <2>5. m - 1 \in 1..Len(ss) /\ ~(m <= m - 1)
    BY <2>3, <2>4
  <2>6. f[m - 1] = g[m - 1]
    BY <2>2, <2>5
  <2> QED
    BY <1>1, <1>2, <2>3, <2>4, <2>6
<1> QED
  BY <1>3

LEMMA FlattenPages ==
  /\ FlattenSeq(SubSeq(Pages, 1, 1)) = Pages[1]
  /\ \A n \in 1..(Len(Pages) - 1) :
       FlattenSeq(SubSeq(Pages, 1, n + 1)) = FlattenSeq(SubSeq(Pages, 1, n)) \o Pages[n + 1]
<1>1. Pages \in Seq(Seq(Runs)) /\ Len(Pages) \in Nat /\ Len(Pages) # 0
  BY HooksAssumption
<1>2. ASSUME NEW n \in 1..Len(Pages)
      PROVE  /\ Len(SubSeq(Pages, 1, n)) = n /\ n \in Nat /\ n # 0
             /\ \A i \in 1..n : SubSeq(Pages, 1, n)[i] = Pages[i]
             /\ \E f : Concats(SubSeq(Pages, 1, n), f) /\ FlattenSeq(SubSeq(Pages, 1, n)) = f[n]
  <2>1. /\ Len(SubSeq(Pages, 1, n)) = n /\ n \in Nat /\ n # 0
        /\ \A i \in 1..n : SubSeq(Pages, 1, n)[i] = Pages[i]
    BY <1>1
  <2> QED
    BY <2>1, FlattenIs
<1>3. FlattenSeq(SubSeq(Pages, 1, 1)) = Pages[1]
  <2>1. 1 \in 1..Len(Pages)
    BY <1>1
  <2>2. PICK f : Concats(SubSeq(Pages, 1, 1), f) /\ FlattenSeq(SubSeq(Pages, 1, 1)) = f[1]
    BY <1>2, <2>1
  <2>3. Len(SubSeq(Pages, 1, 1)) = 1 /\ SubSeq(Pages, 1, 1)[1] = Pages[1]
    BY <1>2, <2>1
  <2> QED
    BY <2>2, <2>3 DEF Concats
<1>4. ASSUME NEW n \in 1..(Len(Pages) - 1)
      PROVE  FlattenSeq(SubSeq(Pages, 1, n + 1)) = FlattenSeq(SubSeq(Pages, 1, n)) \o Pages[n + 1]
  <2> DEFINE ss == SubSeq(Pages, 1, n)
             tt == SubSeq(Pages, 1, n + 1)
  <2>1. n \in 1..Len(Pages) /\ n + 1 \in 1..Len(Pages) /\ n \in Nat /\ n <= n + 1
    BY <1>1
  <2>2. PICK f : Concats(ss, f) /\ FlattenSeq(ss) = f[n]
    BY <1>2, <2>1
  <2>3. PICK g : Concats(tt, g) /\ FlattenSeq(tt) = g[n + 1]
    BY <1>2, <2>1
  <2>4. Len(ss) = n /\ \A i \in 1..n : ss[i] = Pages[i]
    BY <1>2, <2>1
  <2>5. Len(tt) = n + 1 /\ \A i \in 1..(n + 1) : tt[i] = Pages[i]
    BY <1>2, <2>1
  <2> HIDE DEF ss, tt
  <2>6. \A i \in 1..Len(ss) : ss[i] = tt[i]
    BY <2>1, <2>4, <2>5
  <2>7. \A i \in 1..Len(ss) : f[i] = g[i]
    BY <2>1, <2>2, <2>3, <2>4, <2>5, <2>6, ConcatsAgree
  <2>8. f[n] = g[n]
    BY <2>1, <2>4, <2>7
  <2>9. g[n + 1] = g[n] \o tt[n + 1]
    <3>1. g = [i \in 1..Len(tt) |-> IF i = 1 THEN tt[i] ELSE g[i - 1] \o tt[i]]
      BY <2>3 DEF Concats
    <3>2. n + 1 \in 1..Len(tt) /\ n + 1 # 1 /\ (n + 1) - 1 = n
      BY <2>1, <2>5
    <3> QED
      BY <3>1, <3>2
  <2>10. n + 1 \in 1..(n + 1)
    BY <2>1
  <2>11. FlattenSeq(tt) = FlattenSeq(ss) \o Pages[n + 1]
    BY <2>2, <2>3, <2>5, <2>8, <2>9, <2>10
  <2> QED
    BY <2>11 DEF ss, tt
<1> QED
  BY <1>3, <1>4

\* Reading the first page, and the page after those read, keeps the list whole.
LEMMA WholeFirst == WholeList(Pages[1], NextPage(1))
<1>1. 1 \in DOMAIN Pages
  BY HooksAssumption
<1> QED
  BY <1>1, FlattenPages DEF WholeList

LEMMA WholeNext ==
  ASSUME NEW items, NEW page, WholeList(items, page), page # 0
  PROVE  page \in DOMAIN Pages /\ WholeList(items \o Pages[page], NextPage(page))
<1>1. PICK n \in DOMAIN Pages : items = FlattenSeq(SubSeq(Pages, 1, n)) /\ page = NextPage(n)
  BY DEF WholeList
<1>2. n \in 1..(Len(Pages) - 1) /\ page = n + 1 /\ page \in DOMAIN Pages
  BY <1>1, HooksAssumption DEF NextPage
<1>3. items \o Pages[page] = FlattenSeq(SubSeq(Pages, 1, page))
  BY <1>1, <1>2, FlattenPages
<1> QED
  BY <1>2, <1>3 DEF WholeList

-----------------------------------------------------------------------------
(***************************************************************************)
(* What each function of the hooks changes of the page.                    *)
(***************************************************************************)

LEMMA CallTyped ==
  ASSUME NEW run \in MaybeRun, NEW ids \in SUBSET Ids, NEW page \in 0..Len(Pages), NEW refresh \in BOOLEAN
  PROVE  /\ Call(run, ids, page, refresh) \in CallType
         /\ Call(run, ids, page, refresh).run = run /\ Call(run, ids, page, refresh).ids = ids
         /\ Call(run, ids, page, refresh).page = page /\ Call(run, ids, page, refresh).refresh = refresh
BY DEF Call, CallType

LEMMA SendShape ==
  ASSUME NEW u \in UiType, NEW hook \in Hooks, NEW call \in CallType
  PROVE  LET w == Send(u, hook, call)
         IN  /\ w \in UiType
             /\ w.view = u.view /\ w.status = u.status /\ w.sessions = u.sessions /\ w.shown = u.shown
             /\ w.details = u.details /\ w.refs = u.refs /\ w.large = u.large /\ w.refresh = u.refresh
             /\ w.calls[hook] = Append(u.calls[hook], call)
             /\ \A h \in Hooks \ {hook} : w.calls[h] = u.calls[h]
<1>1. u.calls \in [Hooks -> Seq(CallType)]
  BY DEF UiType
<1>2. Append(u.calls[hook], call) \in Seq(CallType)
  BY <1>1, Sent
<1> QED
  BY <1>1, <1>2 DEF Send, UiType

LEMMA ReloadStatusShape ==
  ASSUME NEW u \in UiType, NEW refresh \in BOOLEAN
  PROVE  LET w == ReloadStatus(u, refresh)
         IN  /\ w \in UiType
             /\ w.view = u.view /\ w.sessions = u.sessions /\ w.shown = u.shown
             /\ w.details = u.details /\ w.refs = u.refs /\ w.large = u.large /\ w.refresh = u.refresh
             /\ w.status.ready = u.status.ready
             /\ \A h \in Hooks \ {"status"} : w.calls[h] = u.calls[h]
             /\ \E c \in CallType :
                  c.refresh = refresh /\ w.calls["status"] = Append(u.calls["status"], c)
<1> DEFINE v == [u EXCEPT !.status.loading = TRUE, !.status.error = FALSE]
           c == Call(None, {}, 0, refresh)
<1>1. c \in CallType /\ c.refresh = refresh
  <2>1. None \in MaybeRun /\ {} \in SUBSET Ids /\ 0 \in 0..Len(Pages)
    BY HooksAssumption DEF MaybeRun
  <2> QED
    BY <2>1, CallTyped
<1>2. /\ v \in UiType /\ v.status.ready = u.status.ready /\ v.calls = u.calls
      /\ v.view = u.view /\ v.sessions = u.sessions /\ v.shown = u.shown
      /\ v.details = u.details /\ v.refs = u.refs /\ v.large = u.large /\ v.refresh = u.refresh
  BY DEF UiType, StatusType
<1>3. ReloadStatus(u, refresh) = Send(v, "status", c)
  BY DEF ReloadStatus
<1> HIDE DEF v, c
<1>4. /\ Send(v, "status", c) \in UiType
      /\ Send(v, "status", c).view = v.view /\ Send(v, "status", c).status = v.status
      /\ Send(v, "status", c).sessions = v.sessions /\ Send(v, "status", c).shown = v.shown
      /\ Send(v, "status", c).details = v.details /\ Send(v, "status", c).refs = v.refs
      /\ Send(v, "status", c).large = v.large /\ Send(v, "status", c).refresh = v.refresh
      /\ Send(v, "status", c).calls["status"] = Append(v.calls["status"], c)
      /\ \A h \in Hooks \ {"status"} : Send(v, "status", c).calls[h] = v.calls[h]
  <2>1. "status" \in Hooks
    BY DEF Hooks
  <2> QED
    BY <1>1, <1>2, <2>1, SendShape
<1> QED
  BY <1>1, <1>2, <1>3, <1>4

LEMMA ReloadSessionsShape ==
  ASSUME NEW u \in UiType, NEW refresh \in BOOLEAN
  PROVE  LET w == ReloadSessions(u, refresh)
         IN  /\ w \in UiType
             /\ w.view = u.view /\ w.status = u.status /\ w.shown = u.shown
             /\ w.details = u.details /\ w.refs = u.refs /\ w.large = u.large /\ w.refresh = u.refresh
             /\ w.sessions.items = u.sessions.items /\ w.sessions.next = u.sessions.next
             /\ \A h \in Hooks \ {"sessions"} : w.calls[h] = u.calls[h]
             /\ \E c \in CallType :
                  c.page = 1 /\ c.refresh = refresh
                  /\ w.calls["sessions"] = Append(u.calls["sessions"], c)
<1> DEFINE v == [u EXCEPT !.sessions.loading = TRUE, !.sessions.error = FALSE]
           c == Call(None, {}, 1, refresh)
<1>0. 1 \in 0..Len(Pages)
  BY HooksAssumption
<1>1. c \in CallType /\ c.page = 1 /\ c.refresh = refresh
  BY <1>0, CallTyped DEF MaybeRun
<1>2. /\ v \in UiType /\ v.calls = u.calls
      /\ v.sessions.items = u.sessions.items /\ v.sessions.next = u.sessions.next
      /\ v.view = u.view /\ v.status = u.status /\ v.shown = u.shown
      /\ v.details = u.details /\ v.refs = u.refs /\ v.large = u.large /\ v.refresh = u.refresh
  BY DEF UiType, SessionsType
<1>3. ReloadSessions(u, refresh) = Send(v, "sessions", c)
  BY DEF ReloadSessions
<1> HIDE DEF v, c
<1>4. /\ Send(v, "sessions", c) \in UiType
      /\ Send(v, "sessions", c).view = v.view /\ Send(v, "sessions", c).status = v.status
      /\ Send(v, "sessions", c).sessions = v.sessions /\ Send(v, "sessions", c).shown = v.shown
      /\ Send(v, "sessions", c).details = v.details /\ Send(v, "sessions", c).refs = v.refs
      /\ Send(v, "sessions", c).large = v.large /\ Send(v, "sessions", c).refresh = v.refresh
      /\ Send(v, "sessions", c).calls["sessions"] = Append(v.calls["sessions"], c)
      /\ \A h \in Hooks \ {"sessions"} : Send(v, "sessions", c).calls[h] = v.calls[h]
  <2>1. "sessions" \in Hooks
    BY DEF Hooks
  <2> QED
    BY <1>1, <1>2, <2>1, SendShape
<1> QED
  BY <1>1, <1>2, <1>3, <1>4

LEMMA ReloadRunShape ==
  ASSUME NEW u \in UiType, NEW run \in MaybeRun, NEW enabled \in BOOLEAN, NEW refresh \in BOOLEAN
  PROVE  LET w == ReloadRun(u, run, enabled, refresh)
         IN  /\ w \in UiType
             /\ w.view = u.view /\ w.status = u.status /\ w.sessions = u.sessions
             /\ w.details = u.details /\ w.refs = u.refs /\ w.large = u.large /\ w.refresh = u.refresh
             /\ \A h \in Hooks \ {"run"} : w.calls[h] = u.calls[h]
             /\ ~enabled \/ run = None => w.calls = u.calls /\ ~w.shown.loading
             /\ ~(~enabled \/ run = None) =>
                  \E c \in CallType :
                    c.run = run /\ c.refresh = refresh /\ w.calls["run"] = Append(u.calls["run"], c)
<1> DEFINE v == [u EXCEPT !.shown.loading = TRUE, !.shown.error = FALSE]
           n == [u EXCEPT !.shown = NoRun]
           c == Call(run, {}, 0, refresh)
<1>1. c \in CallType /\ c.run = run /\ c.refresh = refresh
  BY CallTyped DEF MaybeRun
<1>2. /\ v \in UiType /\ v.calls = u.calls
      /\ v.view = u.view /\ v.status = u.status /\ v.sessions = u.sessions
      /\ v.details = u.details /\ v.refs = u.refs /\ v.large = u.large /\ v.refresh = u.refresh
  BY DEF UiType, ShownType
<1>3. NoRun \in ShownType /\ ~NoRun.loading
  BY DEF NoRun, ShownType, MaybeRun
<1>4. /\ n \in UiType /\ n.calls = u.calls /\ n.shown = NoRun
      /\ n.view = u.view /\ n.status = u.status /\ n.sessions = u.sessions
      /\ n.details = u.details /\ n.refs = u.refs /\ n.large = u.large /\ n.refresh = u.refresh
  BY <1>3 DEF UiType
<1>5. ReloadRun(u, run, enabled, refresh) = IF ~enabled \/ run = None THEN n ELSE Send(v, "run", c)
  BY DEF ReloadRun
<1> HIDE DEF v, n, c
<1>6. /\ Send(v, "run", c) \in UiType
      /\ Send(v, "run", c).view = v.view /\ Send(v, "run", c).status = v.status
      /\ Send(v, "run", c).sessions = v.sessions /\ Send(v, "run", c).shown = v.shown
      /\ Send(v, "run", c).details = v.details /\ Send(v, "run", c).refs = v.refs
      /\ Send(v, "run", c).large = v.large /\ Send(v, "run", c).refresh = v.refresh
      /\ Send(v, "run", c).calls["run"] = Append(v.calls["run"], c)
      /\ \A h \in Hooks \ {"run"} : Send(v, "run", c).calls[h] = v.calls[h]
  <2>1. "run" \in Hooks
    BY DEF Hooks
  <2> QED
    BY <1>1, <1>2, <2>1, SendShape
<1>7. CASE ~enabled \/ run = None
  BY <1>3, <1>4, <1>5, <1>7
<1>8. CASE ~(~enabled \/ run = None)
  BY <1>1, <1>2, <1>5, <1>6, <1>8
<1> QED
  BY <1>7, <1>8

\* The state of useArtifactDetails after a reload.
NextDetails(u) ==
  [data |-> Restrict(KeptDetails(u).data, DOMAIN KeptDetails(u).data \cap Wanted(u)),
   errors |-> (KeptDetails(u).errors \cap Wanted(u)) \ MissingDetails(u),
   loading |-> (KeptDetails(u).loading \cap Wanted(u)) \cup MissingDetails(u),
   run |-> u.refs.run]

LEMMA DataTyped ==
  ASSUME NEW d
  PROVE  d \in DataType <=> DOMAIN d \in SUBSET Ids /\ d \in [DOMAIN d -> Runs]
BY DEF DataType

LEMMA KeptTyped ==
  ASSUME NEW u \in UiType
  PROVE  /\ KeptDetails(u).data \in DataType /\ KeptDetails(u).errors \in SUBSET Ids
         /\ KeptDetails(u).loading \in SUBSET Ids
         /\ Wanted(u) \in SUBSET Ids /\ MissingDetails(u) \in SUBSET Ids
         /\ u.details \in DetailsType /\ u.refs \in RefsType
<1>1. /\ u.details \in DetailsType /\ u.refs \in RefsType
  BY DEF UiType
<1>2. [id \in {} |-> None] \in DataType
  BY DataTyped
<1>3. NoDetails.data \in DataType /\ NoDetails.errors \in SUBSET Ids /\ NoDetails.loading \in SUBSET Ids
  BY <1>2 DEF NoDetails
<1>4. u.details.data \in DataType /\ u.details.errors \in SUBSET Ids /\ u.details.loading \in SUBSET Ids
  BY <1>1 DEF DetailsType
<1>5. /\ KeptDetails(u).data \in DataType /\ KeptDetails(u).errors \in SUBSET Ids
      /\ KeptDetails(u).loading \in SUBSET Ids
  BY <1>3, <1>4 DEF KeptDetails
<1>6. Wanted(u) \in SUBSET Ids
  BY <1>1 DEF Wanted, RefsType
<1> QED
  BY <1>1, <1>5, <1>6 DEF MissingDetails

LEMMA NextDetailsTyped ==
  ASSUME NEW u \in UiType
  PROVE  NextDetails(u) \in DetailsType
<1> DEFINE D == DOMAIN KeptDetails(u).data \cap Wanted(u)
           data == [id \in D |-> KeptDetails(u).data[id]]
<1>1. DOMAIN KeptDetails(u).data \in SUBSET Ids /\ KeptDetails(u).data \in [DOMAIN KeptDetails(u).data -> Runs]
  BY KeptTyped, DataTyped
<1>2. data \in [D -> Runs] /\ D \in SUBSET Ids
  BY <1>1
<1>3. data \in DataType
  BY <1>2, DataTyped
<1>4. u.refs.run \in MaybeRun
  BY KeptTyped DEF RefsType
<1>5. NextDetails(u) = [data |-> data,
   errors |-> (KeptDetails(u).errors \cap Wanted(u)) \ MissingDetails(u),
   loading |-> (KeptDetails(u).loading \cap Wanted(u)) \cup MissingDetails(u),
   run |-> u.refs.run]
  BY DEF NextDetails, Restrict
<1> HIDE DEF data
<1> QED
  BY <1>3, <1>4, <1>5, KeptTyped DEF DetailsType

LEMMA ReloadDetailsShape ==
  ASSUME NEW u \in UiType, NEW refresh \in BOOLEAN
  PROVE  LET w == ReloadDetails(u, refresh)
         IN  /\ w \in UiType
             /\ w.view = u.view /\ w.status = u.status /\ w.sessions = u.sessions
             /\ w.shown = u.shown /\ w.refs = u.refs /\ w.large = u.large /\ w.refresh = u.refresh
             /\ w.details = NextDetails(u)
             /\ \A h \in Hooks \ {"details"} : w.calls[h] = u.calls[h]
             /\ MissingDetails(u) = {} => w.calls = u.calls
             /\ MissingDetails(u) # {} =>
                  \E c \in CallType :
                    /\ c.run = u.refs.run /\ c.ids = MissingDetails(u) /\ c.refresh = refresh
                    /\ w.calls["details"] = Append(u.calls["details"], c)
<1> DEFINE v == [u EXCEPT !.details = NextDetails(u)]
           c == Call(u.refs.run, MissingDetails(u), 0, refresh)
<1>1. c \in CallType /\ c.run = u.refs.run /\ c.ids = MissingDetails(u) /\ c.refresh = refresh
  <2>1. u.refs.run \in MaybeRun /\ MissingDetails(u) \in SUBSET Ids
    BY KeptTyped DEF RefsType
  <2>2. 0 \in 0..Len(Pages)
    BY HooksAssumption
  <2> QED
    BY <2>1, <2>2, CallTyped
<1>2. /\ v \in UiType /\ v.calls = u.calls /\ v.details = NextDetails(u)
      /\ v.view = u.view /\ v.status = u.status /\ v.sessions = u.sessions
      /\ v.shown = u.shown /\ v.refs = u.refs /\ v.large = u.large /\ v.refresh = u.refresh
  BY NextDetailsTyped DEF UiType
<1>3. ReloadDetails(u, refresh) = IF MissingDetails(u) = {} THEN v ELSE Send(v, "details", c)
  BY DEF ReloadDetails, NextDetails
<1> HIDE DEF v, c
<1>4. /\ Send(v, "details", c) \in UiType
      /\ Send(v, "details", c).view = v.view /\ Send(v, "details", c).status = v.status
      /\ Send(v, "details", c).sessions = v.sessions /\ Send(v, "details", c).shown = v.shown
      /\ Send(v, "details", c).details = v.details /\ Send(v, "details", c).refs = v.refs
      /\ Send(v, "details", c).large = v.large /\ Send(v, "details", c).refresh = v.refresh
      /\ Send(v, "details", c).calls["details"] = Append(v.calls["details"], c)
      /\ \A h \in Hooks \ {"details"} : Send(v, "details", c).calls[h] = v.calls[h]
  <2>1. "details" \in Hooks
    BY DEF Hooks
  <2> QED
    BY <1>1, <1>2, <2>1, SendShape
<1>5. CASE MissingDetails(u) = {}
  BY <1>2, <1>3, <1>5
<1>6. CASE MissingDetails(u) # {}
  BY <1>1, <1>2, <1>3, <1>4, <1>6
<1> QED
  BY <1>5, <1>6

LEMMA MountedTyped ==
  ASSUME NEW at \in MaybeRun
  PROVE  LET large == [NoLarge EXCEPT !.at = at]
         IN  /\ large \in LargeType /\ large.at = at
             /\ large.run = None /\ large.page = None /\ large.artifacts = None
<1>1. NoLarge \in LargeType
  BY DEF NoLarge, LargeType, MaybeRun
<1>2. NoLarge.run = None /\ NoLarge.page = None /\ NoLarge.artifacts = None
  BY DEF NoLarge
<1> QED
  BY <1>1, <1>2 DEF LargeType

LEMMA LargeShownTyped ==
  ASSUME NEW u \in UiType
  PROVE  LargeRunShown(u) \in MaybeRun
BY DEF LargeRunShown, UiType, ViewType, MaybeRun

\* The explorer after a render: as it was, unmounted, or mounted anew.
LEMMA LargeEffectShape ==
  ASSUME NEW u \in UiType
  PROVE  LET w == LargeEffect(u)
             at == LargeRunShown(u)
         IN  /\ w \in UiType
             /\ w.view = u.view /\ w.status = u.status /\ w.sessions = u.sessions /\ w.shown = u.shown
             /\ w.details = u.details /\ w.refs = u.refs /\ w.refresh = u.refresh
             /\ \A h \in Hooks \ OfLargeRun : w.calls[h] = u.calls[h]
             /\ at = u.large.at => w = u
             /\ at # u.large.at =>
                  /\ w.large.at = at /\ w.large.run = None
                  /\ w.large.page = None /\ w.large.artifacts = None
             /\ at # u.large.at /\ at = None => \A h \in OfLargeRun : w.calls[h] = <<>>
             /\ at # u.large.at /\ at # None =>
                  /\ w.calls["requests"] = u.calls["requests"]
                  /\ w.calls["artifacts"] = u.calls["artifacts"]
                  /\ \E c \in CallType :
                       c.run = at /\ ~c.refresh /\ w.calls["large"] = Append(<<>>, c)
<1> DEFINE at == LargeRunShown(u)
           large == [NoLarge EXCEPT !.at = at]
           calls == [h \in Hooks |-> IF h \in Outdated(u) THEN <<>> ELSE u.calls[h]]
           v == [u EXCEPT !.large = large, !.calls = calls]
           c == Call(at, {}, 0, FALSE)
<1>1. /\ at \in MaybeRun
      /\ large \in LargeType /\ large.at = at
      /\ large.run = None /\ large.page = None /\ large.artifacts = None
  BY LargeShownTyped, MountedTyped
<1>2. calls \in [Hooks -> Seq(CallType)]
  BY DEF UiType
<1>3. LargeEffect(u) = CASE at = u.large.at -> u
                         [] at # u.large.at /\ at = None -> v
                         [] OTHER -> Send(v, "large", c)
  BY DEF LargeEffect
<1>4. /\ \A h \in Outdated(u) \cap Hooks : calls[h] = <<>>
      /\ \A h \in Hooks \ Outdated(u) : calls[h] = u.calls[h]
  OBVIOUS
<1>5. c \in CallType /\ c.run = at /\ ~c.refresh
  <2>1. 0 \in 0..Len(Pages)
    BY HooksAssumption
  <2>2. {} \in SUBSET Ids /\ FALSE \in BOOLEAN
    OBVIOUS
  <2> HIDE DEF at
  <2>3. c \in CallType /\ c.run = at /\ c.refresh = FALSE
    BY <1>1, <2>1, <2>2 DEF Call, CallType
  <2> QED
    BY <2>3
<1>6. Outdated(u) = IF at = None THEN OfLargeRun ELSE {"large"}
  BY DEF Outdated
<1> HIDE DEF at, large, calls, c
<1>7. /\ v \in UiType /\ v.calls = calls /\ v.large = large
      /\ v.view = u.view /\ v.status = u.status /\ v.sessions = u.sessions /\ v.shown = u.shown
      /\ v.details = u.details /\ v.refs = u.refs /\ v.refresh = u.refresh
  BY <1>1, <1>2 DEF UiType
<1> HIDE DEF v
<1>8. LET w == Send(v, "large", c)
      IN  /\ w \in UiType
          /\ w.view = v.view /\ w.status = v.status /\ w.sessions = v.sessions /\ w.shown = v.shown
          /\ w.details = v.details /\ w.refs = v.refs /\ w.large = v.large /\ w.refresh = v.refresh
          /\ w.calls["large"] = Append(v.calls["large"], c)
          /\ \A h \in Hooks \ {"large"} : w.calls[h] = v.calls[h]
  BY <1>5, <1>7, SendShape DEF Hooks
<1>9. CASE at = u.large.at
  <2>1. LargeEffect(u) = u
    BY <1>3, <1>9
  <2> QED
    BY <1>9, <2>1 DEF at
<1>10. CASE at # u.large.at /\ at = None
  <2>1. LargeEffect(u) = v
    BY <1>3, <1>10
  <2>2. \A h \in OfLargeRun : v.calls[h] = <<>>
    BY <1>4, <1>6, <1>7, <1>10 DEF OfLargeRun, Hooks
  <2>3. \A h \in Hooks \ OfLargeRun : v.calls[h] = u.calls[h]
    BY <1>4, <1>6, <1>7, <1>10
  <2> QED
    BY <1>1, <1>7, <1>10, <2>1, <2>2, <2>3 DEF at
<1>11. CASE at # u.large.at /\ at # None
  <2> DEFINE w == Send(v, "large", c)
  <2>1. LargeEffect(u) = w
    BY <1>3, <1>11
  <2>2. v.calls["large"] = <<>>
    BY <1>4, <1>6, <1>7, <1>11 DEF Hooks
  <2>3. \A h \in Hooks \ {"large"} : w.calls[h] = u.calls[h]
    BY <1>4, <1>6, <1>7, <1>8, <1>11
  <2>4. w.calls["large"] = Append(<<>>, c)
    BY <1>8, <2>2
  <2>5. /\ w \in UiType
        /\ w.view = u.view /\ w.status = u.status /\ w.sessions = u.sessions /\ w.shown = u.shown
        /\ w.details = u.details /\ w.refs = u.refs /\ w.refresh = u.refresh
        /\ w.large = large
    BY <1>7, <1>8
  <2> HIDE DEF w
  <2>6. w.calls["requests"] = u.calls["requests"] /\ w.calls["artifacts"] = u.calls["artifacts"]
    BY <2>3 DEF Hooks
  <2>7. \A h \in Hooks \ OfLargeRun : w.calls[h] = u.calls[h]
    BY <2>3 DEF OfLargeRun
  <2> QED
    BY <1>1, <1>5, <1>11, <2>1, <2>4, <2>5, <2>6, <2>7 DEF at
<1> QED
  BY <1>9, <1>10, <1>11

-----------------------------------------------------------------------------
(***************************************************************************)
(* The parts of the invariant, through the reloads and effects.            *)
(***************************************************************************)

LEMMA ReloadSessionsOK ==
  ASSUME NEW u \in UiType, NEW refresh \in BOOLEAN, NEW r, NEW o,
         ListOK(u.sessions, u.calls["sessions"], u.status.ready, r, o), u.status.ready,
         o => \A i \in DOMAIN u.calls["sessions"] : u.calls["sessions"][i].page = 1
  PROVE  LET w == ReloadSessions(u, refresh)
         IN  ListOK(w.sessions, w.calls["sessions"], u.status.ready, r, o)
<1> DEFINE w == ReloadSessions(u, refresh)
           s == u.calls["sessions"]
<1>1. PICK c \in CallType : c.page = 1 /\ w.calls["sessions"] = Append(s, c)
  BY ReloadSessionsShape
<1>2. w.sessions.items = u.sessions.items /\ w.sessions.next = u.sessions.next
  BY ReloadSessionsShape
<1>3. s \in Seq(CallType)
  BY DEF UiType, Hooks
<1> DEFINE t == Append(s, c)
<1>4. /\ t # <<>> /\ t[Len(s) + 1] = c /\ DOMAIN t = DOMAIN s \cup {Len(s) + 1}
      /\ \A i \in DOMAIN s : t[i] = s[i]
  BY <1>3, Sent
<1> HIDE DEF w, t, s
<1>5. \A i \in DOMAIN t : t[i].page # 0 /\ (t[i].page # 1 => w.sessions.items # None)
  BY <1>1, <1>2, <1>4 DEF ListOK, s
<1>6. o => \A i \in DOMAIN t : t[i].page = 1
  BY <1>1, <1>4 DEF s
<1>7. o /\ w.sessions.items # None => WholeList(w.sessions.items, w.sessions.next)
  BY <1>2 DEF ListOK
<1> QED
  BY <1>1, <1>4, <1>5, <1>6, <1>7 DEF ListOK, w, t

LEMMA ReloadRunOK ==
  ASSUME NEW u \in UiType, NEW run \in MaybeRun, NEW enabled \in BOOLEAN, NEW refresh \in BOOLEAN,
         NEW selected, NEW large, NEW o,
         o /\ selected # None /\ ~large => enabled /\ run = selected
  PROVE  LET w == ReloadRun(u, run, enabled, refresh)
         IN  ShownOK(selected, large, w.shown, w.calls["run"], o)
<1> DEFINE w == ReloadRun(u, run, enabled, refresh)
           s == u.calls["run"]
<1>1. s \in Seq(CallType)
  BY DEF UiType, Hooks
<1>2. CASE ~enabled \/ run = None
  BY <1>2, ReloadRunShape DEF ShownOK
<1>3. CASE ~(~enabled \/ run = None)
  <2>1. PICK c \in CallType : c.run = run /\ w.calls["run"] = Append(s, c)
    BY <1>3, ReloadRunShape
  <2>2. /\ Append(s, c) # <<>> /\ Append(s, c)[Len(Append(s, c))] = c
    BY <1>1, Sent
  <2> HIDE DEF w
  <2>3. w.calls["run"] # <<>> /\ w.calls["run"][Len(w.calls["run"])].run = run
    BY <2>1, <2>2
  <2>4. ShownOK(selected, large, w.shown, w.calls["run"], o)
    BY <2>3 DEF ShownOK
  <2> QED
    BY <2>4 DEF w
<1> QED
  BY <1>2, <1>3

\* A call in the queue stays in a longer one.
LEMMA AskedLater ==
  ASSUME NEW s \in Seq(CallType), NEW c \in CallType, NEW id, NEW run, NEW from, Asked(id, run, s, from)
  PROVE  Asked(id, run, Append(s, c), from)
BY Sent DEF Asked

LEMMA ReloadDetailsOK ==
  ASSUME NEW u \in UiType, NEW refresh \in BOOLEAN, NEW before, NEW o,
         DetailsOK(before, u.details, u.calls["details"], o)
  PROVE  LET w == ReloadDetails(u, refresh)
         IN  DetailsOK(u.refs, w.details, w.calls["details"], o)
<1> DEFINE w == ReloadDetails(u, refresh)
           r == u.refs
           d == u.details
           K == KeptDetails(u)
           W == Wanted(u)
           M == MissingDetails(u)
           n == NextDetails(u)
           s == u.calls["details"]
           t == w.calls["details"]
<1>1. s \in Seq(CallType)
  BY DEF UiType, Hooks
<1>2. /\ DOMAIN n.data = DOMAIN K.data \cap W /\ \A id \in DOMAIN n.data : n.data[id] = K.data[id]
      /\ n.errors = (K.errors \cap W) \ M /\ n.loading = (K.loading \cap W) \cup M
      /\ n.run = r.run
  BY DEF NextDetails, Restrict
<1>3. M = W \ (DOMAIN K.data \cup K.loading)
  BY DEF MissingDetails
<1>4. W = IF r.run = None THEN {} ELSE r.ids
  BY DEF Wanted
<1>5. K = IF d.run = r.run THEN d ELSE NoDetails
  BY DEF KeptDetails
<1>6. DOMAIN NoDetails.data = {} /\ NoDetails.loading = {} /\ NoDetails.errors = {}
  BY DEF NoDetails
<1>7. r.run \in MaybeRun
  BY KeptTyped DEF RefsType
<1>8. M = {} => t = s
  BY ReloadDetailsShape
<1>9. M # {} => \E c \in CallType : c.run = r.run /\ c.ids = M /\ t = Append(s, c)
  BY ReloadDetailsShape
<1>10. w.details = n
  BY ReloadDetailsShape
<1>11. /\ \A i \in DOMAIN s : s[i].run \in Runs
       /\ d.run = before.run
       /\ DOMAIN d.data \cup d.loading \subseteq before.ids
       /\ \A id \in DOMAIN d.data : id \in ArtifactIds[d.data[id]]
       /\ \A id \in d.loading : \E i \in DOMAIN s : id \in s[i].ids
  BY DEF DetailsOK
<1>12. o /\ before.run # None =>
       /\ \A i \in DOMAIN s : s[i].run # before.run =>
            \A id \in before.ids : Asked(id, before.run, s, i)
       /\ \A id \in DOMAIN d.data : d.data[id] # before.run =>
            id \in d.errors \/ Asked(id, before.run, s, 0)
  BY DEF DetailsOK
<1> HIDE DEF w, r, d, K, W, M, n, s, t
\* The queue: the calls before and, if anything is missing, one for it.
<1>13. /\ \A i \in DOMAIN s : i \in DOMAIN t /\ t[i] = s[i]
       /\ \A i \in DOMAIN t : i \in DOMAIN s \/ (t[i].run = r.run /\ r.run \in Runs)
       /\ M # {} => \A i \in DOMAIN s : \E j \in DOMAIN t : j > i /\ t[j].run = r.run /\ t[j].ids = M
       /\ M # {} => \E j \in DOMAIN t : j > 0 /\ t[j].run = r.run /\ t[j].ids = M
  <2>1. CASE M = {}
    BY <1>8, <2>1
  <2>2. CASE M # {}
    <3>1. PICK c \in CallType : c.run = r.run /\ c.ids = M /\ t = Append(s, c)
      BY <1>9, <2>2
    <3>2. r.run \in Runs
      BY <1>3, <1>4, <1>7, <2>2 DEF MaybeRun
    <3>3. /\ t \in Seq(CallType) /\ Len(s) \in Nat /\ DOMAIN s = 1..Len(s)
          /\ \A i \in DOMAIN s : i \in DOMAIN t /\ t[i] = s[i]
          /\ t[Len(s) + 1] = c /\ DOMAIN t = DOMAIN s \cup {Len(s) + 1}
      BY <1>1, <3>1, Sent
    <3> QED
      BY <3>1, <3>2, <3>3
  <2> QED
    BY <2>1, <2>2
<1>14. ASSUME NEW id, NEW run, NEW from, Asked(id, run, s, from)
       PROVE  Asked(id, run, t, from)
  BY <1>13, <1>14 DEF Asked
<1>15. \A i \in DOMAIN t : t[i].run \in Runs
  BY <1>11, <1>13
<1>16. DOMAIN n.data \cup n.loading \subseteq r.ids
  BY <1>2, <1>3, <1>4
<1>17. \A id \in DOMAIN n.data : id \in ArtifactIds[n.data[id]]
  BY <1>2, <1>5, <1>6, <1>11
<1>18. \A id \in n.loading : \E i \in DOMAIN t : id \in t[i].ids
  <2> TAKE id \in n.loading
  <2>1. CASE id \in M
    BY <1>13, <2>1
  <2>2. CASE id \in K.loading
    BY <1>5, <1>6, <1>11, <1>13, <2>2
  <2> QED
    BY <1>2, <2>1, <2>2
<1>19. r.run # None => r.ids \subseteq DOMAIN n.data \cup n.errors \cup n.loading
  BY <1>2, <1>3, <1>4
<1>20. ASSUME o, r.run # None, NEW i \in DOMAIN t, t[i].run # r.run, NEW id \in r.ids
       PROVE  Asked(id, r.run, t, i)
  <2>1. i \in DOMAIN s /\ s[i].run # r.run
    BY <1>13, <1>20
  <2>2. CASE id \in M
    BY <1>13, <2>1, <2>2 DEF Asked
  <2>3. CASE id \notin M
    <3>1. id \in DOMAIN K.data \cup K.loading
      BY <1>3, <1>4, <1>20, <2>3
    <3>2. K = d /\ before.run = r.run
      BY <1>5, <1>6, <1>11, <3>1
    <3>3. id \in before.ids
      BY <1>11, <3>1, <3>2
    <3>4. Asked(id, r.run, s, i)
      BY <1>12, <1>20, <2>1, <3>2, <3>3
    <3> QED
      BY <1>14, <3>4
  <2> QED
    BY <2>2, <2>3
<1>21. ASSUME o, r.run # None, NEW id \in DOMAIN n.data, n.data[id] # r.run
       PROVE  id \in n.errors \/ Asked(id, r.run, t, 0)
  <2>1. id \in DOMAIN K.data /\ id \in W /\ id \notin M /\ n.data[id] = K.data[id]
    BY <1>2, <1>3
  <2>2. K = d /\ before.run = r.run
    BY <1>5, <1>6, <1>11, <2>1
  <2>3. id \in d.errors \/ Asked(id, r.run, s, 0)
    BY <1>12, <1>21, <2>1, <2>2
  <2> QED
    BY <1>2, <1>14, <2>1, <2>2, <2>3
<1>22. DetailsOK(r, n, t, o)
  BY <1>2, <1>15, <1>16, <1>17, <1>18, <1>19, <1>20, <1>21 DEF DetailsOK
<1> QED
  BY <1>10, <1>22 DEF w, r, t

-----------------------------------------------------------------------------
(***************************************************************************)
(* A render restores the invariant after an event.                         *)
(***************************************************************************)

\* The refresh does not notice calls that are not its own.
LEMMA RefreshKept ==
  ASSUME NEW refresh, NEW ready, NEW ready2, NEW run, NEW large, NEW o, NEW calls, NEW calls2,
         RefreshOK(refresh, calls, ready, run, large, o),
         \A h \in Reloaded : Own(calls2[h]) = Own(calls[h]),
         \A h \in OfLargeRun : Own(calls2[h]) \subseteq Own(calls[h]),
         ready => ready2,
         o /\ ready /\ refresh # None => calls2["sessions"] = calls["sessions"]
  PROVE  RefreshOK(refresh, calls2, ready2, run, large, o)
<1>1. Hooks = Reloaded \cup OfLargeRun /\ "status" \in Reloaded /\ "sessions" \in Reloaded
  BY DEF Hooks, Reloaded, OfLargeRun
<1>2. refresh = None => NoOwn(calls2)
  BY <1>1 DEF RefreshOK, NoOwn
<1>3. ASSUME refresh # None
      PROVE  \E hook \in Reloaded : OneOwn(calls2, hook)
  <2>1. PICK hook \in Reloaded : OneOwn(calls, hook)
    BY <1>3 DEF RefreshOK
  <2>2. \A h \in Hooks \ {hook} : Own(calls2[h]) = {}
    BY <1>1, <2>1 DEF OneOwn
  <2>3. \E i \in Own(calls2[hook]) : Own(calls2[hook]) = {i}
    BY <2>1 DEF OneOwn
  <2> QED
    BY <2>1, <2>2, <2>3 DEF OneOwn
<1>4. refresh # None => (refresh.ready => ready2) /\ (o => refresh.run = run)
  BY DEF RefreshOK
<1>5. ASSUME refresh # None, o, ~refresh.enabled,
             Own(calls2["status"]) \cup Own(calls2["sessions"]) # {}
      PROVE  refresh.ready /\ large /\ \A i \in DOMAIN calls2["sessions"] : calls2["sessions"][i].refresh
  <2>1. Own(calls["status"]) \cup Own(calls["sessions"]) # {}
    BY <1>1, <1>5
  <2>2. refresh.ready /\ large /\ \A i \in DOMAIN calls["sessions"] : calls["sessions"][i].refresh
    BY <1>5, <2>1 DEF RefreshOK
  <2>3. ready
    BY <1>5, <2>2 DEF RefreshOK
  <2> QED
    BY <1>5, <2>2, <2>3
<1> QED
  BY <1>2, <1>3, <1>4, <1>5 DEF RefreshOK

LEMMA SameSelection ==
  ASSUME NEW u \in UiType, NEW w \in UiType,
         w.view.run = u.view.run, w.sessions.items = u.sessions.items
  PROVE  /\ IsLargeRun(w) = IsLargeRun(u)
         /\ w.status = u.status /\ w.sessions = u.sessions => LargeRunShown(w) = LargeRunShown(u)
BY DEF IsLargeRun, Listed, LargeRunShown, ShowsContent

LEMMA BooleanLarge == ASSUME NEW u PROVE IsLargeRun(u) \in BOOLEAN
BY DEF IsLargeRun

\* What holds of the page v that an event made of the page u, before the render.
Settled(u, v, o) ==
  /\ v \in UiType /\ v.refs = u.refs
  /\ u.status.ready => v.status.ready
  /\ StatusOK(v.status, v.calls["status"])
  /\ ListOK(v.sessions, v.calls["sessions"], u.status.ready, v.refresh, o)
  /\ ShownOK(u.view.run, IsLargeRun(u), v.shown, v.calls["run"], o)
  /\ DetailsOK(u.refs, v.details, v.calls["details"], o)
  /\ LargeOK(LargeRunShown(u), v.large, v.calls["large"], v.calls["requests"], v.calls["artifacts"], o)

Mid(u, v, o) ==
  /\ Settled(u, v, o)
  /\ RefreshOK(v.refresh, v.calls, u.status.ready, v.view.run, IsLargeRun(v), o)

Moved(u, v, touched, o) ==
  /\ v.view.open = u.view.open \/ touched
  /\ o => \/ v.view.run \in {u.view.run, None}
          \/ v.calls["requests"] = <<>> /\ v.calls["artifacts"] = <<>>

LEMMA WithRefsShape ==
  ASSUME NEW v \in UiType
  PROVE  LET w == WithRefs(v)
         IN  /\ w \in UiType /\ w.refs = RefsOf(v)
             /\ w.view = v.view /\ w.status = v.status /\ w.sessions = v.sessions /\ w.shown = v.shown
             /\ w.details = v.details /\ w.large = v.large /\ w.refresh = v.refresh /\ w.calls = v.calls
<1>1. RefsOf(v) \in RefsType
  BY DEF RefsOf, RefsType, UiType, ViewType, MaybeRun
<1>2. WithRefs(v) = [v EXCEPT !.refs = RefsOf(v)]
  BY DEF WithRefs, RefsOf
<1> QED
  BY <1>1, <1>2 DEF UiType

LEMMA StatusEffectOK ==
  ASSUME NEW u, NEW v \in UiType, NEW o,
         u.status.ready => v.status.ready,
         ListOK(v.sessions, v.calls["sessions"], u.status.ready, v.refresh, o)
  PROVE  LET w == StatusEffect(u, v)
         IN  /\ w \in UiType
             /\ w.view = v.view /\ w.status = v.status /\ w.shown = v.shown
             /\ w.details = v.details /\ w.refs = v.refs /\ w.large = v.large /\ w.refresh = v.refresh
             /\ w.sessions.items = v.sessions.items
             /\ \A h \in Hooks \ {"sessions"} : w.calls[h] = v.calls[h]
             /\ Own(w.calls["sessions"]) = Own(v.calls["sessions"])
             /\ u.status.ready => w.calls["sessions"] = v.calls["sessions"]
             /\ ListOK(w.sessions, w.calls["sessions"], v.status.ready, v.refresh, o)
<1>1. CASE ~(v.status.ready /\ ~u.status.ready)
  <2>1. StatusEffect(u, v) = v
    BY <1>1 DEF StatusEffect
  <2>2. ListOK(v.sessions, v.calls["sessions"], v.status.ready, v.refresh, o)
    BY DEF ListOK
  <2> QED
    BY <2>1, <2>2
<1>2. CASE v.status.ready /\ ~u.status.ready
  <2> DEFINE no == FALSE
             w == ReloadSessions(v, no)
             s == v.calls["sessions"]
  <2>1. StatusEffect(u, v) = w
    BY <1>2 DEF StatusEffect
  <2>0. no \in BOOLEAN /\ ~no
    OBVIOUS
  <2> HIDE DEF no
  <2>2. s \in Seq(CallType) /\ s = <<>>
    BY <1>2 DEF ListOK, UiType, Hooks
  <2>3. ListOK(w.sessions, w.calls["sessions"], v.status.ready, v.refresh, o)
    <3>1. ListOK(v.sessions, v.calls["sessions"], v.status.ready, v.refresh, o) /\ v.status.ready
      BY <1>2 DEF ListOK
    <3>2. o => \A i \in DOMAIN v.calls["sessions"] : v.calls["sessions"][i].page = 1
      BY <2>2
    <3> QED
      BY <2>0, <3>1, <3>2, ReloadSessionsOK
  <2>4. PICK c \in CallType : c.refresh = no /\ w.calls["sessions"] = Append(s, c)
    BY <2>0, ReloadSessionsShape
  <2>5. Own(w.calls["sessions"]) = Own(s)
    BY <2>0, <2>2, <2>4, OwnSent
  <2>6. /\ w \in UiType
        /\ w.view = v.view /\ w.status = v.status /\ w.shown = v.shown
        /\ w.details = v.details /\ w.refs = v.refs /\ w.large = v.large /\ w.refresh = v.refresh
        /\ w.sessions.items = v.sessions.items
        /\ \A h \in Hooks \ {"sessions"} : w.calls[h] = v.calls[h]
    BY <2>0, ReloadSessionsShape
  <2> HIDE DEF w
  <2> QED
    BY <1>2, <2>1, <2>3, <2>5, <2>6
<1> QED
  BY <1>1, <1>2

LEMMA RunEffectOK ==
  ASSUME NEW u \in UiType, NEW v \in UiType, NEW o,
         ShownOK(u.view.run, IsLargeRun(u), v.shown, v.calls["run"], o)
  PROVE  LET w == RunEffect(u, v)
         IN  /\ w \in UiType
             /\ w.view = v.view /\ w.status = v.status /\ w.sessions = v.sessions
             /\ w.details = v.details /\ w.refs = v.refs /\ w.large = v.large /\ w.refresh = v.refresh
             /\ \A h \in Hooks \ {"run"} : w.calls[h] = v.calls[h]
             /\ Own(w.calls["run"]) = Own(v.calls["run"])
             /\ ShownOK(v.view.run, IsLargeRun(v), w.shown, w.calls["run"], o)
<1>1. CASE u.view.run = v.view.run /\ IsLargeRun(u) = IsLargeRun(v)
  <2>1. RunEffect(u, v) = v
    BY <1>1 DEF RunEffect
  <2> QED
    BY <1>1, <2>1
<1>2. CASE ~(u.view.run = v.view.run /\ IsLargeRun(u) = IsLargeRun(v))
  <2> DEFINE enabled == ~IsLargeRun(v)
             no == FALSE
             w == ReloadRun(v, v.view.run, enabled, no)
  <2>1. RunEffect(u, v) = w
    BY <1>2 DEF RunEffect
  <2>2. v.view.run \in MaybeRun /\ v.calls["run"] \in Seq(CallType)
    BY DEF UiType, ViewType, Hooks
  <2>3. enabled \in BOOLEAN /\ no \in BOOLEAN
    OBVIOUS
  <2>0. ~no
    OBVIOUS
  <2>4. o /\ v.view.run # None /\ ~IsLargeRun(v) => enabled /\ v.view.run = v.view.run
    OBVIOUS
  <2> HIDE DEF enabled, no
  <2>5. ShownOK(v.view.run, IsLargeRun(v), w.shown, w.calls["run"], o)
    BY <2>2, <2>3, <2>4, ReloadRunOK
  <2>6. /\ w \in UiType
        /\ w.view = v.view /\ w.status = v.status /\ w.sessions = v.sessions
        /\ w.details = v.details /\ w.refs = v.refs /\ w.large = v.large /\ w.refresh = v.refresh
        /\ \A h \in Hooks \ {"run"} : w.calls[h] = v.calls[h]
    BY <2>2, <2>3, ReloadRunShape
  <2>7. Own(w.calls["run"]) = Own(v.calls["run"])
    <3>1. CASE ~enabled \/ v.view.run = None
      BY <2>2, <2>3, <3>1, ReloadRunShape
    <3>2. CASE ~(~enabled \/ v.view.run = None)
      <4>1. PICK c \in CallType : c.refresh = no /\ w.calls["run"] = Append(v.calls["run"], c)
        BY <2>2, <2>3, <3>2, ReloadRunShape
      <4> QED
        BY <2>0, <2>2, <4>1, OwnSent
    <3> QED
      BY <3>1, <3>2
  <2> HIDE DEF w
  <2> QED
    BY <2>1, <2>5, <2>6, <2>7
<1> QED
  BY <1>1, <1>2

LEMMA DetailsEffectOK ==
  ASSUME NEW u \in UiType, NEW v \in UiType, NEW touched \in BOOLEAN, NEW o,
         u.refs = RefsOf(u), v.refs = RefsOf(v), v.view.open = u.view.open \/ touched,
         DetailsOK(u.refs, v.details, v.calls["details"], o)
  PROVE  LET w == DetailsEffect(u, v, touched)
         IN  /\ w \in UiType
             /\ w.view = v.view /\ w.status = v.status /\ w.sessions = v.sessions /\ w.shown = v.shown
             /\ w.refs = v.refs /\ w.large = v.large /\ w.refresh = v.refresh
             /\ \A h \in Hooks \ {"details"} : w.calls[h] = v.calls[h]
             /\ Own(w.calls["details"]) = Own(v.calls["details"])
             /\ DetailsOK(v.refs, w.details, w.calls["details"], o)
<1> DEFINE same == u.refs.run = v.refs.run /\ IsLargeRun(u) = IsLargeRun(v) /\ (IsLargeRun(v) \/ ~touched)
           no == FALSE
           w == ReloadDetails(v, no)
<1>0. no \in BOOLEAN /\ ~no
  OBVIOUS
<1>1. DetailsEffect(u, v, touched) = IF same THEN v ELSE w
  BY DEF DetailsEffect
<1> HIDE DEF no
<1>2. CASE same
  <2>1. u.refs = v.refs
    <3>1. CASE IsLargeRun(v)
      <4>1. IsLargeRun(u)
        BY <1>2, <3>1, BooleanLarge
      <4> QED
        BY <3>1, <4>1 DEF RefsOf
    <3>2. CASE ~IsLargeRun(v)
      <4>1. ~IsLargeRun(u) /\ ~touched /\ u.refs.run = v.refs.run
        BY <1>2, <3>2, BooleanLarge
      <4>2. /\ u.refs = [run |-> u.view.run, ids |-> u.view.open]
            /\ v.refs = [run |-> v.view.run, ids |-> v.view.open]
        BY <3>2, <4>1 DEF RefsOf
      <4>3. u.view.run = v.view.run /\ u.view.open = v.view.open
        BY <4>1, <4>2
      <4> QED
        BY <4>2, <4>3
    <3> QED
      BY <3>1, <3>2
  <2> HIDE DEF same
  <2>2. DetailsEffect(u, v, touched) = v
    BY <1>1, <1>2
  <2> QED
    BY <2>1, <2>2
<1>3. CASE ~same
  <2> HIDE DEF same
  <2>1. DetailsEffect(u, v, touched) = w
    BY <1>1, <1>3
  <2>2. DetailsOK(v.refs, w.details, w.calls["details"], o)
    BY <1>0, ReloadDetailsOK
  <2>3. /\ w \in UiType
        /\ w.view = v.view /\ w.status = v.status /\ w.sessions = v.sessions /\ w.shown = v.shown
        /\ w.refs = v.refs /\ w.large = v.large /\ w.refresh = v.refresh
        /\ \A h \in Hooks \ {"details"} : w.calls[h] = v.calls[h]
    BY <1>0, ReloadDetailsShape
  <2>4. Own(w.calls["details"]) = Own(v.calls["details"])
    <3>1. v.calls["details"] \in Seq(CallType)
      BY DEF UiType, Hooks
    <3>2. CASE MissingDetails(v) = {}
      BY <1>0, <3>2, ReloadDetailsShape
    <3>3. CASE MissingDetails(v) # {}
      <4>1. PICK c \in CallType : c.refresh = no /\ w.calls["details"] = Append(v.calls["details"], c)
        BY <1>0, <3>3, ReloadDetailsShape
      <4> QED
        BY <1>0, <3>1, <4>1, OwnSent
    <3> QED
      BY <3>2, <3>3
  <2> HIDE DEF w
  <2> QED
    BY <2>1, <2>2, <2>3, <2>4
<1> QED
  BY <1>2, <1>3

LEMMA LargeEffectOK ==
  ASSUME NEW v \in UiType, NEW before, NEW o,
         LargeOK(before, v.large, v.calls["large"], v.calls["requests"], v.calls["artifacts"], o),
         o /\ LargeRunShown(v) \notin {None, before} =>
           v.calls["requests"] = <<>> /\ v.calls["artifacts"] = <<>>
  PROVE  LET w == LargeEffect(v)
         IN  /\ LargeOK(LargeRunShown(v), w.large, w.calls["large"], w.calls["requests"],
                        w.calls["artifacts"], o)
             /\ \A h \in OfLargeRun : Own(w.calls[h]) \subseteq Own(v.calls[h])
<1> DEFINE w == LargeEffect(v)
           at == LargeRunShown(v)
<1>0. /\ OfLargeRun = {"large", "requests", "artifacts"}
      /\ v.calls["requests"] \in Seq(CallType) /\ v.calls["artifacts"] \in Seq(CallType)
  BY DEF OfLargeRun, UiType, Hooks
<1>1. before = v.large.at
  BY DEF LargeOK
<1>2. CASE at = v.large.at
  <2>1. w = v
    BY <1>2, LargeEffectShape
  <2> QED
    BY <1>1, <1>2, <2>1
<1>3. CASE at # v.large.at /\ at = None
  <2>1. /\ w.large.at = at /\ w.large.run = None /\ w.large.page = None /\ w.large.artifacts = None
        /\ \A h \in OfLargeRun : w.calls[h] = <<>>
    BY <1>3, LargeEffectShape
  <2> HIDE DEF w, at
  <2>2. w.calls["large"] = <<>> /\ w.calls["requests"] = <<>> /\ w.calls["artifacts"] = <<>>
    BY <1>0, <2>1
  <2>3. LargeOK(at, w.large, w.calls["large"], w.calls["requests"], w.calls["artifacts"], o)
    BY <2>1, <2>2 DEF LargeOK
  <2>4. \A h \in OfLargeRun : Own(w.calls[h]) = {}
    BY <2>1 DEF Own
  <2> QED
    BY <2>3, <2>4 DEF w, at
<1>4. CASE at # v.large.at /\ at # None
  <2>1. /\ w.large.at = at /\ w.large.run = None /\ w.large.page = None /\ w.large.artifacts = None
        /\ w.calls["requests"] = v.calls["requests"] /\ w.calls["artifacts"] = v.calls["artifacts"]
    BY <1>4, LargeEffectShape
  <2>2. PICK c \in CallType : c.run = at /\ ~c.refresh /\ w.calls["large"] = Append(<<>>, c)
    BY <1>4, LargeEffectShape
  <2>3. o => v.calls["requests"] = <<>> /\ v.calls["artifacts"] = <<>>
    BY <1>1, <1>4
  <2> HIDE DEF w, at
  <2>4. DOMAIN w.calls["large"] = {1} /\ w.calls["large"][1] = c
    BY <2>2
  <2>5. LargeOK(at, w.large, w.calls["large"], w.calls["requests"], w.calls["artifacts"], o)
    BY <1>4, <2>1, <2>2, <2>3, <2>4 DEF LargeOK
  <2>6. Own(w.calls["large"]) = {}
    BY <2>2, <2>4 DEF Own
  <2>7. \A h \in OfLargeRun : Own(w.calls[h]) \subseteq Own(v.calls[h])
    BY <1>0, <2>1, <2>6
  <2> QED
    BY <2>5, <2>7 DEF w, at
<1> QED
  BY <1>2, <1>3, <1>4

LEMMA RenderedOK ==
  ASSUME NEW u, NEW v, NEW touched \in BOOLEAN, NEW o,
         u \in UiType, u.refs = RefsOf(u), Mid(u, v, o), Moved(u, v, touched, o)
  PROVE  UiOK(Rendered(u, v, touched), o)
<1> DEFINE v1 == WithRefs(v)
           v2 == StatusEffect(u, v1)
           v3 == RunEffect(u, v2)
           v4 == DetailsEffect(u, v3, touched)
           w == LargeEffect(v4)
           large == IsLargeRun(v)
<1>0. /\ Hooks = Reloaded \cup OfLargeRun /\ Reloaded \cap OfLargeRun = {}
      /\ Reloaded = {"status", "sessions", "run", "details"} /\ OfLargeRun = {"large", "requests", "artifacts"}
  BY DEF Hooks, Reloaded, OfLargeRun
<1>1. /\ v \in UiType /\ v.refs = u.refs
      /\ u.status.ready => v.status.ready
      /\ StatusOK(v.status, v.calls["status"])
      /\ ListOK(v.sessions, v.calls["sessions"], u.status.ready, v.refresh, o)
      /\ ShownOK(u.view.run, IsLargeRun(u), v.shown, v.calls["run"], o)
      /\ DetailsOK(u.refs, v.details, v.calls["details"], o)
      /\ LargeOK(LargeRunShown(u), v.large, v.calls["large"], v.calls["requests"], v.calls["artifacts"], o)
      /\ RefreshOK(v.refresh, v.calls, u.status.ready, v.view.run, large, o)
  BY DEF Mid, Settled
<1>2. Rendered(u, v, touched) = w
  BY DEF Rendered
<1>3. /\ v1 \in UiType /\ v1.refs = RefsOf(v)
      /\ v1.view = v.view /\ v1.status = v.status /\ v1.sessions = v.sessions /\ v1.shown = v.shown
      /\ v1.details = v.details /\ v1.large = v.large /\ v1.refresh = v.refresh /\ v1.calls = v.calls
  BY <1>1, WithRefsShape
<1> HIDE DEF v1
<1>4. /\ v2 \in UiType
      /\ v2.view = v1.view /\ v2.status = v1.status /\ v2.shown = v1.shown
      /\ v2.details = v1.details /\ v2.refs = v1.refs /\ v2.large = v1.large /\ v2.refresh = v1.refresh
      /\ v2.sessions.items = v1.sessions.items
      /\ \A h \in Hooks \ {"sessions"} : v2.calls[h] = v1.calls[h]
      /\ Own(v2.calls["sessions"]) = Own(v1.calls["sessions"])
      /\ u.status.ready => v2.calls["sessions"] = v1.calls["sessions"]
      /\ ListOK(v2.sessions, v2.calls["sessions"], v1.status.ready, v1.refresh, o)
  <2>1. u.status.ready => v1.status.ready
    BY <1>1, <1>3
  <2>2. ListOK(v1.sessions, v1.calls["sessions"], u.status.ready, v1.refresh, o)
    BY <1>1, <1>3
  <2> QED
    BY <1>3, <2>1, <2>2, StatusEffectOK
<1> HIDE DEF v2
<1>5. /\ v3 \in UiType
      /\ v3.view = v2.view /\ v3.status = v2.status /\ v3.sessions = v2.sessions
      /\ v3.details = v2.details /\ v3.refs = v2.refs /\ v3.large = v2.large /\ v3.refresh = v2.refresh
      /\ \A h \in Hooks \ {"run"} : v3.calls[h] = v2.calls[h]
      /\ Own(v3.calls["run"]) = Own(v2.calls["run"])
      /\ ShownOK(v2.view.run, IsLargeRun(v2), v3.shown, v3.calls["run"], o)
  <2>1. v2.calls["run"] = v1.calls["run"]
    BY <1>4 DEF Hooks
  <2>2. ShownOK(u.view.run, IsLargeRun(u), v2.shown, v2.calls["run"], o)
    BY <1>1, <1>3, <1>4, <2>1
  <2> QED
    BY <1>4, <2>2, RunEffectOK
<1> HIDE DEF v3
<1>6. /\ IsLargeRun(v2) = large /\ IsLargeRun(v3) = large /\ RefsOf(v3) = RefsOf(v)
  <2>1. IsLargeRun(v2) = large
    BY <1>1, <1>3, <1>4, SameSelection
  <2>2. IsLargeRun(v3) = large
    BY <1>1, <1>3, <1>4, <1>5, SameSelection
  <2> QED
    BY <1>3, <1>4, <1>5, <2>1, <2>2 DEF RefsOf
<1>7. /\ v4 \in UiType
      /\ v4.view = v3.view /\ v4.status = v3.status /\ v4.sessions = v3.sessions /\ v4.shown = v3.shown
      /\ v4.refs = v3.refs /\ v4.large = v3.large /\ v4.refresh = v3.refresh
      /\ \A h \in Hooks \ {"details"} : v4.calls[h] = v3.calls[h]
      /\ Own(v4.calls["details"]) = Own(v3.calls["details"])
      /\ DetailsOK(v3.refs, v4.details, v4.calls["details"], o)
  <2>1. v3.calls["details"] = v.calls["details"]
    BY <1>3, <1>4, <1>5 DEF Hooks
  <2>2. DetailsOK(u.refs, v3.details, v3.calls["details"], o)
    BY <1>1, <1>3, <1>4, <1>5, <2>1
  <2>3. v3.refs = RefsOf(v3)
    BY <1>3, <1>4, <1>5, <1>6
  <2>4. v3.view.open = u.view.open \/ touched
    BY <1>3, <1>4, <1>5 DEF Moved
  <2> QED
    BY <1>5, <2>2, <2>3, <2>4, DetailsEffectOK
<1> HIDE DEF v4
<1>8. \A h \in OfLargeRun : v4.calls[h] = v.calls[h]
  BY <1>0, <1>3, <1>4, <1>5, <1>7
<1>9. /\ w \in UiType
      /\ w.view = v4.view /\ w.status = v4.status /\ w.sessions = v4.sessions /\ w.shown = v4.shown
      /\ w.details = v4.details /\ w.refs = v4.refs /\ w.refresh = v4.refresh
      /\ \A h \in Hooks \ OfLargeRun : w.calls[h] = v4.calls[h]
  BY <1>7, LargeEffectShape
<1>10. /\ LargeOK(LargeRunShown(v4), w.large, w.calls["large"], w.calls["requests"], w.calls["artifacts"], o)
       /\ \A h \in OfLargeRun : Own(w.calls[h]) \subseteq Own(v4.calls[h])
  <2>1. v4.large = v.large
    BY <1>3, <1>4, <1>5, <1>7
  <2>2. v4.calls["large"] = v.calls["large"] /\ v4.calls["requests"] = v.calls["requests"]
        /\ v4.calls["artifacts"] = v.calls["artifacts"]
    BY <1>0, <1>8
  <2>3. LargeOK(LargeRunShown(u), v4.large, v4.calls["large"], v4.calls["requests"], v4.calls["artifacts"], o)
    BY <1>1, <2>1, <2>2
  <2>4. ASSUME o, LargeRunShown(v4) \notin {None, LargeRunShown(u)}
        PROVE  v4.calls["requests"] = <<>> /\ v4.calls["artifacts"] = <<>>
    <3>1. LargeRunShown(v4) = v.view.run /\ v.view.run # None
      BY <1>3, <1>4, <1>5, <1>7, <2>4 DEF LargeRunShown
    <3>2. CASE LargeRunShown(u) = None
      BY <1>1, <2>2, <3>2 DEF LargeOK
    <3>3. CASE LargeRunShown(u) # None
      <4>1. LargeRunShown(u) = u.view.run
        BY <3>3 DEF LargeRunShown
      <4> QED
        BY <2>2, <2>4, <3>1, <4>1 DEF Moved
    <3> QED
      BY <3>2, <3>3
  <2> QED
    BY <1>7, <2>3, <2>4, LargeEffectOK
<1> HIDE DEF w
<1>11. LargeRunShown(w) = LargeRunShown(v4) /\ IsLargeRun(w) = large
  <2>1. IsLargeRun(w) = large
    BY <1>1, <1>3, <1>4, <1>5, <1>7, <1>9, SameSelection
  <2> QED
    BY <1>7, <1>9, <2>1, SameSelection
<1>12. w.refs = RefsOf(w)
  <2>1. w.refs = RefsOf(v) /\ w.view = v.view
    BY <1>3, <1>4, <1>5, <1>7, <1>9
  <2> QED
    BY <1>11, <2>1 DEF RefsOf
<1>13. StatusOK(w.status, w.calls["status"])
  <2>1. w.status = v.status /\ w.calls["status"] = v.calls["status"]
    BY <1>0, <1>3, <1>4, <1>5, <1>7, <1>9
  <2> QED
    BY <1>1, <2>1
<1>14. ListOK(w.sessions, w.calls["sessions"], w.status.ready, w.refresh, o)
  <2>1. /\ w.sessions = v2.sessions /\ w.calls["sessions"] = v2.calls["sessions"]
        /\ w.status.ready = v1.status.ready /\ w.refresh = v1.refresh
    BY <1>0, <1>4, <1>5, <1>7, <1>9
  <2> QED
    BY <1>4, <2>1
<1>15. ShownOK(w.view.run, IsLargeRun(w), w.shown, w.calls["run"], o)
  <2>1. w.shown = v3.shown /\ w.calls["run"] = v3.calls["run"] /\ w.view.run = v2.view.run
    BY <1>0, <1>5, <1>7, <1>9
  <2> QED
    BY <1>5, <1>6, <1>11, <2>1
<1>16. DetailsOK(w.refs, w.details, w.calls["details"], o)
  <2>1. w.refs = v3.refs /\ w.details = v4.details /\ w.calls["details"] = v4.calls["details"]
    BY <1>0, <1>7, <1>9
  <2> QED
    BY <1>7, <2>1
<1>17. RefreshOK(w.refresh, w.calls, w.status.ready, w.view.run, IsLargeRun(w), o)
  <2>1. w.refresh = v.refresh /\ w.status.ready = v.status.ready /\ w.view.run = v.view.run
    BY <1>3, <1>4, <1>5, <1>7, <1>9
  <2>2. \A h \in Reloaded : Own(w.calls[h]) = Own(v.calls[h])
    BY <1>0, <1>3, <1>4, <1>5, <1>7, <1>9
  <2>3. \A h \in OfLargeRun : Own(w.calls[h]) \subseteq Own(v.calls[h])
    BY <1>8, <1>10
  <2>4. u.status.ready => w.calls["sessions"] = v.calls["sessions"]
    BY <1>0, <1>3, <1>4, <1>5, <1>7, <1>9
  <2>5. RefreshOK(v.refresh, w.calls, v.status.ready, v.view.run, large, o)
    <3> HIDE DEF large
    <3> QED
      BY <1>1, <2>2, <2>3, <2>4, RefreshKept
  <2> QED
    BY <1>11, <2>1, <2>5
<1> QED
  BY <1>2, <1>9, <1>10, <1>11, <1>12, <1>13, <1>14, <1>15, <1>16, <1>17 DEF UiOK

-----------------------------------------------------------------------------
(***************************************************************************)
(* What a refresh does once its call is answered.                          *)
(***************************************************************************)

\* Between the answer to a call of the refresh and the call it makes next.
Loose(u, v, o) ==
  /\ Settled(u, v, o)
  /\ v.view = u.view /\ NoOwn(v.calls)
  /\ v.refresh # None
  /\ v.refresh.ready => u.status.ready
  /\ o => v.refresh.run = u.view.run

\* Ready for the render, as to the refresh and the selection too.
Continues(u, n, o) == Mid(u, n, o) /\ Moved(u, n, n.refresh = None, o)

LEMMA RefreshTyped ==
  ASSUME NEW v \in UiType, v.refresh # None
  PROVE  /\ v.refresh \in Refreshes
         /\ v.refresh.run \in MaybeRun /\ v.refresh.enabled \in BOOLEAN /\ v.refresh.ready \in BOOLEAN
         /\ v.refresh.items \in SUBSET Runs /\ v.refresh.data \in MaybeRun
<1>1. v.refresh \in Refreshes
  BY DEF UiType
<1> QED
  BY <1>1 DEF Refreshes, MaybeRun

LEMMA AfterDetailsOK ==
  ASSUME NEW u \in UiType, NEW v, NEW o, Loose(u, v, o)
  PROVE  Continues(u, AfterDetails(v), o)
<1> DEFINE view == Reconciled(v.view, v.refresh.items, v.refresh.data)
           w == AfterDetails(v)
<1>1. v \in UiType /\ v.view = u.view /\ NoOwn(v.calls) /\ v.refresh # None /\ v.view \in ViewType
  BY DEF Loose, Settled, UiType
<1>2. view \in ViewType /\ view.run \in {u.view.run, None}
  <2> DEFINE kept == IF v.view.run = None \/ v.view.run \in v.refresh.items
                       THEN v.view ELSE [run |-> None, open |-> {}]
             open == IF v.refresh.data = None THEN {} ELSE kept.open \cap ArtifactIds[v.refresh.data]
  <2>1. kept \in ViewType /\ kept.run \in {u.view.run, None}
    BY <1>1 DEF ViewType, MaybeRun
  <2>2. view = [kept EXCEPT !.open = open]
    BY DEF Reconciled
  <2> HIDE DEF kept
  <2>3. open \in SUBSET Ids
    BY <2>1 DEF ViewType
  <2> HIDE DEF open, view
  <2> QED
    BY <2>1, <2>2, <2>3 DEF ViewType
<1>3. w = [v EXCEPT !.view = view, !.refresh = None]
  BY DEF AfterDetails
<1> HIDE DEF view, w
<1>4. /\ w \in UiType /\ w.view = view /\ w.refresh = None
      /\ w.status = v.status /\ w.sessions = v.sessions /\ w.shown = v.shown
      /\ w.details = v.details /\ w.refs = v.refs /\ w.large = v.large /\ w.calls = v.calls
  BY <1>1, <1>2, <1>3 DEF UiType
<1>5. ListOK(w.sessions, w.calls["sessions"], u.status.ready, w.refresh, o)
  BY <1>4 DEF Loose, Settled, ListOK
<1>6. Settled(u, w, o)
  BY <1>4, <1>5 DEF Loose, Settled
<1>7. RefreshOK(w.refresh, w.calls, u.status.ready, w.view.run, IsLargeRun(w), o)
  BY <1>1, <1>4 DEF RefreshOK
<1> QED
  BY <1>2, <1>4, <1>6, <1>7 DEF Continues, Mid, Moved, w

\* The refresh's next call is the one it waits for.
LEMMA OwnCallSent ==
  ASSUME NEW calls \in [Hooks -> Seq(CallType)], NEW calls2, NEW hook \in Hooks, NEW c \in CallType,
         NoOwn(calls), c.refresh, calls2[hook] = Append(calls[hook], c),
         \A h \in Hooks \ {hook} : calls2[h] = calls[h]
  PROVE  OneOwn(calls2, hook)
<1>1. calls[hook] \in Seq(CallType)
  OBVIOUS
<1>2. Own(calls2[hook]) = Own(calls[hook]) \cup {Len(calls[hook]) + 1}
  BY <1>1, OwnSent
<1>3. Own(calls2[hook]) = {Len(calls[hook]) + 1}
  BY <1>2 DEF NoOwn
<1> QED
  BY <1>3 DEF OneOwn, NoOwn

LEMMA AfterRunOK ==
  ASSUME NEW u \in UiType, NEW v, NEW o, Loose(u, v, o)
  PROVE  Continues(u, AfterRun(v), o)
<1> DEFINE yes == TRUE
           w == ReloadDetails(v, yes)
<1>0. yes \in BOOLEAN
  OBVIOUS
<1>9. yes
  OBVIOUS
<1>1. v \in UiType /\ v.refs = u.refs /\ v.calls \in [Hooks -> Seq(CallType)] /\ NoOwn(v.calls)
  BY DEF Loose, Settled, UiType
<1>2. AfterRun(v) = IF w.calls # v.calls THEN w ELSE AfterDetails(w)
  BY DEF AfterRun
<1> HIDE DEF yes
<1>3. /\ w \in UiType
      /\ w.view = v.view /\ w.status = v.status /\ w.sessions = v.sessions
      /\ w.shown = v.shown /\ w.refs = v.refs /\ w.large = v.large /\ w.refresh = v.refresh
      /\ \A h \in Hooks \ {"details"} : w.calls[h] = v.calls[h]
      /\ MissingDetails(v) = {} => w.calls = v.calls
  BY <1>0, <1>1, ReloadDetailsShape
<1>4. MissingDetails(v) # {} =>
        \E c \in CallType : c.refresh = yes /\ w.calls["details"] = Append(v.calls["details"], c)
  BY <1>0, <1>1, ReloadDetailsShape
<1>5. DetailsOK(u.refs, w.details, w.calls["details"], o)
  <2>1. DetailsOK(u.refs, v.details, v.calls["details"], o)
    BY DEF Loose, Settled
  <2>2. DetailsOK(v.refs, w.details, w.calls["details"], o)
    BY <1>0, <1>1, <2>1, ReloadDetailsOK
  <2> QED
    BY <1>1, <2>2
<1> HIDE DEF w
<1>6. Settled(u, w, o)
  <2>1. /\ w.calls["status"] = v.calls["status"] /\ w.calls["sessions"] = v.calls["sessions"]
        /\ w.calls["run"] = v.calls["run"] /\ w.calls["large"] = v.calls["large"]
        /\ w.calls["requests"] = v.calls["requests"] /\ w.calls["artifacts"] = v.calls["artifacts"]
    BY <1>3 DEF Hooks
  <2> QED
    BY <1>3, <1>5, <2>1 DEF Loose, Settled
<1>7. CASE w.calls = v.calls
  <2>1. Loose(u, w, o)
    BY <1>3, <1>6, <1>7 DEF Loose
  <2> QED
    BY <1>2, <1>7, <2>1, AfterDetailsOK
<1>8. CASE w.calls # v.calls
  <2>1. PICK c \in CallType : c.refresh = yes /\ w.calls["details"] = Append(v.calls["details"], c)
    BY <1>3, <1>4, <1>8
  <2>2. OneOwn(w.calls, "details") /\ "details" \in Reloaded
    BY <1>1, <1>3, <1>9, <2>1, OwnCallSent DEF Hooks, Reloaded
  <2>3. Own(w.calls["status"]) \cup Own(w.calls["sessions"]) = {}
    BY <2>2 DEF OneOwn, Hooks
  <2>4. /\ w.refresh # None /\ (w.refresh.ready => u.status.ready)
        /\ (o => w.refresh.run = w.view.run) /\ w.view = u.view
    BY <1>3 DEF Loose
  <2>5. RefreshOK(w.refresh, w.calls, u.status.ready, w.view.run, IsLargeRun(w), o)
    BY <2>2, <2>3, <2>4 DEF RefreshOK
  <2> QED
    BY <1>2, <1>6, <1>8, <2>4, <2>5 DEF Continues, Mid, Moved
<1> QED
  BY <1>7, <1>8

LEMMA AfterSessionsOK ==
  ASSUME NEW u \in UiType, NEW v, NEW o, Loose(u, v, o),
         o /\ ~v.refresh.enabled => IsLargeRun(u)
  PROVE  Continues(u, AfterSessions(v), o)
<1> DEFINE yes == TRUE
           run == v.refresh.run
           enabled == v.refresh.enabled
           w == ReloadRun(v, run, enabled, yes)
<1>0. yes \in BOOLEAN
  OBVIOUS
<1>1. v \in UiType /\ v.calls \in [Hooks -> Seq(CallType)] /\ NoOwn(v.calls)
  BY DEF Loose, Settled, UiType
<1>2. run \in MaybeRun /\ enabled \in BOOLEAN
  BY <1>1, RefreshTyped DEF Loose
<1>3. AfterSessions(v) = IF w.calls # v.calls THEN w ELSE AfterRun(w)
  BY DEF AfterSessions
<1>4. o /\ u.view.run # None /\ ~IsLargeRun(u) => enabled /\ run = u.view.run
  BY DEF Loose
<1>9. yes
  OBVIOUS
<1> HIDE DEF yes, run, enabled
<1>5. /\ w \in UiType
      /\ w.view = v.view /\ w.status = v.status /\ w.sessions = v.sessions
      /\ w.details = v.details /\ w.refs = v.refs /\ w.large = v.large /\ w.refresh = v.refresh
      /\ \A h \in Hooks \ {"run"} : w.calls[h] = v.calls[h]
      /\ ~enabled \/ run = None => w.calls = v.calls
  BY <1>0, <1>1, <1>2, ReloadRunShape
<1>6. ~(~enabled \/ run = None) =>
        \E c \in CallType : c.refresh = yes /\ w.calls["run"] = Append(v.calls["run"], c)
  BY <1>0, <1>1, <1>2, ReloadRunShape
<1>7. ShownOK(u.view.run, IsLargeRun(u), w.shown, w.calls["run"], o)
  BY <1>0, <1>1, <1>2, <1>4, ReloadRunOK
<1> HIDE DEF w
<1>8. Settled(u, w, o)
  <2>1. /\ w.calls["status"] = v.calls["status"] /\ w.calls["sessions"] = v.calls["sessions"]
        /\ w.calls["details"] = v.calls["details"] /\ w.calls["large"] = v.calls["large"]
        /\ w.calls["requests"] = v.calls["requests"] /\ w.calls["artifacts"] = v.calls["artifacts"]
    BY <1>5 DEF Hooks
  <2> QED
    BY <1>5, <1>7, <2>1 DEF Loose, Settled
<1>10. CASE w.calls = v.calls
  <2>1. Loose(u, w, o)
    BY <1>5, <1>8, <1>10 DEF Loose
  <2> QED
    BY <1>3, <1>10, <2>1, AfterRunOK
<1>11. CASE w.calls # v.calls
  <2>1. PICK c \in CallType : c.refresh = yes /\ w.calls["run"] = Append(v.calls["run"], c)
    BY <1>5, <1>6, <1>11
  <2>2. OneOwn(w.calls, "run") /\ "run" \in Reloaded
    BY <1>1, <1>5, <1>9, <2>1, OwnCallSent DEF Hooks, Reloaded
  <2>3. Own(w.calls["status"]) \cup Own(w.calls["sessions"]) = {}
    BY <2>2 DEF OneOwn, Hooks
  <2>4. /\ w.refresh # None /\ (w.refresh.ready => u.status.ready)
        /\ (o => w.refresh.run = w.view.run) /\ w.view = u.view
    BY <1>5 DEF Loose
  <2>5. RefreshOK(w.refresh, w.calls, u.status.ready, w.view.run, IsLargeRun(w), o)
    BY <2>2, <2>3, <2>4 DEF RefreshOK
  <2> QED
    BY <1>3, <1>8, <1>11, <2>4, <2>5 DEF Continues, Mid, Moved
<1> QED
  BY <1>10, <1>11

LEMMA AfterStatusOK ==
  ASSUME NEW u \in UiType, NEW v, NEW o, Loose(u, v, o),
         o /\ ~v.refresh.enabled =>
           v.refresh.ready /\ IsLargeRun(u) /\ IsLargeRun(v) /\ v.calls["sessions"] = <<>>
  PROVE  Continues(u, AfterStatus(v), o)
<1>1. v \in UiType /\ v.calls \in [Hooks -> Seq(CallType)] /\ NoOwn(v.calls) /\ v.refresh # None
  BY DEF Loose, Settled, UiType
<1>2. CASE ~v.refresh.ready
  <2>1. AfterStatus(v) = AfterSessions(v)
    BY <1>2 DEF AfterStatus
  <2> QED
    BY <2>1, AfterSessionsOK
<1>3. CASE v.refresh.ready
  <2> DEFINE yes == TRUE
             w == ReloadSessions(v, yes)
  <2>0. yes \in BOOLEAN
    OBVIOUS
  <2>9. yes
    OBVIOUS
  <2>1. AfterStatus(v) = w
    BY <1>3 DEF AfterStatus
  <2> HIDE DEF yes
  <2>2. u.status.ready /\ v.status.ready
    BY <1>3 DEF Loose, Settled
  <2>3. /\ w \in UiType
        /\ w.view = v.view /\ w.status = v.status /\ w.shown = v.shown
        /\ w.details = v.details /\ w.refs = v.refs /\ w.large = v.large /\ w.refresh = v.refresh
        /\ w.sessions.items = v.sessions.items
        /\ \A h \in Hooks \ {"sessions"} : w.calls[h] = v.calls[h]
    BY <1>1, <2>0, ReloadSessionsShape
  <2>4. PICK c \in CallType : c.refresh = yes /\ w.calls["sessions"] = Append(v.calls["sessions"], c)
    BY <1>1, <2>0, ReloadSessionsShape
  <2>5. ListOK(v.sessions, v.calls["sessions"], v.status.ready, v.refresh, o)
    BY <2>2 DEF Loose, Settled, ListOK
  <2>6. o => \A i \in DOMAIN v.calls["sessions"] : v.calls["sessions"][i].page = 1
    BY <1>1, <2>5 DEF ListOK
  <2>7. ListOK(w.sessions, w.calls["sessions"], v.status.ready, v.refresh, o)
    BY <1>1, <2>0, <2>2, <2>5, <2>6, ReloadSessionsOK
  <2> HIDE DEF w
  <2>8. ListOK(w.sessions, w.calls["sessions"], u.status.ready, w.refresh, o)
    BY <2>2, <2>3, <2>7 DEF ListOK
  <2>10. Settled(u, w, o)
    <3>1. /\ w.calls["status"] = v.calls["status"] /\ w.calls["run"] = v.calls["run"]
          /\ w.calls["details"] = v.calls["details"] /\ w.calls["large"] = v.calls["large"]
          /\ w.calls["requests"] = v.calls["requests"] /\ w.calls["artifacts"] = v.calls["artifacts"]
      BY <2>3 DEF Hooks
    <3> QED
      BY <2>3, <2>8, <3>1 DEF Loose, Settled
  <2>11. OneOwn(w.calls, "sessions") /\ "sessions" \in Reloaded
    BY <1>1, <2>3, <2>4, <2>9, OwnCallSent DEF Hooks, Reloaded
  <2>12. ASSUME o, ~w.refresh.enabled
         PROVE  w.refresh.ready /\ IsLargeRun(w) /\ \A i \in DOMAIN w.calls["sessions"] : w.calls["sessions"][i].refresh
    <3>1. w.refresh.ready /\ IsLargeRun(v) /\ v.calls["sessions"] = <<>>
      BY <2>3, <2>12
    <3>2. IsLargeRun(w)
      BY <1>1, <2>3, <3>1, SameSelection
    <3>3. DOMAIN w.calls["sessions"] = {1} /\ w.calls["sessions"][1] = c
      BY <2>4, <3>1
    <3> QED
      BY <2>4, <2>9, <3>1, <3>2, <3>3
  <2>13. /\ w.refresh # None /\ (w.refresh.ready => u.status.ready)
         /\ (o => w.refresh.run = w.view.run) /\ w.view = u.view
    BY <2>3 DEF Loose
  <2>14. RefreshOK(w.refresh, w.calls, u.status.ready, w.view.run, IsLargeRun(w), o)
    BY <2>11, <2>12, <2>13 DEF RefreshOK
  <2> QED
    BY <2>1, <2>10, <2>13, <2>14 DEF Continues, Mid, Moved
<1> QED
  BY <1>2, <1>3

-----------------------------------------------------------------------------
(***************************************************************************)
(* The answers.                                                            *)
(***************************************************************************)

\* The page once the i-th call of a hook is taken off the queue.
Took(u, hook, i) == [u EXCEPT !.calls[hook] = RemoveAt(@, i)]

LEMMA TookShape ==
  ASSUME NEW u \in UiType, NEW hook \in Hooks, NEW i \in DOMAIN u.calls[hook]
  PROVE  LET w == Took(u, hook, i)
         IN  /\ w \in UiType
             /\ w.view = u.view /\ w.status = u.status /\ w.sessions = u.sessions /\ w.shown = u.shown
             /\ w.details = u.details /\ w.refs = u.refs /\ w.large = u.large /\ w.refresh = u.refresh
             /\ w.calls[hook] = RemoveAt(u.calls[hook], i)
             /\ \A h \in Hooks \ {hook} : w.calls[h] = u.calls[h]
             /\ u.calls[hook] \in Seq(CallType) /\ u.calls[hook][i] \in CallType
<1>1. u.calls \in [Hooks -> Seq(CallType)]
  BY DEF UiType
<1>2. u.calls[hook] \in Seq(CallType)
  BY <1>1
<1>3. RemoveAt(u.calls[hook], i) \in Seq(CallType) /\ u.calls[hook][i] \in CallType
  BY <1>2, Taken
<1> QED
  BY <1>1, <1>2, <1>3 DEF Took, UiType

\* A hook has taken the answer to its i-th call.
Handled(u, a, hook, i, o) ==
  /\ Settled(u, a, o)
  /\ a.view = u.view /\ a.refresh = u.refresh /\ a.calls = Took(u, hook, i).calls
  /\ hook # "sessions" => a.sessions.items = u.sessions.items

LEMMA RefreshTaken ==
  ASSUME NEW r, NEW calls \in [Hooks -> Seq(CallType)], NEW calls2, NEW ready, NEW run, NEW large, NEW large2,
         NEW o, NEW hook \in Hooks, NEW i \in DOMAIN calls[hook],
         RefreshOK(r, calls, ready, run, large, o), ~calls[hook][i].refresh,
         calls2[hook] = RemoveAt(calls[hook], i),
         \A h \in Hooks \ {hook} : calls2[h] = calls[h],
         hook # "sessions" /\ large => large2
  PROVE  RefreshOK(r, calls2, ready, run, large2, o)
<1>0. calls[hook] \in Seq(CallType) /\ i \notin Own(calls[hook])
  BY DEF Own
<1>1. /\ Own(calls[hook]) = {} => Own(calls2[hook]) = {}
      /\ (\E k \in Own(calls[hook]) : Own(calls[hook]) = {k}) =>
           \E k \in Own(calls2[hook]) : Own(calls2[hook]) = {k}
      /\ Own(calls2[hook]) # {} => Own(calls[hook]) # {}
  BY <1>0, OwnTaken
<1>2. r = None => NoOwn(calls2)
  BY <1>1 DEF RefreshOK, NoOwn
<1>3. ASSUME r # None
      PROVE  \E h \in Reloaded : OneOwn(calls2, h)
  <2>1. PICK h \in Reloaded : OneOwn(calls, h)
    BY <1>3 DEF RefreshOK
  <2>2. \A g \in Hooks \ {h} : Own(calls2[g]) = {}
    BY <1>1, <2>1 DEF OneOwn
  <2>3. \E k \in Own(calls2[h]) : Own(calls2[h]) = {k}
    <3>1. h \in Hooks /\ \E k \in Own(calls[h]) : Own(calls[h]) = {k}
      BY <2>1 DEF OneOwn, Reloaded, Hooks
    <3>2. CASE h = hook
      BY <1>1, <3>1, <3>2
    <3>3. CASE h # hook
      <4>1. calls2[h] = calls[h]
        BY <3>1, <3>3
      <4> QED
        BY <3>1, <4>1
    <3> QED
      BY <3>2, <3>3
  <2> QED
    BY <2>1, <2>2, <2>3 DEF OneOwn
<1>4. ASSUME r # None, o, ~r.enabled, Own(calls2["status"]) \cup Own(calls2["sessions"]) # {}
      PROVE  r.ready /\ large2 /\ \A j \in DOMAIN calls2["sessions"] : calls2["sessions"][j].refresh
  <2>1. Own(calls["status"]) \cup Own(calls["sessions"]) # {}
    BY <1>1, <1>4 DEF Hooks
  <2>2. r.ready /\ large /\ \A j \in DOMAIN calls["sessions"] : calls["sessions"][j].refresh
    BY <1>4, <2>1 DEF RefreshOK
  <2>3. hook # "sessions"
    BY <2>2
  <2>4. calls2["sessions"] = calls["sessions"]
    BY <2>3 DEF Hooks
  <2> QED
    BY <2>2, <2>3, <2>4
<1> QED
  BY <1>2, <1>3, <1>4 DEF RefreshOK

\* What a refresh finds when its call is answered.
RefreshGoesOn(r, calls, calls2, ready, run, large, o, hook) ==
  /\ r # None /\ NoOwn(calls2) /\ hook \in Reloaded
  /\ r.ready => ready
  /\ o => r.run = run
  /\ o /\ ~r.enabled /\ hook \in {"status", "sessions"} => r.ready /\ large
  /\ o /\ ~r.enabled /\ hook = "status" => calls["sessions"] = <<>>

LEMMA RefreshAnswered ==
  ASSUME NEW r, NEW calls \in [Hooks -> Seq(CallType)], NEW calls2, NEW ready, NEW run, NEW large,
         NEW o, NEW hook \in Hooks, NEW i \in DOMAIN calls[hook],
         RefreshOK(r, calls, ready, run, large, o), calls[hook][i].refresh,
         calls2[hook] = RemoveAt(calls[hook], i),
         \A h \in Hooks \ {hook} : calls2[h] = calls[h]
  PROVE  RefreshGoesOn(r, calls, calls2, ready, run, large, o, hook)
<1>0. calls[hook] \in Seq(CallType) /\ i \in Own(calls[hook])
  BY DEF Own
<1>1. r # None
  BY <1>0 DEF RefreshOK, NoOwn
<1>2. PICK h \in Reloaded : OneOwn(calls, h)
  BY <1>1 DEF RefreshOK
<1>3. h = hook
  BY <1>0, <1>2 DEF OneOwn
<1>4. Own(calls2[hook]) = {}
  BY <1>0, <1>2, <1>3, OwnTaken DEF OneOwn
<1>5. NoOwn(calls2)
  BY <1>2, <1>3, <1>4 DEF NoOwn, OneOwn
<1>6. ASSUME o, ~r.enabled, hook \in {"status", "sessions"}
      PROVE  /\ r.ready /\ large
             /\ hook = "status" => calls["sessions"] = <<>>
  <2>1. Own(calls["status"]) \cup Own(calls["sessions"]) # {}
    BY <1>0, <1>6
  <2>2. r.ready /\ large /\ \A j \in DOMAIN calls["sessions"] : calls["sessions"][j].refresh
    BY <1>1, <1>6, <2>1 DEF RefreshOK
  <2>3. ASSUME hook = "status" PROVE calls["sessions"] = <<>>
    <3>1. Own(calls["sessions"]) = {} /\ calls["sessions"] \in Seq(CallType)
      BY <1>2, <1>3, <2>3 DEF OneOwn, Hooks
    <3>2. Len(calls["sessions"]) \in Nat /\ ~(1 \in DOMAIN calls["sessions"])
      BY <2>2, <3>1 DEF Own
    <3>3. Len(calls["sessions"]) = 0
      BY <3>1, <3>2
    <3> QED
      BY <3>1, <3>3, EmptySeq
  <2> QED
    BY <2>2, <2>3
<1> QED
  BY <1>1, <1>2, <1>3, <1>5, <1>6 DEF RefreshOK, RefreshGoesOn

LEMMA ContinuedOK ==
  ASSUME NEW u, NEW o, UiOK(u, o), NEW hook \in Hooks, NEW i \in DOMAIN u.calls[hook], NEW a,
         Handled(u, a, hook, i, o)
  PROVE  LET call == u.calls[hook][i]
             n == Continued(a, hook, call)
         IN  Mid(u, n, o) /\ Moved(u, n, call.refresh /\ n.refresh = None, o)
<1> DEFINE call == u.calls[hook][i]
           n == Continued(a, hook, call)
<1>1. /\ u \in UiType /\ a \in UiType /\ u.calls \in [Hooks -> Seq(CallType)]
      /\ RefreshOK(u.refresh, u.calls, u.status.ready, u.view.run, IsLargeRun(u), o)
      /\ Settled(u, a, o) /\ a.view = u.view /\ a.refresh = u.refresh
  BY DEF UiOK, UiType, Handled, Settled
<1>2. a.calls[hook] = RemoveAt(u.calls[hook], i) /\ \A h \in Hooks \ {hook} : a.calls[h] = u.calls[h]
  BY <1>1, TookShape DEF Handled
<1>3. hook # "sessions" => IsLargeRun(a) = IsLargeRun(u)
  BY <1>1, SameSelection DEF Handled
<1>4. CASE ~call.refresh
  <2>1. n = a
    BY <1>4 DEF Continued
  <2>2. hook # "sessions" /\ IsLargeRun(u) => IsLargeRun(a)
    BY <1>3
  <2>3. RefreshOK(u.refresh, a.calls, u.status.ready, u.view.run, IsLargeRun(a), o)
    BY <1>1, <1>2, <1>4, <2>2, RefreshTaken
  <2>4. Mid(u, a, o)
    BY <1>1, <2>3 DEF Mid
  <2> QED
    BY <1>1, <2>1, <2>4 DEF Moved
<1>5. CASE call.refresh
  <2>1. /\ u.refresh # None /\ NoOwn(a.calls) /\ hook \in Reloaded
        /\ u.refresh.ready => u.status.ready
        /\ o => u.refresh.run = u.view.run
        /\ o /\ ~u.refresh.enabled /\ hook \in {"status", "sessions"} => u.refresh.ready /\ IsLargeRun(u)
        /\ o /\ ~u.refresh.enabled /\ hook = "status" => u.calls["sessions"] = <<>>
    <3>1. RefreshGoesOn(u.refresh, u.calls, a.calls, u.status.ready, u.view.run, IsLargeRun(u), o, hook)
      BY <1>1, <1>2, <1>5, RefreshAnswered
    <3> QED
      BY <3>1 DEF RefreshGoesOn
  <2>2. Loose(u, a, o)
    BY <1>1, <2>1 DEF Loose
  <2>3. Continues(u, n, o)
    <3>1. CASE hook = "status"
      <4>1. n = AfterStatus(a)
        BY <1>5, <3>1 DEF Continued
      <4>2. a.calls["sessions"] = u.calls["sessions"]
        BY <1>2, <3>1 DEF Hooks
      <4>3. o /\ ~a.refresh.enabled =>
              a.refresh.ready /\ IsLargeRun(u) /\ IsLargeRun(a) /\ a.calls["sessions"] = <<>>
        BY <1>1, <1>3, <2>1, <3>1, <4>2
      <4> QED
        BY <1>1, <2>2, <4>1, <4>3, AfterStatusOK
    <3>2. CASE hook = "sessions"
      <4>1. n = AfterSessions(a)
        BY <1>5, <3>2 DEF Continued
      <4>2. o /\ ~a.refresh.enabled => IsLargeRun(u)
        BY <1>1, <2>1, <3>2
      <4> QED
        BY <1>1, <2>2, <4>1, <4>2, AfterSessionsOK
    <3>3. CASE hook = "run"
      <4>1. n = AfterRun(a)
        BY <1>5, <3>3 DEF Continued
      <4> QED
        BY <1>1, <2>2, <4>1, AfterRunOK
    <3>4. CASE hook = "details"
      <4>1. n = AfterDetails(a)
        BY <1>5, <3>4 DEF Continued
      <4> QED
        BY <1>1, <2>2, <4>1, AfterDetailsOK
    <3> QED
      BY <2>1, <3>1, <3>2, <3>3, <3>4 DEF Reloaded
  <2> HIDE DEF n, call
  <2>4. Mid(u, n, o) /\ Moved(u, n, call.refresh /\ n.refresh = None, o)
    BY <1>5, <2>3 DEF Continues, Moved
  <2> QED
    BY <2>4 DEF n, call
<1> QED
  BY <1>4, <1>5

\* What a page that the invariant holds of has settled already.
LEMMA AlreadySettled ==
  ASSUME NEW u, NEW o, UiOK(u, o)
  PROVE  Settled(u, u, o)
BY DEF UiOK, Settled

LEMMA StatusHandled ==
  ASSUME NEW u, NEW o, UiOK(u, o), NEW i \in DOMAIN u.calls["status"], NEW ok
  PROVE  Handled(u, StatusAnswered(Took(u, "status", i), ok # {}), "status", i, o)
<1> DEFINE w == Took(u, "status", i)
           good == ok # {}
           status == [loading |-> FALSE, ready |-> w.status.ready \/ good, error |-> w.status.error \/ ~good]
           a == StatusAnswered(w, good)
<1>1. u \in UiType /\ "status" \in Hooks
  BY DEF UiOK, Hooks
<1>2. /\ w \in UiType
      /\ w.view = u.view /\ w.status = u.status /\ w.sessions = u.sessions /\ w.shown = u.shown
      /\ w.details = u.details /\ w.refs = u.refs /\ w.large = u.large /\ w.refresh = u.refresh
      /\ \A h \in Hooks \ {"status"} : w.calls[h] = u.calls[h]
  BY <1>1, TookShape
<1>3. a = [w EXCEPT !.status = status]
  BY DEF StatusAnswered
<1>4. status \in StatusType /\ ~status.loading /\ (w.status.ready => status.ready)
  BY <1>2 DEF StatusType, UiType
<1> HIDE DEF w, status, a
<1>5. /\ a \in UiType /\ a.status = status /\ a.calls = w.calls
      /\ a.view = w.view /\ a.sessions = w.sessions /\ a.shown = w.shown
      /\ a.details = w.details /\ a.refs = w.refs /\ a.large = w.large /\ a.refresh = w.refresh
  BY <1>2, <1>3, <1>4 DEF UiType
<1>6. /\ a.calls["sessions"] = u.calls["sessions"] /\ a.calls["run"] = u.calls["run"]
      /\ a.calls["details"] = u.calls["details"] /\ a.calls["large"] = u.calls["large"]
      /\ a.calls["requests"] = u.calls["requests"] /\ a.calls["artifacts"] = u.calls["artifacts"]
  BY <1>2, <1>5 DEF Hooks
<1>7. StatusOK(a.status, a.calls["status"]) /\ (u.status.ready => a.status.ready)
  BY <1>2, <1>4, <1>5 DEF StatusOK
<1>8. Settled(u, a, o)
  BY <1>2, <1>5, <1>6, <1>7, AlreadySettled DEF Settled
<1>9. Handled(u, a, "status", i, o)
  BY <1>2, <1>5, <1>8 DEF Handled, w
<1> QED
  BY <1>9 DEF a, w

LEMMA ItemsAreSomething ==
  ASSUME NEW items \in Seq(Runs)
  PROVE  items # None
BY HooksAssumption

LEMMA SessionsHandled ==
  ASSUME NEW u, NEW o, UiOK(u, o), NEW i \in DOMAIN u.calls["sessions"], o => i = 1, NEW ok
  PROVE  Handled(u, SessionsAnswered(Took(u, "sessions", i), u.calls["sessions"][i], ok # {}), "sessions", i, o)
<1> DEFINE w == Took(u, "sessions", i)
           s == u.calls["sessions"]
           t == RemoveAt(s, i)
           c == s[i]
           good == ok # {}
           items == IF good THEN ListWith(w, c) ELSE w.sessions.items
           next == IF good THEN NextPage(c.page) ELSE w.sessions.next
           sessions == [items |-> items, next |-> next, loading |-> FALSE, error |-> w.sessions.error \/ ~good]
           a == SessionsAnswered(w, c, good)
<1>1. u \in UiType /\ "sessions" \in Hooks /\ u.sessions \in SessionsType
  BY DEF UiOK, Hooks, UiType
<1>2. /\ w \in UiType
      /\ w.view = u.view /\ w.status = u.status /\ w.sessions = u.sessions /\ w.shown = u.shown
      /\ w.details = u.details /\ w.refs = u.refs /\ w.large = u.large /\ w.refresh = u.refresh
      /\ w.calls["sessions"] = t
      /\ \A h \in Hooks \ {"sessions"} : w.calls[h] = u.calls[h]
      /\ s \in Seq(CallType) /\ c \in CallType
  BY <1>1, TookShape
<1>3. a = [w EXCEPT !.sessions = sessions]
  BY DEF SessionsAnswered
<1>4. Len(t) = Len(s) - 1 /\ \A j \in DOMAIN t : \E k \in DOMAIN s : t[j] = s[k]
  <2>0. s \in Seq(CallType) /\ i \in DOMAIN s
    BY <1>2
  <2>1. /\ t \in Seq(CallType) /\ Len(t) = Len(s) - 1 /\ i \in 1..Len(s) /\ Len(s) \in Nat
        /\ \A j \in DOMAIN t : t[j] = s[IF j < i THEN j ELSE j + 1]
    <3> HIDE DEF s
    <3> QED
      BY <2>0, Taken
  <2> HIDE DEF t, s
  <2>2. \A j \in DOMAIN t : (IF j < i THEN j ELSE j + 1) \in DOMAIN s
    BY <1>2, <2>1
  <2> QED
    BY <2>1, <2>2
<1>5. ListOK(u.sessions, s, u.status.ready, u.refresh, o)
  BY DEF UiOK
<1>6. c.page \in 1..Len(Pages) /\ Pages[c.page] \in Seq(Runs) /\ Pages[1] \in Seq(Runs)
      /\ (c.page # 1 => u.sessions.items \in Seq(Runs))
  <2>1. c.page # 0 /\ (c.page # 1 => u.sessions.items # None)
    BY <1>5 DEF ListOK
  <2>2. c.page \in 1..Len(Pages) /\ 1 \in 1..Len(Pages)
    BY <1>2, <2>1, HooksAssumption DEF CallType
  <2> QED
    BY <1>1, <2>1, <2>2, HooksAssumption DEF SessionsType
<1>7. ListWith(w, c) \in Seq(Runs) /\ NextPage(c.page) \in 0..Len(Pages)
  <2> HIDE DEF c, w
  <2>1. c.page # 1 => u.sessions.items \o Pages[c.page] \in Seq(Runs)
    BY <1>6
  <2>2. ListWith(w, c) = IF c.page = 1 THEN Pages[1] ELSE u.sessions.items \o Pages[c.page]
    BY <1>2 DEF ListWith
  <2>3. NextPage(c.page) \in 0..Len(Pages)
    BY <1>6, HooksAssumption DEF NextPage
  <2> QED
    BY <1>6, <2>1, <2>2, <2>3
<1>8. items \in Seq(Runs) \cup {None} /\ next \in 0..Len(Pages) /\ (u.sessions.items # None => items # None)
  BY <1>1, <1>2, <1>7, ItemsAreSomething DEF SessionsType
<1>9. ASSUME o, items # None PROVE WholeList(items, next)
  <2>1. CASE ~good
    BY <1>2, <1>5, <1>9, <2>1 DEF ListOK
  <2>2. CASE good /\ c.page = 1
    <3>1. items = Pages[1] /\ next = NextPage(1)
      BY <2>2 DEF ListWith
    <3> QED
      BY <3>1, WholeFirst
  <2>3. CASE good /\ c.page # 1
    <3>1. c.page = u.sessions.next /\ u.sessions.items # None /\ c.page # 0
      BY <1>5, <1>6, <1>9, <2>3 DEF ListOK
    <3>2. WholeList(u.sessions.items, c.page)
      BY <1>5, <1>9, <3>1 DEF ListOK
    <3>3. items = u.sessions.items \o Pages[c.page] /\ next = NextPage(c.page)
      BY <1>2, <2>3 DEF ListWith
    <3> HIDE DEF items, next
    <3> QED
      BY <3>1, <3>2, <3>3, WholeNext
  <2> QED
    BY <2>1, <2>2, <2>3
<1>10. /\ sessions \in SessionsType /\ sessions.items = items /\ sessions.next = next
       /\ ~sessions.loading
  <2>1. w.sessions.error \in BOOLEAN
    BY <1>1, <1>2 DEF SessionsType
  <2> HIDE DEF items, next
  <2> QED
    BY <1>8, <2>1 DEF SessionsType
<1>11. ASSUME o PROVE \A j \in DOMAIN t : t[j].page = 1
  <2> SUFFICES ASSUME NEW j \in DOMAIN t, t[j].page # 1 PROVE FALSE
    OBVIOUS
  <2>1. Len(s) = 1
    BY <1>4, <1>5, <1>11 DEF ListOK
  <2>2. t \in Seq(CallType) /\ Len(t) = 0
    BY <1>2, <1>4, <2>1, Taken
  <2> HIDE DEF t
  <2> QED
    BY <2>2
<1>12. ListOK(sessions, t, u.status.ready, u.refresh, o)
  <2>1. s # <<>>
    BY <1>2
  <2>2. u.status.ready
    BY <1>5, <2>1 DEF ListOK
  <2>3. \A j \in DOMAIN t : t[j].page # 0 /\ (t[j].page # 1 => items # None)
    BY <1>4, <1>5, <1>8 DEF ListOK
  <2> HIDE DEF sessions, items, next, t
  <2> QED
    BY <1>9, <1>10, <1>11, <2>2, <2>3 DEF ListOK
<1> HIDE DEF w, sessions, a, items, next, good
<1>13. /\ a \in UiType /\ a.sessions = sessions /\ a.calls = w.calls
       /\ a.view = w.view /\ a.status = w.status /\ a.shown = w.shown
       /\ a.details = w.details /\ a.refs = w.refs /\ a.large = w.large /\ a.refresh = w.refresh
  BY <1>2, <1>3, <1>10 DEF UiType
<1>14. /\ a.calls["status"] = u.calls["status"] /\ a.calls["run"] = u.calls["run"]
       /\ a.calls["details"] = u.calls["details"] /\ a.calls["large"] = u.calls["large"]
       /\ a.calls["requests"] = u.calls["requests"] /\ a.calls["artifacts"] = u.calls["artifacts"]
  BY <1>2, <1>13 DEF Hooks
<1>15. ListOK(a.sessions, a.calls["sessions"], u.status.ready, a.refresh, o)
  BY <1>2, <1>12, <1>13
<1>16. Settled(u, a, o)
  <2> HIDE DEF t, s, c
  <2> QED
    BY <1>2, <1>13, <1>14, <1>15, AlreadySettled DEF Settled
<1>17. Handled(u, a, "sessions", i, o)
  BY <1>2, <1>13, <1>16 DEF Handled, w
<1> QED
  BY <1>17 DEF a, w, good

\* The calls left after an answer, and their order if it was to the first.
LEMMA CallsLeft ==
  ASSUME NEW s \in Seq(CallType), NEW i \in DOMAIN s
  PROVE  LET t == RemoveAt(s, i)
         IN  /\ t \in Seq(CallType) /\ Len(s) \in Nat /\ Len(t) = Len(s) - 1 /\ s # <<>>
             /\ \A j \in DOMAIN t : \E k \in DOMAIN s : t[j] = s[k]
             /\ \A k \in DOMAIN s \ {i} : \E j \in DOMAIN t : t[j] = s[k]
             /\ i = 1 => \A j \in DOMAIN t : j + 1 \in DOMAIN s /\ t[j] = s[j + 1]
             /\ i = 1 => \A k \in DOMAIN s \ {1} : k - 1 \in DOMAIN t /\ t[k - 1] = s[k]
<1> DEFINE t == RemoveAt(s, i)
<1>1. /\ t \in Seq(CallType) /\ Len(t) = Len(s) - 1 /\ i \in 1..Len(s) /\ Len(s) \in Nat
      /\ \A j \in DOMAIN t : t[j] = s[IF j < i THEN j ELSE j + 1]
  BY Taken
<1> HIDE DEF t
<1>2. DOMAIN t = 1..(Len(s) - 1) /\ DOMAIN s = 1..Len(s)
  BY <1>1
<1>3. \A j \in DOMAIN t : (IF j < i THEN j ELSE j + 1) \in DOMAIN s
  BY <1>1, <1>2
<1>4. ASSUME NEW k \in DOMAIN s \ {i} PROVE \E j \in DOMAIN t : t[j] = s[k]
  <2> DEFINE j == IF k < i THEN k ELSE k - 1
  <2>1. j \in DOMAIN t /\ (IF j < i THEN j ELSE j + 1) = k
    BY <1>1, <1>2
  <2> HIDE DEF j
  <2> QED
    BY <1>1, <2>1
<1>5. i = 1 => \A j \in DOMAIN t : j + 1 \in DOMAIN s /\ t[j] = s[j + 1]
  BY <1>1, <1>2
<1>6. i = 1 => \A k \in DOMAIN s \ {1} : k - 1 \in DOMAIN t /\ t[k - 1] = s[k]
  <2> SUFFICES ASSUME i = 1, NEW k \in DOMAIN s \ {1} PROVE k - 1 \in DOMAIN t /\ t[k - 1] = s[k]
    OBVIOUS
  <2>1. k - 1 \in DOMAIN t /\ (k - 1) + 1 = k
    BY <1>1, <1>2
  <2> QED
    BY <1>5, <2>1
<1>7. s # <<>>
  BY <1>1
<1> QED
  BY <1>1, <1>3, <1>4, <1>5, <1>6, <1>7 DEF t

LEMMA RunHandled ==
  ASSUME NEW u, NEW o, UiOK(u, o), NEW i \in DOMAIN u.calls["run"], o => i = 1, NEW ok
  PROVE  Handled(u, RunAnswered(Took(u, "run", i), u.calls["run"][i], ok # {}), "run", i, o)
<1> DEFINE w == Took(u, "run", i)
           s == u.calls["run"]
           t == RemoveAt(s, i)
           c == s[i]
           good == ok # {}
           shown == [run |-> IF good THEN c.run ELSE w.shown.run, loading |-> FALSE,
                     error |-> w.shown.error \/ ~good]
           a == RunAnswered(w, c, good)
<1>1. u \in UiType /\ "run" \in Hooks
  BY DEF UiOK, Hooks
<1>2. /\ w \in UiType
      /\ w.view = u.view /\ w.status = u.status /\ w.sessions = u.sessions /\ w.shown = u.shown
      /\ w.details = u.details /\ w.refs = u.refs /\ w.large = u.large /\ w.refresh = u.refresh
      /\ w.calls["run"] = t
      /\ \A h \in Hooks \ {"run"} : w.calls[h] = u.calls[h]
      /\ s \in Seq(CallType) /\ c \in CallType
  BY <1>1, TookShape
<1>3. a = [w EXCEPT !.shown = shown]
  BY DEF RunAnswered
<1>4. shown \in ShownType /\ ~shown.loading /\ (good => shown.run = c.run) /\ (~good => shown.error)
  BY <1>2 DEF ShownType, UiType, CallType
<1>5. ShownOK(u.view.run, IsLargeRun(u), shown, t, o)
  <2> SUFFICES ASSUME o, u.view.run # None, ~IsLargeRun(u)
               PROVE  IF t = <<>> THEN shown.run = u.view.run \/ shown.error
                      ELSE t[Len(t)].run = u.view.run
    BY <1>4 DEF ShownOK
  <2>1. i \in DOMAIN s /\ i = 1
    OBVIOUS
  <2> HIDE DEF s
  <2>2. /\ t \in Seq(CallType) /\ Len(s) \in Nat /\ Len(t) = Len(s) - 1 /\ s # <<>>
        /\ \A j \in DOMAIN t : j + 1 \in DOMAIN s /\ t[j] = s[j + 1]
    BY <1>2, <2>1, CallsLeft
  <2>3. s[Len(s)].run = u.view.run
    BY <2>2 DEF UiOK, ShownOK, s
  <2> HIDE DEF t, shown, good
  <2>4. CASE t = <<>>
    <3>1. Len(s) = 1
      BY <2>2, <2>4
    <3> QED
      BY <1>4, <2>1, <2>3, <2>4, <3>1
  <2>5. CASE t # <<>>
    <3>1. Len(t) \in DOMAIN t /\ Len(t) + 1 = Len(s)
      BY <2>2, <2>5
    <3> QED
      BY <2>2, <2>3, <2>5, <3>1
  <2> QED
    BY <2>4, <2>5
<1> HIDE DEF w, shown, a, good
<1>6. /\ a \in UiType /\ a.shown = shown /\ a.calls = w.calls
      /\ a.view = w.view /\ a.status = w.status /\ a.sessions = w.sessions
      /\ a.details = w.details /\ a.refs = w.refs /\ a.large = w.large /\ a.refresh = w.refresh
  BY <1>2, <1>3, <1>4 DEF UiType
<1>7. /\ a.calls["status"] = u.calls["status"] /\ a.calls["sessions"] = u.calls["sessions"]
      /\ a.calls["details"] = u.calls["details"] /\ a.calls["large"] = u.calls["large"]
      /\ a.calls["requests"] = u.calls["requests"] /\ a.calls["artifacts"] = u.calls["artifacts"]
  BY <1>2, <1>6 DEF Hooks
<1>8. ShownOK(u.view.run, IsLargeRun(u), a.shown, a.calls["run"], o)
  BY <1>2, <1>5, <1>6
<1>9. Settled(u, a, o)
  <2> HIDE DEF t, s, c
  <2> QED
    BY <1>2, <1>6, <1>7, <1>8, AlreadySettled DEF Settled
<1>10. Handled(u, a, "run", i, o)
  BY <1>2, <1>6, <1>9 DEF Handled, w
<1> QED
  BY <1>10 DEF a, w, good

LEMMA LargeHandled ==
  ASSUME NEW u, NEW o, UiOK(u, o), NEW hook \in OfLargeRun, NEW i \in DOMAIN u.calls[hook], NEW ok
  PROVE  Handled(u, LargeAnswered(Took(u, hook, i), hook, u.calls[hook][i], ok # {}), hook, i, o)
<1> DEFINE w == Took(u, hook, i)
           s == u.calls[hook]
           c == s[i]
           good == ok # {}
           at == LargeRunShown(u)
           a == LargeAnswered(w, hook, c, good)
<1>0. hook \in {"large", "requests", "artifacts"} /\ hook \in Hooks
  BY DEF OfLargeRun, Hooks
<1>1. u \in UiType /\ u.large \in LargeType
      /\ LargeOK(at, u.large, u.calls["large"], u.calls["requests"], u.calls["artifacts"], o)
  BY DEF UiOK, UiType
<1>2. /\ w \in UiType
      /\ w.view = u.view /\ w.status = u.status /\ w.sessions = u.sessions /\ w.shown = u.shown
      /\ w.details = u.details /\ w.refs = u.refs /\ w.large = u.large /\ w.refresh = u.refresh
      /\ w.calls[hook] = RemoveAt(s, i)
      /\ \A h \in Hooks \ {hook} : w.calls[h] = u.calls[h]
      /\ s \in Seq(CallType) /\ c \in CallType
  BY <1>0, <1>1, TookShape
<1>3. \A h \in Hooks : \A j \in DOMAIN w.calls[h] : \E k \in DOMAIN u.calls[h] : w.calls[h][j] = u.calls[h][k]
  <2>1. i \in DOMAIN s
    OBVIOUS
  <2>2. \A j \in DOMAIN w.calls[hook] : \E k \in DOMAIN s : w.calls[hook][j] = s[k]
    BY <1>2, <2>1, CallsLeft
  <2> QED
    BY <1>2, <2>2
<1>4. at # None /\ (hook = "large" => c.run = at) /\ (o => c.run = at) /\ c.run \in MaybeRun
  <2>1. u.calls[hook] # <<>>
    BY <1>2
  <2> QED
    BY <1>0, <1>1, <1>2, <2>1 DEF LargeOK, CallType
<1> HIDE DEF w, s, c, good, at
<1>5. /\ a \in UiType /\ a.calls = w.calls
      /\ a.view = w.view /\ a.status = w.status /\ a.sessions = w.sessions /\ a.shown = w.shown
      /\ a.details = w.details /\ a.refs = w.refs /\ a.refresh = w.refresh
      /\ a.large.at = w.large.at
      /\ a.large.run = w.large.run \/ (hook = "large" /\ a.large.run = c.run)
      /\ a.large.page \in {w.large.page, c.run} /\ a.large.artifacts \in {w.large.artifacts, c.run}
  <2>0. w.large \in LargeType
    BY <1>2 DEF UiType
  <2>1. CASE ~good
    <3>1. a = [w EXCEPT !.large.error = TRUE]
      BY <2>1 DEF LargeAnswered
    <3> HIDE DEF a
    <3> QED
      BY <1>2, <2>0, <3>1 DEF UiType, LargeType
  <2>2. CASE good /\ hook = "large"
    <3>1. a = [w EXCEPT !.large.run = c.run, !.large.page = c.run]
      BY <2>2 DEF LargeAnswered
    <3> HIDE DEF a
    <3> QED
      BY <1>2, <1>4, <2>0, <2>2, <3>1 DEF UiType, LargeType
  <2>3. CASE good /\ hook = "requests"
    <3> DEFINE page == IF w.large.run = None THEN w.large.page ELSE c.run
    <3>1. a = [w EXCEPT !.large.page = page]
      BY <2>3 DEF LargeAnswered
    <3>2. page \in {w.large.page, c.run}
      OBVIOUS
    <3> HIDE DEF a, page
    <3> QED
      BY <1>2, <1>4, <2>0, <3>1, <3>2 DEF UiType, LargeType
  <2>4. CASE good /\ hook = "artifacts"
    <3>1. a = [w EXCEPT !.large.artifacts = c.run, !.large.error = FALSE]
      BY <2>4 DEF LargeAnswered
    <3> HIDE DEF a
    <3> QED
      BY <1>2, <1>4, <2>0, <3>1 DEF UiType, LargeType
  <2> QED
    BY <1>0, <2>1, <2>2, <2>3, <2>4
<1> HIDE DEF a
<1>6. LargeOK(at, a.large, a.calls["large"], a.calls["requests"], a.calls["artifacts"], o)
  <2>1. /\ u.large.at = at /\ u.large.run \in {None, at}
        /\ \A j \in DOMAIN u.calls["large"] : u.calls["large"][j].run = at
        /\ o => /\ {u.large.page, u.large.artifacts} \subseteq {None, at}
                /\ \A j \in DOMAIN u.calls["requests"] : u.calls["requests"][j].run = at
                /\ \A j \in DOMAIN u.calls["artifacts"] : u.calls["artifacts"][j].run = at
    BY <1>1 DEF LargeOK
  <2>2. \A j \in DOMAIN a.calls["large"] : a.calls["large"][j].run = at
    BY <1>3, <1>5, <2>1 DEF Hooks
  <2>3. ASSUME o
        PROVE  /\ \A j \in DOMAIN a.calls["requests"] : a.calls["requests"][j].run = at
               /\ \A j \in DOMAIN a.calls["artifacts"] : a.calls["artifacts"][j].run = at
    BY <1>3, <1>5, <2>1, <2>3 DEF Hooks
  <2>4. a.large.at = at /\ a.large.run \in {None, at}
    BY <1>2, <1>4, <1>5, <2>1
  <2>5. o => {a.large.page, a.large.artifacts} \subseteq {None, at}
    BY <1>2, <1>4, <1>5, <2>1
  <2> QED
    BY <1>4, <2>2, <2>3, <2>4, <2>5 DEF LargeOK
<1>7. /\ a.calls["status"] = u.calls["status"] /\ a.calls["sessions"] = u.calls["sessions"]
      /\ a.calls["run"] = u.calls["run"] /\ a.calls["details"] = u.calls["details"]
  BY <1>0, <1>2, <1>5 DEF Hooks
<1>8. Settled(u, a, o)
  BY <1>2, <1>5, <1>6, <1>7, AlreadySettled DEF Settled, at
<1>9. Handled(u, a, hook, i, o)
  BY <1>2, <1>5, <1>8 DEF Handled, w
<1> QED
  BY <1>9 DEF a, w, c, s, good

\* useArtifactDetails with the answers for the ids of ok, of the calls for c.ids.
AnsweredDetails(d, ids, c, ok) ==
  LET taken == (c.ids \cap ids) \cap ok
  IN  [data |-> [id \in (DOMAIN d.data \cap ids) \cup taken |->
                   IF id \in taken THEN c.run ELSE d.data[id]],
       errors |-> ((d.errors \cap ids) \ taken) \cup ((c.ids \cap ids) \ ok),
       loading |-> d.loading \ c.ids,
       run |-> d.run]

\* An answer puts right what it finds under another run's name, or a later call will.
LEMMA AnsweredDetailsOK ==
  ASSUME NEW refs, NEW d \in DetailsType, NEW s \in Seq(CallType), NEW o, DetailsOK(refs, d, s, o),
         NEW i \in DOMAIN s, o => i = 1, NEW ok \in SUBSET (s[i].ids \cap ArtifactIds[s[i].run])
  PROVE  /\ AnsweredDetails(d, refs.ids, s[i], ok) \in DetailsType
         /\ DetailsOK(refs, AnsweredDetails(d, refs.ids, s[i], ok), RemoveAt(s, i), o)
<1> DEFINE t == RemoveAt(s, i)
           c == s[i]
           S == c.ids \cap refs.ids
           taken == S \cap ok
           n == AnsweredDetails(d, refs.ids, c, ok)
<1>1. /\ DOMAIN n.data = (DOMAIN d.data \cap refs.ids) \cup taken
      /\ \A id \in DOMAIN n.data : n.data[id] = IF id \in taken THEN c.run ELSE d.data[id]
      /\ n.errors = ((d.errors \cap refs.ids) \ taken) \cup (S \ ok)
      /\ n.loading = d.loading \ c.ids /\ n.run = d.run
      /\ n = [data |-> n.data, errors |-> n.errors, loading |-> n.loading, run |-> n.run]
      /\ n.data = [id \in (DOMAIN d.data \cap refs.ids) \cup taken |->
                     IF id \in taken THEN c.run ELSE d.data[id]]
  BY DEF AnsweredDetails
<1>2. /\ t \in Seq(CallType)
      /\ \A j \in DOMAIN t : \E k \in DOMAIN s : t[j] = s[k]
      /\ \A k \in DOMAIN s \ {i} : \E j \in DOMAIN t : t[j] = s[k]
      /\ i = 1 => \A j \in DOMAIN t : j + 1 \in DOMAIN s /\ t[j] = s[j + 1]
      /\ i = 1 => \A k \in DOMAIN s \ {1} : k - 1 \in DOMAIN t /\ t[k - 1] = s[k]
  BY CallsLeft
<1>3. /\ d.data \in DataType /\ d.errors \in SUBSET Ids /\ d.loading \in SUBSET Ids /\ d.run \in MaybeRun
  BY DEF DetailsType
<1>4. c \in CallType /\ c.ids \in SUBSET Ids /\ DOMAIN s \subseteq Nat /\ DOMAIN t \subseteq Nat
  <2>1. c \in CallType /\ DOMAIN s \subseteq Nat
    OBVIOUS
  <2>2. DOMAIN t \subseteq Nat
    <3> HIDE DEF t
    <3> QED
      BY <1>2
  <2> HIDE DEF t, c
  <2> QED
    BY <2>1, <2>2 DEF CallType
<1>5. c.run \in Runs
  BY DEF DetailsOK
<1> HIDE DEF t, n, c
<1>6. n \in DetailsType
  <2>1. DOMAIN d.data \in SUBSET Ids /\ d.data \in [DOMAIN d.data -> Runs]
    BY <1>3, DataTyped
  <2>2. DOMAIN n.data \in SUBSET Ids /\ n.data \in [DOMAIN n.data -> Runs]
    BY <1>1, <1>4, <1>5, <2>1
  <2>3. n.data \in DataType
    BY <2>2, DataTyped
  <2>4. n.errors \in SUBSET Ids /\ n.loading \in SUBSET Ids /\ n.run \in MaybeRun
    BY <1>1, <1>3, <1>4
  <2> QED
    BY <1>1, <2>3, <2>4 DEF DetailsType
<1>7. /\ \A k \in DOMAIN s : s[k].run \in Runs
      /\ d.run = refs.run
      /\ DOMAIN d.data \cup d.loading \subseteq refs.ids
      /\ \A id \in DOMAIN d.data : id \in ArtifactIds[d.data[id]]
      /\ \A id \in d.loading : \E k \in DOMAIN s : id \in s[k].ids
      /\ refs.run # None => refs.ids \subseteq DOMAIN d.data \cup d.errors \cup d.loading
  BY DEF DetailsOK
<1>8. o /\ refs.run # None =>
        /\ \A k \in DOMAIN s : s[k].run # refs.run => \A id \in refs.ids : Asked(id, refs.run, s, k)
        /\ \A id \in DOMAIN d.data : d.data[id] # refs.run =>
             id \in d.errors \/ Asked(id, refs.run, s, 0)
  BY DEF DetailsOK
<1>9. \A j \in DOMAIN t : t[j].run \in Runs
  BY <1>2, <1>7
<1>10. DOMAIN n.data \cup n.loading \subseteq refs.ids
  BY <1>1, <1>7
<1>11. \A id \in DOMAIN n.data : id \in ArtifactIds[n.data[id]]
  <2>1. \A id \in taken : id \in ArtifactIds[c.run]
    BY DEF c
  <2> QED
    BY <1>1, <1>7, <2>1
<1>12. \A id \in n.loading : \E j \in DOMAIN t : id \in t[j].ids
  <2> TAKE id \in n.loading
  <2>1. PICK k \in DOMAIN s : id \in s[k].ids
    BY <1>1, <1>7
  <2>2. k # i
    BY <1>1, <2>1 DEF c
  <2> QED
    BY <1>2, <2>1, <2>2
<1>13. refs.run # None => refs.ids \subseteq DOMAIN n.data \cup n.errors \cup n.loading
  BY <1>1, <1>7
\* A later call of the longer queue is a later one of the shorter.
<1>14. ASSUME o, NEW id, NEW from \in Nat, Asked(id, refs.run, s, from + 1)
       PROVE  Asked(id, refs.run, t, from)
  <2>1. PICK k \in DOMAIN s : k > from + 1 /\ s[k].run = refs.run /\ id \in s[k].ids
    BY <1>14 DEF Asked
  <2>2. k \in Nat /\ k # 1 /\ k - 1 > from
    BY <1>4, <2>1
  <2>3. k - 1 \in DOMAIN t /\ t[k - 1] = s[k]
    BY <1>2, <1>14, <2>1, <2>2
  <2> QED
    BY <2>1, <2>2, <2>3 DEF Asked
<1>15. ASSUME o, refs.run # None, NEW j \in DOMAIN t, t[j].run # refs.run, NEW id \in refs.ids
       PROVE  Asked(id, refs.run, t, j)
  <2>1. j + 1 \in DOMAIN s /\ t[j] = s[j + 1] /\ j \in Nat
    BY <1>2, <1>4, <1>15
  <2>2. Asked(id, refs.run, s, j + 1)
    BY <1>8, <1>15, <2>1
  <2> QED
    BY <1>14, <1>15, <2>1, <2>2
<1>16. ASSUME o, refs.run # None, NEW id \in DOMAIN n.data, n.data[id] # refs.run
       PROVE  id \in n.errors \/ Asked(id, refs.run, t, 0)
  <2>1. CASE id \in taken
    <3>1. c.run # refs.run /\ id \in refs.ids /\ c = s[1] /\ 1 \in DOMAIN s
      BY <1>1, <1>16, <2>1 DEF c
    <3>2. Asked(id, refs.run, s, 0 + 1)
      BY <1>8, <1>16, <3>1
    <3> QED
      BY <1>14, <1>16, <3>2
  <2>2. CASE id \notin taken
    <3>1. id \in DOMAIN d.data /\ id \in refs.ids /\ d.data[id] # refs.run
      BY <1>1, <1>16, <2>2
    <3>2. CASE id \in d.errors
      BY <1>1, <2>2, <3>1, <3>2
    <3>3. CASE Asked(id, refs.run, s, 0)
      <4>1. PICK k \in DOMAIN s : k > 0 /\ s[k].run = refs.run /\ id \in s[k].ids
        BY <3>3 DEF Asked
      <4>2. CASE k = 1
        <5>1. id \in S \ ok
          BY <1>16, <2>2, <3>1, <4>1, <4>2 DEF c
        <5> QED
          BY <1>1, <5>1
      <4>3. CASE k # 1
        <5>1. k > 0 + 1
          BY <1>4, <4>1, <4>3
        <5>2. Asked(id, refs.run, s, 0 + 1)
          BY <4>1, <5>1 DEF Asked
        <5> QED
          BY <1>14, <1>16, <5>2
      <4> QED
        BY <4>2, <4>3
    <3> QED
      BY <1>8, <1>16, <3>1, <3>2, <3>3
  <2> QED
    BY <2>1, <2>2
<1>17. DetailsOK(refs, n, t, o)
  BY <1>1, <1>7, <1>9, <1>10, <1>11, <1>12, <1>13, <1>15, <1>16 DEF DetailsOK
<1> QED
  BY <1>6, <1>17 DEF n, t, c

LEMMA DetailsHandled ==
  ASSUME NEW u, NEW o, UiOK(u, o), NEW i \in DOMAIN u.calls["details"], o => i = 1,
         NEW ok \in SUBSET (u.calls["details"][i].ids \cap ArtifactIds[u.calls["details"][i].run])
  PROVE  Handled(u, DetailsAnswered(Took(u, "details", i), u.calls["details"][i], ok), "details", i, o)
<1> DEFINE w == Took(u, "details", i)
           s == u.calls["details"]
           t == RemoveAt(s, i)
           c == s[i]
           n == AnsweredDetails(u.details, u.refs.ids, c, ok)
           a == DetailsAnswered(w, c, ok)
<1>1. u \in UiType /\ "details" \in Hooks /\ u.details \in DetailsType /\ DetailsOK(u.refs, u.details, s, o)
  BY DEF UiOK, Hooks, UiType
<1>2. /\ w \in UiType
      /\ w.view = u.view /\ w.status = u.status /\ w.sessions = u.sessions /\ w.shown = u.shown
      /\ w.details = u.details /\ w.refs = u.refs /\ w.large = u.large /\ w.refresh = u.refresh
      /\ w.calls["details"] = t
      /\ \A h \in Hooks \ {"details"} : w.calls[h] = u.calls[h]
      /\ s \in Seq(CallType) /\ c \in CallType
  BY <1>1, TookShape
<1>3. n \in DetailsType /\ DetailsOK(u.refs, n, t, o)
  <2>1. i \in DOMAIN s /\ ok \in SUBSET (s[i].ids \cap ArtifactIds[s[i].run])
    OBVIOUS
  <2> HIDE DEF s
  <2> QED
    BY <1>1, <1>2, <2>1, AnsweredDetailsOK
<1>4. a = [w EXCEPT !.details.data = n.data, !.details.errors = n.errors, !.details.loading = n.loading]
  <2>1. w.refs = u.refs /\ w.details = u.details
    BY <1>2
  <2> HIDE DEF w, c
  <2> QED
    BY <2>1 DEF DetailsAnswered, AnsweredDetails, StillExpanded
<1>5. n.run = u.details.run
  BY DEF AnsweredDetails
<1> HIDE DEF w, a, n, t, s, c
<1>6. w.details \in DetailsType
  BY <1>1, <1>2
<1>7. /\ a \in UiType /\ a.details = n /\ a.calls = w.calls
      /\ a.view = w.view /\ a.status = w.status /\ a.sessions = w.sessions /\ a.shown = w.shown
      /\ a.refs = w.refs /\ a.large = w.large /\ a.refresh = w.refresh
  <2> DEFINE e == [w.details EXCEPT !.data = n.data, !.errors = n.errors, !.loading = n.loading]
  <2>1. e = n
    BY <1>2, <1>3, <1>5, <1>6 DEF DetailsType
  <2>2. a = [w EXCEPT !.details = e]
    BY <1>2, <1>4, <1>6 DEF UiType, DetailsType
  <2> HIDE DEF e
  <2> QED
    BY <1>2, <1>3, <2>1, <2>2 DEF UiType
<1>8. /\ a.calls["status"] = u.calls["status"] /\ a.calls["sessions"] = u.calls["sessions"]
      /\ a.calls["run"] = u.calls["run"] /\ a.calls["large"] = u.calls["large"]
      /\ a.calls["requests"] = u.calls["requests"] /\ a.calls["artifacts"] = u.calls["artifacts"]
  BY <1>2, <1>7 DEF Hooks
<1>9. DetailsOK(u.refs, a.details, a.calls["details"], o)
  BY <1>2, <1>3, <1>7
<1>10. Settled(u, a, o)
  BY <1>2, <1>7, <1>8, <1>9, AlreadySettled DEF Settled
<1>11. Handled(u, a, "details", i, o)
  BY <1>2, <1>7, <1>10 DEF Handled, w
<1> QED
  BY <1>11 DEF a, w, c, s

LEMMA AnswerOK ==
  ASSUME NEW u, NEW o, UiOK(u, o), NEW hook \in Hooks, NEW i \in DOMAIN u.calls[hook], o => i = 1,
         NEW ok \in Outcomes(hook, u.calls[hook][i])
  PROVE  LET call == u.calls[hook][i]
             next == Continued(Answered(Took(u, hook, i), hook, call, ok), hook, call)
         IN  UiOK(Rendered(u, next, call.refresh /\ next.refresh = None), o)
<1> DEFINE call == u.calls[hook][i]
           a == Answered(Took(u, hook, i), hook, call, ok)
           next == Continued(a, hook, call)
           touched == call.refresh /\ next.refresh = None
<1>1. Handled(u, a, hook, i, o)
  <2>1. CASE hook = "status"
    <3>1. a = StatusAnswered(Took(u, "status", i), ok # {})
      BY <2>1 DEF Answered, OfLargeRun
    <3>2. Handled(u, StatusAnswered(Took(u, "status", i), ok # {}), "status", i, o)
      BY <2>1, StatusHandled
    <3> QED
      BY <2>1, <3>1, <3>2
  <2>2. CASE hook = "sessions"
    <3>1. a = SessionsAnswered(Took(u, "sessions", i), u.calls["sessions"][i], ok # {})
      BY <2>2 DEF Answered, OfLargeRun
    <3>2. Handled(u, SessionsAnswered(Took(u, "sessions", i), u.calls["sessions"][i], ok # {}), "sessions", i, o)
      BY <2>2, SessionsHandled
    <3> QED
      BY <2>2, <3>1, <3>2
  <2>3. CASE hook = "run"
    <3>1. a = RunAnswered(Took(u, "run", i), u.calls["run"][i], ok # {})
      BY <2>3 DEF Answered, OfLargeRun
    <3>2. Handled(u, RunAnswered(Took(u, "run", i), u.calls["run"][i], ok # {}), "run", i, o)
      BY <2>3, RunHandled
    <3> QED
      BY <2>3, <3>1, <3>2
  <2>4. CASE hook = "details"
    <3>1. a = DetailsAnswered(Took(u, "details", i), u.calls["details"][i], ok)
      BY <2>4 DEF Answered, OfLargeRun
    <3>2. ok \in SUBSET (u.calls["details"][i].ids \cap ArtifactIds[u.calls["details"][i].run])
      BY <2>4 DEF Outcomes
    <3>3. Handled(u, DetailsAnswered(Took(u, "details", i), u.calls["details"][i], ok), "details", i, o)
      BY <2>4, <3>2, DetailsHandled
    <3> QED
      BY <2>4, <3>1, <3>3
  <2>5. CASE hook \in OfLargeRun
    <3>1. a = LargeAnswered(Took(u, hook, i), hook, u.calls[hook][i], ok # {})
      BY <2>5 DEF Answered, OfLargeRun
    <3> QED
      BY <2>5, <3>1, LargeHandled
  <2> QED
    BY <2>1, <2>2, <2>3, <2>4, <2>5 DEF Hooks, OfLargeRun
<1> HIDE DEF a
<1>2. Mid(u, next, o) /\ Moved(u, next, touched, o)
  BY <1>1, ContinuedOK
<1>3. touched \in BOOLEAN /\ u \in UiType /\ u.refs = RefsOf(u)
  <2>1. u \in UiType /\ u.refs = RefsOf(u)
    BY DEF UiOK
  <2>2. call.refresh \in BOOLEAN
    <3>1. call \in CallType
      BY <2>1, TookShape
    <3> QED
      BY <3>1 DEF CallType
  <2> QED
    BY <2>1, <2>2
<1> HIDE DEF next, touched
<1>4. UiOK(Rendered(u, next, touched), o)
  BY <1>2, <1>3, RenderedOK
<1> QED
  BY <1>4 DEF next, touched, a

-----------------------------------------------------------------------------
(***************************************************************************)
(* The clicks and the timer.                                               *)
(***************************************************************************)

\* Nothing but the selection changes: when the reader waits, another run is
\* selected with no refresh and no page of a large run in flight.
LEMMA ViewChangedOK ==
  ASSUME NEW u, NEW o, UiOK(u, o), NEW x \in ViewType, NEW touched \in BOOLEAN, touched,
         o => \/ x.run = u.view.run
              \/ u.refresh = None /\ u.calls["requests"] = <<>> /\ u.calls["artifacts"] = <<>>
  PROVE  UiOK(Rendered(u, [u EXCEPT !.view = x], touched), o)
<1> DEFINE v == [u EXCEPT !.view = x]
<1>1. /\ u \in UiType /\ u.refs = RefsOf(u) /\ Settled(u, u, o)
      /\ RefreshOK(u.refresh, u.calls, u.status.ready, u.view.run, IsLargeRun(u), o)
  BY AlreadySettled DEF UiOK
<1>2. /\ v \in UiType /\ v.view = x /\ v.status = u.status /\ v.sessions = u.sessions /\ v.shown = u.shown
      /\ v.details = u.details /\ v.refs = u.refs /\ v.large = u.large /\ v.refresh = u.refresh
      /\ v.calls = u.calls
  BY <1>1 DEF UiType
<1> HIDE DEF v
<1>3. Settled(u, v, o)
  BY <1>1, <1>2 DEF Settled
<1>4. RefreshOK(v.refresh, v.calls, u.status.ready, v.view.run, IsLargeRun(v), o)
  <2>1. CASE x.run = u.view.run
    <3>1. IsLargeRun(v) = IsLargeRun(u)
      BY <1>1, <1>2, <2>1, SameSelection
    <3> QED
      BY <1>1, <1>2, <2>1, <3>1
  <2>2. CASE o => u.refresh = None
    BY <1>1, <1>2, <2>2 DEF RefreshOK
  <2> QED
    BY <2>1, <2>2
<1>5. Moved(u, v, touched, o)
  BY <1>2 DEF Moved
<1>6. UiOK(Rendered(u, v, touched), o)
  BY <1>1, <1>3, <1>4, <1>5, RenderedOK DEF Mid
<1> QED
  BY <1>6 DEF v

\* Nothing but a hook and its calls changes, and no call is a refresh's.
LEMMA CalledOK ==
  ASSUME NEW u, NEW o, UiOK(u, o), NEW v, Settled(u, v, o),
         v.view = u.view, v.refresh = u.refresh, v.sessions.items = u.sessions.items,
         \A h \in Hooks : Own(v.calls[h]) = Own(u.calls[h]),
         o /\ u.refresh # None => v.calls["sessions"] = u.calls["sessions"],
         NEW touched \in BOOLEAN
  PROVE  UiOK(Rendered(u, v, touched), o)
<1>1. /\ u \in UiType /\ u.refs = RefsOf(u) /\ v \in UiType
      /\ RefreshOK(u.refresh, u.calls, u.status.ready, u.view.run, IsLargeRun(u), o)
  BY DEF UiOK, Settled
<1>2. IsLargeRun(v) = IsLargeRun(u)
  BY <1>1, SameSelection
<1>3. /\ \A h \in Reloaded : Own(v.calls[h]) = Own(u.calls[h])
      /\ \A h \in OfLargeRun : Own(v.calls[h]) \subseteq Own(u.calls[h])
  BY DEF Hooks, Reloaded, OfLargeRun
<1>4. RefreshOK(u.refresh, v.calls, u.status.ready, u.view.run, IsLargeRun(u), o)
  BY <1>1, <1>3, RefreshKept
<1>5. Mid(u, v, o)
  BY <1>2, <1>4 DEF Mid
<1>6. Moved(u, v, touched, o)
  BY DEF Moved
<1> QED
  BY <1>1, <1>5, <1>6, RenderedOK

LEMMA ListedTyped ==
  ASSUME NEW u \in UiType
  PROVE  /\ Listed(u) \in SUBSET Runs
         /\ Listed(u) # {} => u.sessions.items # None
<1>1. u.sessions.items = None \/ u.sessions.items \in Seq(Runs)
  BY DEF UiType, SessionsType
<1>2. CASE u.sessions.items = None
  BY <1>2 DEF Listed
<1>3. CASE u.sessions.items \in Seq(Runs)
  <2>1. ToSet(u.sessions.items) \in SUBSET Runs
    BY <1>3 DEF ToSet
  <2>2. u.sessions.items # None
    BY <1>3, ItemsAreSomething
  <2> QED
    BY <2>1, <2>2 DEF Listed
<1> QED
  BY <1>1, <1>2, <1>3

LEMMA ToggleOK ==
  ASSUME NEW u, NEW o, UiOK(u, o), NEW id \in Ids, NEW touched \in BOOLEAN, touched
  PROVE  UiOK(Rendered(u, [u EXCEPT !.view.open = SymDiff(@, {id})], touched), o)
<1> DEFINE x == [u.view EXCEPT !.open = SymDiff(@, {id})]
<1>1. u \in UiType /\ u.view \in ViewType
  BY DEF UiOK, UiType
<1>2. x \in ViewType /\ x.run = u.view.run
  BY <1>1 DEF ViewType, SymDiff
<1>3. [u EXCEPT !.view.open = SymDiff(@, {id})] = [u EXCEPT !.view = x]
  BY <1>1 DEF UiType, ViewType
<1> HIDE DEF x
<1>4. UiOK(Rendered(u, [u EXCEPT !.view = x], touched), o)
  BY <1>2, ViewChangedOK
<1> QED
  BY <1>3, <1>4

LEMMA SelectOK ==
  ASSUME NEW u, NEW o, UiOK(u, o), NEW run \in Runs, NEW touched \in BOOLEAN, touched,
         o => u.refresh = None /\ u.calls["requests"] \o u.calls["artifacts"] = <<>>
  PROVE  UiOK(Rendered(u, [u EXCEPT !.view = [run |-> run, open |-> {}]], touched), o)
<1> DEFINE x == [run |-> run, open |-> {}]
<1>1. u.calls["requests"] \in Seq(CallType) /\ u.calls["artifacts"] \in Seq(CallType)
  BY DEF UiOK, UiType, Hooks
<1>2. o => u.calls["requests"] = <<>> /\ u.calls["artifacts"] = <<>>
  BY <1>1
<1>3. x \in ViewType
  BY DEF ViewType, MaybeRun
<1> HIDE DEF x
<1>4. UiOK(Rendered(u, [u EXCEPT !.view = x], touched), o)
  BY <1>2, <1>3, ViewChangedOK
<1> QED
  BY <1>4 DEF x

LEMMA LoadMoreOK ==
  ASSUME NEW u, NEW o, UiOK(u, o), ShowsList(u), u.sessions.next # 0,
         o => u.refresh = None /\ u.calls["sessions"] = <<>>,
         NEW touched \in BOOLEAN
  PROVE  LET v == Send([u EXCEPT !.sessions.loading = TRUE], "sessions",
                       Call(None, {}, u.sessions.next, FALSE))
         IN  UiOK(Rendered(u, v, touched), o)
<1> DEFINE no == FALSE
           sessions == [u.sessions EXCEPT !.loading = TRUE]
           x == [u EXCEPT !.sessions = sessions]
           c == Call(None, {}, u.sessions.next, no)
           v == Send(x, "sessions", c)
           s == u.calls["sessions"]
           t == v.calls["sessions"]
<1>1. no \in BOOLEAN
  OBVIOUS
<1>2. ~no
  OBVIOUS
<1>3. [u EXCEPT !.sessions.loading = TRUE] = x
  OBVIOUS
<1> HIDE DEF no
<1>4. /\ u \in UiType /\ Settled(u, u, o) /\ u.sessions \in SessionsType /\ s \in Seq(CallType)
      /\ ListOK(u.sessions, s, u.status.ready, u.refresh, o)
  BY AlreadySettled DEF UiOK, UiType, Hooks
<1>5. /\ u.status.ready /\ ~u.sessions.error /\ u.sessions.items # None
  BY <1>4, ListedTyped DEF ShowsList, ShowsContent
<1>6. /\ sessions \in SessionsType /\ sessions.items = u.sessions.items /\ sessions.next = u.sessions.next
      /\ sessions.error = u.sessions.error
  BY <1>4 DEF SessionsType
<1>7. c \in CallType /\ c.page = u.sessions.next /\ c.refresh = no
  <2>1. u.sessions.next \in 0..Len(Pages) /\ None \in MaybeRun
    BY <1>4 DEF SessionsType, MaybeRun
  <2> QED
    BY <1>1, <2>1, CallTyped
<1> HIDE DEF sessions, c
<1>8. /\ x \in UiType /\ x.view = u.view /\ x.status = u.status /\ x.sessions = sessions /\ x.shown = u.shown
      /\ x.details = u.details /\ x.refs = u.refs /\ x.large = u.large /\ x.refresh = u.refresh
      /\ x.calls = u.calls
  BY <1>4, <1>6 DEF UiType
<1> HIDE DEF x
<1>9. /\ v \in UiType
      /\ v.view = u.view /\ v.status = u.status /\ v.sessions = sessions /\ v.shown = u.shown
      /\ v.details = u.details /\ v.refs = u.refs /\ v.large = u.large /\ v.refresh = u.refresh
      /\ t = Append(s, c)
      /\ \A h \in Hooks \ {"sessions"} : v.calls[h] = u.calls[h]
  <2>1. "sessions" \in Hooks
    BY DEF Hooks
  <2> QED
    BY <1>7, <1>8, <2>1, SendShape
<1> HIDE DEF v
<1>10. ListOK(v.sessions, t, u.status.ready, v.refresh, o)
  <2>1. /\ t # <<>> /\ DOMAIN t = DOMAIN s \cup {Len(s) + 1} /\ t[Len(s) + 1] = c /\ Len(t) = Len(s) + 1
        /\ \A i \in DOMAIN s : t[i] = s[i]
    BY <1>4, <1>7, <1>9, Sent
  <2>2. \A i \in DOMAIN t : t[i].page # 0
    BY <1>4, <1>7, <2>1 DEF ListOK
  <2>3. o /\ v.sessions.items # None => WholeList(v.sessions.items, v.sessions.next)
    BY <1>4, <1>6, <1>9 DEF ListOK
  <2>4. o => /\ Len(t) = 1 /\ DOMAIN t = {1} /\ t[1] = c /\ v.refresh = None
    BY <1>4, <1>9, <2>1
  <2> QED
    BY <1>5, <1>6, <1>7, <1>9, <2>1, <2>2, <2>3, <2>4 DEF ListOK
<1>11. Settled(u, v, o)
  BY <1>4, <1>9, <1>10 DEF Settled, Hooks
<1>12. \A h \in Hooks : Own(v.calls[h]) = Own(u.calls[h])
  <2>1. Own(t) = Own(s)
    BY <1>2, <1>4, <1>7, <1>9, OwnSent
  <2> QED
    BY <1>9, <2>1
<1>13. UiOK(Rendered(u, v, touched), o)
  BY <1>6, <1>9, <1>11, <1>12, CalledOK
<1> QED
  BY <1>3, <1>13 DEF v, c, no

LEMMA LoadLargeOK ==
  ASSUME NEW u, NEW o, UiOK(u, o), NEW hook \in {"requests", "artifacts"}, u.large.run # None,
         NEW touched \in BOOLEAN
  PROVE  UiOK(Rendered(u, Send(u, hook, Call(u.large.at, {}, 0, FALSE)), touched), o)
<1> DEFINE no == FALSE
           at == LargeRunShown(u)
           c == Call(u.large.at, {}, 0, no)
           v == Send(u, hook, c)
<1>1. no \in BOOLEAN
  OBVIOUS
<1>2. ~no
  OBVIOUS
<1> HIDE DEF no
<1>3. /\ u \in UiType /\ Settled(u, u, o) /\ u.calls \in [Hooks -> Seq(CallType)]
      /\ LargeOK(at, u.large, u.calls["large"], u.calls["requests"], u.calls["artifacts"], o)
  BY AlreadySettled DEF UiOK, UiType
<1>4. hook \in Hooks /\ u.calls[hook] \in Seq(CallType)
  BY <1>3 DEF Hooks
<1>5. at # None /\ u.large.at = at /\ at \in MaybeRun
  BY <1>3, LargeShownTyped DEF LargeOK
<1>6. c \in CallType /\ c.run = at /\ c.refresh = no
  <2>1. {} \in SUBSET Ids /\ 0 \in 0..Len(Pages)
    BY HooksAssumption
  <2> QED
    BY <1>1, <1>5, <2>1, CallTyped
<1> HIDE DEF c, at
<1>7. /\ v \in UiType
      /\ v.view = u.view /\ v.status = u.status /\ v.sessions = u.sessions /\ v.shown = u.shown
      /\ v.details = u.details /\ v.refs = u.refs /\ v.large = u.large /\ v.refresh = u.refresh
      /\ v.calls[hook] = Append(u.calls[hook], c)
      /\ \A h \in Hooks \ {hook} : v.calls[h] = u.calls[h]
  BY <1>3, <1>4, <1>6, SendShape
<1> HIDE DEF v
<1>8. /\ DOMAIN v.calls[hook] = DOMAIN u.calls[hook] \cup {Len(u.calls[hook]) + 1}
      /\ v.calls[hook][Len(u.calls[hook]) + 1] = c
      /\ \A i \in DOMAIN u.calls[hook] : v.calls[hook][i] = u.calls[hook][i]
  BY <1>4, <1>6, <1>7, Sent
<1>9. o => \A i \in DOMAIN v.calls[hook] : v.calls[hook][i].run = at
  <2>1. o => \A i \in DOMAIN u.calls[hook] : u.calls[hook][i].run = at
    BY <1>3 DEF LargeOK
  <2> QED
    BY <1>6, <1>8, <2>1
<1>10. LargeOK(at, v.large, v.calls["large"], v.calls["requests"], v.calls["artifacts"], o)
  <2>1. v.calls["large"] = u.calls["large"]
    BY <1>7 DEF Hooks
  <2>2. CASE hook = "requests"
    <3>1. v.calls["artifacts"] = u.calls["artifacts"]
      BY <1>7, <2>2 DEF Hooks
    <3>2. o => \A i \in DOMAIN v.calls["requests"] : v.calls["requests"][i].run = at
      BY <1>9, <2>2
    <3> QED
      BY <1>3, <1>5, <1>7, <2>1, <3>1, <3>2 DEF LargeOK
  <2>3. CASE hook = "artifacts"
    <3>1. v.calls["requests"] = u.calls["requests"]
      BY <1>7, <2>3 DEF Hooks
    <3>2. o => \A i \in DOMAIN v.calls["artifacts"] : v.calls["artifacts"][i].run = at
      BY <1>9, <2>3
    <3> QED
      BY <1>3, <1>5, <1>7, <2>1, <3>1, <3>2 DEF LargeOK
  <2> QED
    BY <2>2, <2>3
<1>11. Settled(u, v, o)
  BY <1>3, <1>7, <1>10 DEF Settled, Hooks, at
<1>12. \A h \in Hooks : Own(v.calls[h]) = Own(u.calls[h])
  <2>1. Own(v.calls[hook]) = Own(u.calls[hook])
    BY <1>2, <1>4, <1>6, <1>7, OwnSent
  <2> QED
    BY <1>7, <2>1
<1>13. v.calls["sessions"] = u.calls["sessions"]
  BY <1>7 DEF Hooks
<1>14. UiOK(Rendered(u, v, touched), o)
  BY <1>7, <1>11, <1>12, <1>13, CalledOK
<1> QED
  BY <1>14 DEF v, c, no

LEMMA RetryStatusOK ==
  ASSUME NEW u, NEW o, UiOK(u, o), NEW touched \in BOOLEAN
  PROVE  UiOK(Rendered(u, ReloadStatus(u, FALSE), touched), o)
<1> DEFINE no == FALSE
           v == ReloadStatus(u, no)
<1>1. no \in BOOLEAN
  OBVIOUS
<1>2. ~no
  OBVIOUS
<1> HIDE DEF no
<1>3. u \in UiType /\ Settled(u, u, o) /\ u.calls["status"] \in Seq(CallType)
  BY AlreadySettled DEF UiOK, UiType, Hooks
<1>4. PICK c \in CallType : c.refresh = no /\ v.calls["status"] = Append(u.calls["status"], c)
  BY <1>1, <1>3, ReloadStatusShape
<1>5. /\ v \in UiType
      /\ v.view = u.view /\ v.sessions = u.sessions /\ v.shown = u.shown
      /\ v.details = u.details /\ v.refs = u.refs /\ v.large = u.large /\ v.refresh = u.refresh
      /\ v.status.ready = u.status.ready
      /\ \A h \in Hooks \ {"status"} : v.calls[h] = u.calls[h]
  BY <1>1, <1>3, ReloadStatusShape
<1> HIDE DEF v
<1>6. StatusOK(v.status, v.calls["status"])
  BY <1>3, <1>4, Sent DEF StatusOK
<1>7. Settled(u, v, o)
  BY <1>3, <1>5, <1>6 DEF Settled, Hooks
<1>8. \A h \in Hooks : Own(v.calls[h]) = Own(u.calls[h])
  <2>1. Own(v.calls["status"]) = Own(u.calls["status"])
    BY <1>2, <1>3, <1>4, OwnSent
  <2> QED
    BY <1>5, <2>1
<1>9. v.calls["sessions"] = u.calls["sessions"]
  BY <1>5 DEF Hooks
<1>10. UiOK(Rendered(u, v, touched), o)
  BY <1>5, <1>7, <1>8, <1>9, CalledOK
<1> QED
  BY <1>10 DEF v, no

LEMMA RetrySessionsOK ==
  ASSUME NEW u, NEW o, UiOK(u, o), u.sessions.error, u.status.ready, o => u.refresh = None,
         NEW touched \in BOOLEAN
  PROVE  UiOK(Rendered(u, ReloadSessions(u, FALSE), touched), o)
<1> DEFINE no == FALSE
           v == ReloadSessions(u, no)
<1>1. no \in BOOLEAN
  OBVIOUS
<1>2. ~no
  OBVIOUS
<1> HIDE DEF no
<1>3. /\ u \in UiType /\ Settled(u, u, o) /\ u.calls["sessions"] \in Seq(CallType)
      /\ ListOK(u.sessions, u.calls["sessions"], u.status.ready, u.refresh, o)
  BY AlreadySettled DEF UiOK, UiType, Hooks
<1>4. PICK c \in CallType : c.refresh = no /\ v.calls["sessions"] = Append(u.calls["sessions"], c)
  BY <1>1, <1>3, ReloadSessionsShape
<1>5. /\ v \in UiType
      /\ v.view = u.view /\ v.status = u.status /\ v.shown = u.shown
      /\ v.details = u.details /\ v.refs = u.refs /\ v.large = u.large /\ v.refresh = u.refresh
      /\ v.sessions.items = u.sessions.items
      /\ \A h \in Hooks \ {"sessions"} : v.calls[h] = u.calls[h]
  BY <1>1, <1>3, ReloadSessionsShape
<1>6. o => \A i \in DOMAIN u.calls["sessions"] : u.calls["sessions"][i].page = 1
  BY <1>3 DEF ListOK
<1>7. ListOK(v.sessions, v.calls["sessions"], u.status.ready, u.refresh, o)
  BY <1>1, <1>3, <1>6, ReloadSessionsOK
<1> HIDE DEF v
<1>8. Settled(u, v, o)
  BY <1>3, <1>5, <1>7 DEF Settled, Hooks
<1>9. \A h \in Hooks : Own(v.calls[h]) = Own(u.calls[h])
  <2>1. Own(v.calls["sessions"]) = Own(u.calls["sessions"])
    BY <1>2, <1>3, <1>4, OwnSent
  <2> QED
    BY <1>5, <2>1
<1>10. UiOK(Rendered(u, v, touched), o)
  BY <1>5, <1>8, <1>9, CalledOK
<1> QED
  BY <1>10 DEF v, no

LEMMA BeginRefreshOK ==
  ASSUME NEW u, NEW o, UiOK(u, o), u.refresh = None, o => u.calls["sessions"] = <<>>,
         NEW touched \in BOOLEAN
  PROVE  LET begun == [u EXCEPT !.refresh =
                         [run |-> u.view.run, enabled |-> ~IsLargeRun(u), ready |-> u.status.ready,
                          items |-> Listed(u), data |-> u.shown.run]]
         IN  UiOK(Rendered(u, ReloadStatus(begun, TRUE), touched), o)
<1> DEFINE yes == TRUE
           r == [run |-> u.view.run, enabled |-> ~IsLargeRun(u), ready |-> u.status.ready,
                 items |-> Listed(u), data |-> u.shown.run]
           begun == [u EXCEPT !.refresh = r]
           v == ReloadStatus(begun, yes)
<1>1. yes \in BOOLEAN
  OBVIOUS
<1>2. yes
  OBVIOUS
<1> HIDE DEF yes
<1>3. /\ u \in UiType /\ u.refs = RefsOf(u) /\ Settled(u, u, o) /\ u.calls \in [Hooks -> Seq(CallType)]
      /\ ListOK(u.sessions, u.calls["sessions"], u.status.ready, u.refresh, o)
      /\ NoOwn(u.calls) /\ "status" \in Hooks /\ "sessions" \in Hooks
  BY AlreadySettled DEF UiOK, UiType, Hooks, RefreshOK
<1>4. /\ r \in Refreshes /\ r # None
      /\ r.run = u.view.run /\ r.enabled = ~IsLargeRun(u) /\ r.ready = u.status.ready
  <2>1. /\ u.view.run \in Runs \cup {None} /\ (~IsLargeRun(u)) \in BOOLEAN /\ u.status.ready \in BOOLEAN
        /\ u.shown.run \in Runs \cup {None}
    <3>1. u.view.run \in Runs \cup {None} /\ u.status.ready \in BOOLEAN /\ u.shown.run \in Runs \cup {None}
      BY <1>3 DEF UiType, ViewType, StatusType, ShownType, MaybeRun
    <3>2. (~IsLargeRun(u)) \in BOOLEAN
      BY DEF IsLargeRun
    <3> QED
      BY <3>1, <3>2
  <2>2. Listed(u) \in SUBSET Runs
    BY <1>3, ListedTyped
  <2>3. r \in Refreshes
    BY <2>1, <2>2 DEF Refreshes
  <2> QED
    BY <2>3, HooksAssumption
<1> HIDE DEF r
<1>5. /\ begun \in UiType /\ begun.view = u.view /\ begun.status = u.status /\ begun.sessions = u.sessions
      /\ begun.shown = u.shown /\ begun.details = u.details /\ begun.refs = u.refs /\ begun.large = u.large
      /\ begun.refresh = r /\ begun.calls = u.calls
  BY <1>3, <1>4 DEF UiType
<1> HIDE DEF begun
<1>6. PICK c \in CallType : c.refresh = yes /\ v.calls["status"] = Append(u.calls["status"], c)
  <2>1. \E c \in CallType : c.refresh = yes /\ v.calls["status"] = Append(begun.calls["status"], c)
    BY <1>1, <1>5, ReloadStatusShape
  <2> QED
    BY <1>5, <2>1
<1>7. /\ v \in UiType
      /\ v.view = u.view /\ v.sessions = u.sessions /\ v.shown = u.shown
      /\ v.details = u.details /\ v.refs = u.refs /\ v.large = u.large /\ v.refresh = r
      /\ v.status.ready = u.status.ready
      /\ \A h \in Hooks \ {"status"} : v.calls[h] = u.calls[h]
  BY <1>1, <1>5, ReloadStatusShape
<1> HIDE DEF v
<1>8. v.calls["sessions"] = u.calls["sessions"]
  BY <1>7 DEF Hooks
<1>9. StatusOK(v.status, v.calls["status"])
  BY <1>3, <1>6, Sent DEF StatusOK
<1>10. ListOK(v.sessions, v.calls["sessions"], u.status.ready, v.refresh, o)
  BY <1>3, <1>7, <1>8 DEF ListOK
<1>11. Settled(u, v, o)
  BY <1>3, <1>7, <1>9, <1>10 DEF Settled, Hooks
<1>12. OneOwn(v.calls, "status")
  <2>1. c \in CallType /\ c.refresh /\ v.calls["status"] = Append(u.calls["status"], c)
    BY <1>2, <1>6
  <2>2. \A h \in Hooks \ {"status"} : v.calls[h] = u.calls[h]
    BY <1>7
  <2> QED
    BY <1>3, <2>1, <2>2, OwnCallSent DEF Hooks
<1>13. IsLargeRun(v) = IsLargeRun(u)
  BY <1>3, <1>7, SameSelection
<1>14. IsLargeRun(u) => u.status.ready
  <2>1. IsLargeRun(u) => Listed(u) # {}
    BY DEF IsLargeRun
  <2>2. IsLargeRun(u) => u.sessions.items # None
    BY <1>3, <2>1, ListedTyped
  <2> QED
    BY <1>3, <2>2 DEF ListOK
<1>15. RefreshOK(v.refresh, v.calls, u.status.ready, v.view.run, IsLargeRun(v), o)
  <2>1. "status" \in Reloaded
    BY DEF Reloaded
  <2>2. \E hook \in Reloaded : OneOwn(v.calls, hook)
    BY <1>12, <2>1
  <2>3. o => \A i \in DOMAIN v.calls["sessions"] : v.calls["sessions"][i].refresh
    BY <1>8
  <2>4. ~r.enabled => r.ready /\ IsLargeRun(v)
    BY <1>4, <1>13, <1>14
  <2>5. v.refresh # None /\ (v.refresh.ready => u.status.ready) /\ v.refresh.run = v.view.run
    BY <1>4, <1>7
  <2> QED
    BY <1>7, <2>2, <2>3, <2>4, <2>5 DEF RefreshOK
<1>16. Moved(u, v, touched, o)
  BY <1>7 DEF Moved
<1>17. UiOK(Rendered(u, v, touched), o)
  BY <1>3, <1>11, <1>15, <1>16, RenderedOK DEF Mid
<1> QED
  BY <1>17 DEF v, begun, r, yes

-----------------------------------------------------------------------------
(***************************************************************************)
(* The first render.                                                       *)
(***************************************************************************)

\* The page before its first render.
Blank ==
  [view |-> [run |-> None, open |-> {}],
   status |-> [loading |-> FALSE, ready |-> FALSE, error |-> FALSE],
   sessions |-> [items |-> None, next |-> 0, loading |-> FALSE, error |-> FALSE],
   shown |-> NoRun, details |-> NoDetails, refs |-> [run |-> None, ids |-> {}], large |-> NoLarge,
   refresh |-> None, calls |-> [h \in Hooks |-> <<>>]]

LEMMA BlankTyped ==
  /\ Blank \in UiType
  /\ Blank.refresh = None /\ \A h \in Hooks : Blank.calls[h] = <<>>
  /\ Blank.view.run = None /\ Blank.refs = [run |-> None, ids |-> {}]
  /\ ~Blank.status.ready /\ Blank.sessions.items = None /\ ~Blank.sessions.loading
  /\ ~Blank.shown.loading
  /\ Blank.details.run = None /\ DOMAIN Blank.details.data = {} /\ Blank.details.loading = {}
  /\ Blank.large = NoLarge
<1>1. [run |-> None, open |-> {}] \in ViewType /\ [run |-> None, ids |-> {}] \in RefsType
  BY DEF ViewType, RefsType, MaybeRun
<1>2. [loading |-> FALSE, ready |-> FALSE, error |-> FALSE] \in StatusType
  BY DEF StatusType
<1>3. [items |-> None, next |-> 0, loading |-> FALSE, error |-> FALSE] \in SessionsType
  <2>1. 0 \in 0..Len(Pages)
    BY HooksAssumption
  <2> QED
    BY <2>1 DEF SessionsType
<1>4. NoRun \in ShownType /\ ~NoRun.loading
  BY DEF NoRun, ShownType, MaybeRun
<1>5. NoDetails \in DetailsType /\ NoDetails.run = None /\ DOMAIN NoDetails.data = {} /\ NoDetails.loading = {}
  <2>1. [id \in {} |-> None] \in DataType
    <3>1. DOMAIN [id \in {} |-> None] = {} /\ [id \in {} |-> None] \in [{} -> Runs]
      OBVIOUS
    <3> QED
      BY <3>1, DataTyped
  <2> QED
    BY <2>1 DEF NoDetails, DetailsType, MaybeRun
<1>6. NoLarge \in LargeType
  BY DEF NoLarge, LargeType, MaybeRun
<1>7. [h \in Hooks |-> <<>>] \in [Hooks -> Seq(CallType)]
  <2>1. <<>> \in Seq(CallType)
    OBVIOUS
  <2> QED
    BY <2>1
<1> QED
  BY <1>1, <1>2, <1>3, <1>4, <1>5, <1>6, <1>7 DEF Blank, UiType

LEMMA OpenedOK ==
  ASSUME NEW run \in MaybeRun, NEW open \in SUBSET Ids, NEW o
  PROVE  UiOK(Opened(run, open), o)
<1> DEFINE no == FALSE
           yes == TRUE
           b == Blank
           view == [run |-> run, open |-> open]
           x == [b EXCEPT !.view = view]
           v == ReloadStatus(x, no)
<1>1. Opened(run, open) = Rendered(b, v, yes)
  BY DEF Opened, Blank
<1>2. no \in BOOLEAN /\ yes \in BOOLEAN
  OBVIOUS
<1>3. ~no /\ yes
  OBVIOUS
<1>4. view \in ViewType
  BY DEF ViewType
<1> HIDE DEF no, yes, b, view
<1>5. /\ b \in UiType
      /\ b.refresh = None /\ \A h \in Hooks : b.calls[h] = <<>>
      /\ b.view.run = None /\ b.refs = [run |-> None, ids |-> {}]
      /\ ~b.status.ready /\ b.sessions.items = None /\ ~b.sessions.loading
      /\ ~b.shown.loading
      /\ b.details.run = None /\ DOMAIN b.details.data = {} /\ b.details.loading = {}
      /\ b.large = NoLarge
  BY BlankTyped DEF b
<1>6. /\ x \in UiType /\ x.status = b.status /\ x.sessions = b.sessions /\ x.shown = b.shown
      /\ x.details = b.details /\ x.refs = b.refs /\ x.large = b.large /\ x.refresh = b.refresh
      /\ x.calls = b.calls
  BY <1>4, <1>5 DEF UiType
<1> HIDE DEF x
<1>7. PICK c \in CallType : c.refresh = no /\ v.calls["status"] = Append(b.calls["status"], c)
  <2>1. \E c \in CallType : c.refresh = no /\ v.calls["status"] = Append(x.calls["status"], c)
    BY <1>2, <1>6, ReloadStatusShape
  <2> QED
    BY <1>6, <2>1
<1>8. /\ v \in UiType
      /\ v.sessions = b.sessions /\ v.shown = b.shown
      /\ v.details = b.details /\ v.refs = b.refs /\ v.large = b.large /\ v.refresh = b.refresh
      /\ v.status.ready = b.status.ready
      /\ \A h \in Hooks \ {"status"} : v.calls[h] = b.calls[h]
  BY <1>2, <1>6, ReloadStatusShape
<1> HIDE DEF v
<1>9. /\ v.calls["sessions"] = <<>> /\ v.calls["run"] = <<>> /\ v.calls["details"] = <<>>
      /\ v.calls["large"] = <<>> /\ v.calls["requests"] = <<>> /\ v.calls["artifacts"] = <<>>
      /\ b.calls["status"] = <<>>
  BY <1>5, <1>8 DEF Hooks
<1>10. ~IsLargeRun(b) /\ LargeRunShown(b) = None /\ b.refs = RefsOf(b)
  <2>1. ~IsLargeRun(b)
    BY <1>5 DEF IsLargeRun, Listed
  <2>2. LargeRunShown(b) = None
    BY <2>1 DEF LargeRunShown
  <2>3. b.refs = RefsOf(b)
    <3>1. b.view.open = {}
      BY DEF b, Blank
    <3> QED
      BY <1>5, <2>1, <3>1 DEF RefsOf
  <2> QED
    BY <2>1, <2>2, <2>3
<1>11. StatusOK(v.status, v.calls["status"])
  <2>1. b.calls["status"] \in Seq(CallType)
    BY <1>5 DEF UiType, Hooks
  <2> QED
    BY <1>7, <2>1, Sent DEF StatusOK
<1>12. ListOK(v.sessions, v.calls["sessions"], b.status.ready, v.refresh, o)
  BY <1>5, <1>8, <1>9 DEF ListOK
<1>13. ShownOK(b.view.run, IsLargeRun(b), v.shown, v.calls["run"], o)
  BY <1>5, <1>8 DEF ShownOK
<1>14. DetailsOK(b.refs, v.details, v.calls["details"], o)
  BY <1>5, <1>8, <1>9 DEF DetailsOK
<1>15. LargeOK(LargeRunShown(b), v.large, v.calls["large"], v.calls["requests"], v.calls["artifacts"], o)
  BY <1>5, <1>8, <1>9, <1>10 DEF LargeOK, NoLarge
<1>16. RefreshOK(v.refresh, v.calls, b.status.ready, v.view.run, IsLargeRun(v), o)
  <2>1. Own(v.calls["status"]) = {}
    <3>1. b.calls["status"] \in Seq(CallType) /\ Own(b.calls["status"]) = {}
      BY <1>5, <1>9 DEF UiType, Hooks, Own
    <3> QED
      BY <1>3, <1>7, <3>1, OwnSent
  <2>2. \A h \in Hooks \ {"status"} : Own(v.calls[h]) = {}
    BY <1>5, <1>8 DEF Own
  <2>3. NoOwn(v.calls)
    BY <2>1, <2>2 DEF NoOwn
  <2> QED
    BY <1>5, <1>8, <2>3 DEF RefreshOK
<1>17. Mid(b, v, o)
  BY <1>5, <1>8, <1>11, <1>12, <1>13, <1>14, <1>15, <1>16 DEF Mid, Settled
<1>18. Moved(b, v, yes, o)
  BY <1>3, <1>9 DEF Moved
<1>19. UiOK(Rendered(b, v, yes), o)
  BY <1>2, <1>5, <1>10, <1>17, <1>18, RenderedOK
<1> QED
  BY <1>1, <1>19

-----------------------------------------------------------------------------
(***************************************************************************)
(* The invariant is inductive.                                             *)
(***************************************************************************)

LEMMA InitOK == Init => IInv
<1> SUFFICES ASSUME Init PROVE IInv
  OBVIOUS
<1>1. orderly \in BOOLEAN
  BY DEF Init
<1>2. PICK run \in Runs \cup {None} :
        \E open \in {{}} \cup {{id} : id \in IF run = None THEN {} ELSE ArtifactIds[run]} :
          ui = Opened(run, open)
  BY DEF Init
<1>3. PICK open \in {{}} \cup {{id} : id \in IF run = None THEN {} ELSE ArtifactIds[run]} :
        ui = Opened(run, open)
  BY <1>2
<1>4. run \in MaybeRun
  BY DEF MaybeRun
<1>5. open \in SUBSET Ids
  <2>1. run # None => ArtifactIds[run] \subseteq Ids
    BY DEF Ids
  <2> QED
    BY <2>1
<1>6. UiOK(Opened(run, open), orderly)
  BY <1>4, <1>5, OpenedOK
<1> QED
  BY <1>1, <1>3, <1>6 DEF IInv

LEMMA NextOK ==
  ASSUME IInv, [Next]_vars
  PROVE  IInv'
<1> DEFINE yes == TRUE
           no == FALSE
<1>1. yes \in BOOLEAN /\ no \in BOOLEAN
  OBVIOUS
<1>2. yes
  OBVIOUS
<1> HIDE DEF yes, no
<1>3. UiOK(ui, orderly) /\ orderly \in BOOLEAN
  BY DEF IInv
<1>4. CASE AnswerAny
  <2>0. PICK hook \in Hooks : \E i \in DOMAIN ui.calls[hook] : Answer(hook, i)
    BY <1>4 DEF AnswerAny
  <2>1. PICK i \in DOMAIN ui.calls[hook] : Answer(hook, i)
    BY <2>0
  <2> DEFINE call == ui.calls[hook][i]
             next(ok) == Continued(Answered(Took(ui, hook, i), hook, call, ok), hook, call)
  <2>2. orderly' = orderly /\ (orderly => i = 1)
    BY <2>1 DEF Answer
  <2>3. PICK ok \in Outcomes(hook, call) :
          ui' = Rendered(ui, next(ok), call.refresh /\ next(ok).refresh = None)
    BY <2>1 DEF Answer, Took
  <2>4. UiOK(Rendered(ui, next(ok), call.refresh /\ next(ok).refresh = None), orderly)
    BY <1>3, <2>2, AnswerOK
  <2> QED
    BY <1>3, <2>2, <2>3, <2>4 DEF IInv
<1>5. ASSUME NEW run \in Runs, Select(run)
      PROVE  IInv'
  <2>1. /\ orderly' = orderly /\ ui' = Rendered(ui, [ui EXCEPT !.view = [run |-> run, open |-> {}]], yes)
        /\ orderly => ui.refresh = None /\ ui.calls["requests"] \o ui.calls["artifacts"] = <<>>
    BY <1>5 DEF Select, Click, yes
  <2>2. UiOK(Rendered(ui, [ui EXCEPT !.view = [run |-> run, open |-> {}]], yes), orderly)
    BY <1>1, <1>2, <1>3, <2>1, SelectOK
  <2> QED
    BY <1>3, <2>1, <2>2 DEF IInv
<1>6. ASSUME NEW id \in Ids, Toggle(id)
      PROVE  IInv'
  <2>1. orderly' = orderly /\ ui' = Rendered(ui, [ui EXCEPT !.view.open = SymDiff(@, {id})], yes)
    BY <1>6 DEF Toggle, Click, yes
  <2>2. UiOK(Rendered(ui, [ui EXCEPT !.view.open = SymDiff(@, {id})], yes), orderly)
    BY <1>1, <1>2, <1>3, ToggleOK
  <2> QED
    BY <1>3, <2>1, <2>2 DEF IInv
<1>7. CASE LoadMore
  <2> DEFINE v == Send([ui EXCEPT !.sessions.loading = TRUE], "sessions", Call(None, {}, ui.sessions.next, FALSE))
  <2>1. /\ orderly' = orderly /\ ui' = Rendered(ui, v, no)
        /\ ShowsList(ui) /\ ui.sessions.next # 0
        /\ orderly => ui.refresh = None /\ ui.calls["sessions"] = <<>>
    BY <1>7 DEF LoadMore, Click, no
  <2>2. UiOK(Rendered(ui, v, no), orderly)
    BY <1>1, <1>3, <2>1, LoadMoreOK
  <2> QED
    BY <1>3, <2>1, <2>2 DEF IInv
<1>8. ASSUME NEW hook \in {"requests", "artifacts"}, LoadLarge(hook)
      PROVE  IInv'
  <2>1. /\ orderly' = orderly /\ ui.large.run # None
        /\ ui' = Rendered(ui, Send(ui, hook, Call(ui.large.at, {}, 0, FALSE)), no)
    BY <1>8 DEF LoadLarge, Click, no
  <2>2. UiOK(Rendered(ui, Send(ui, hook, Call(ui.large.at, {}, 0, FALSE)), no), orderly)
    BY <1>1, <1>3, <2>1, LoadLargeOK
  <2> QED
    BY <1>3, <2>1, <2>2 DEF IInv
<1>9. CASE RetryStatus
  <2>1. orderly' = orderly /\ ui' = Rendered(ui, ReloadStatus(ui, FALSE), no)
    BY <1>9 DEF RetryStatus, Click, no
  <2>2. UiOK(Rendered(ui, ReloadStatus(ui, FALSE), no), orderly)
    BY <1>1, <1>3, RetryStatusOK
  <2> QED
    BY <1>3, <2>1, <2>2 DEF IInv
<1>10. CASE RetrySessions
  <2>1. /\ orderly' = orderly /\ ui' = Rendered(ui, ReloadSessions(ui, FALSE), no)
        /\ ui.sessions.error /\ ui.status.ready
        /\ orderly => ui.refresh = None
    BY <1>10 DEF RetrySessions, Click, no
  <2>2. UiOK(Rendered(ui, ReloadSessions(ui, FALSE), no), orderly)
    BY <1>1, <1>3, <2>1, RetrySessionsOK
  <2> QED
    BY <1>3, <2>1, <2>2 DEF IInv
<1>11. CASE BeginRefresh
  <2> DEFINE begun == [ui EXCEPT !.refresh =
                         [run |-> ui.view.run, enabled |-> ~IsLargeRun(ui), ready |-> ui.status.ready,
                          items |-> Listed(ui), data |-> ui.shown.run]]
  <2>1. /\ orderly' = orderly /\ ui' = Rendered(ui, ReloadStatus(begun, TRUE), no)
        /\ ui.refresh = None
        /\ orderly => ui.calls["sessions"] = <<>>
    BY <1>11 DEF BeginRefresh, Click, no
  <2>2. UiOK(Rendered(ui, ReloadStatus(begun, TRUE), no), orderly)
    BY <1>1, <1>3, <2>1, BeginRefreshOK
  <2> QED
    BY <1>3, <2>1, <2>2 DEF IInv
<1>12. CASE UNCHANGED vars
  BY <1>3, <1>12 DEF IInv, vars
<1> QED
  BY <1>4, <1>5, <1>6, <1>7, <1>8, <1>9, <1>10, <1>11, <1>12 DEF Next

(***************************************************************************)
(* Every page a browser reaches is typed, and what its hooks hold agrees   *)
(* with the calls still in flight, whatever the order of clicks, timers    *)
(* and answers (useApiStatus, useSessions, useSelectedRun,                 *)
(* useArtifactDetails and LargeRunExplorer).                               *)
(***************************************************************************)
THEOREM Invariance == Spec => []IInv
<1>1. IInv /\ [Next]_vars => IInv'
  BY NextOK
<1> QED
  BY InitOK, <1>1, PTL DEF Spec

-----------------------------------------------------------------------------
(***************************************************************************)
(* What follows for the reader.                                            *)
(***************************************************************************)

LEMMA Typed == IInv => TypeOK
<1> SUFFICES ASSUME IInv PROVE TypeOK
  OBVIOUS
<1>1. ui \in UiType /\ orderly \in BOOLEAN
  BY DEF IInv, UiOK
<1>2. /\ ui.view \in ViewType /\ ui.status \in StatusType /\ ui.sessions \in SessionsType
      /\ ui.shown \in ShownType /\ ui.details \in DetailsType /\ ui.refs \in RefsType
      /\ ui.large \in LargeType /\ ui.calls \in [Hooks -> Seq(CallType)]
  BY <1>1 DEF UiType
<1>3. ui.details.data \in [DOMAIN ui.details.data -> Runs] /\ DOMAIN ui.details.data \subseteq Ids
  <2>1. ui.details.data \in DataType
    BY <1>2 DEF DetailsType
  <2> QED
    BY <2>1, DataTyped
<1>4. ui.details.errors \cup ui.details.loading \subseteq Ids
  BY <1>2 DEF DetailsType
<1>5. \A key \in {"at", "run", "page", "artifacts"} : ui.large[key] \in MaybeRun
  BY <1>2 DEF LargeType
<1>6. \A h \in Hooks : ui.calls[h] \in Seq(CallType)
  BY <1>2
<1>7. (ui.sessions.items = None \/ ui.sessions.items \in Seq(Runs)) /\ ui.sessions.next \in 0 .. Len(Pages)
  BY <1>2 DEF SessionsType
<1> QED
  BY <1>1, <1>2, <1>3, <1>4, <1>5, <1>6, <1>7
  DEF TypeOK, ViewType, StatusType, ShownType, RefsType, CallType, MaybeRun

LEMMA TrueDetails == IInv => DetailsAreOfSelectedRun /\ ExpandedArtifactsAreAnswered
<1> SUFFICES ASSUME IInv PROVE DetailsAreOfSelectedRun /\ ExpandedArtifactsAreAnswered
  OBVIOUS
<1> DEFINE queue == ui.calls["details"]
<1>1. DetailsOK(ui.refs, ui.details, queue, orderly) /\ ui.refs = RefsOf(ui)
  BY DEF IInv, UiOK
<1>2. ASSUME NEW id \in DOMAIN ui.details.data, ui.details.data[id] # ui.view.run
      PROVE  /\ id \in ui.view.open /\ id \in ArtifactIds[ui.details.data[id]]
             /\ orderly /\ ui.view.run # None =>
                  \/ id \in ui.details.errors
                  \/ \E i \in CallsFor(id) : queue[i].run = ui.view.run
  <2>1. id \in ui.refs.ids /\ id \in ArtifactIds[ui.details.data[id]]
    BY <1>1 DEF DetailsOK
  <2>2. ui.refs.ids = ui.view.open /\ ui.refs.run = ui.view.run
    <3>1. ~IsLargeRun(ui)
      BY <1>1, <2>1 DEF RefsOf
    <3> QED
      BY <1>1, <3>1 DEF RefsOf
  <2>3. orderly /\ ui.view.run # None => id \in ui.details.errors \/ Asked(id, ui.view.run, queue, 0)
    BY <1>1, <1>2, <2>2 DEF DetailsOK
  <2>4. Asked(id, ui.view.run, queue, 0) => \E i \in CallsFor(id) : queue[i].run = ui.view.run
    BY DEF Asked, CallsFor
  <2> QED
    BY <2>1, <2>2, <2>3, <2>4
<1>3. ASSUME NEW id \in ui.refs.ids, ui.refs.run # None
      PROVE  id \in DOMAIN ui.details.data \cup ui.details.errors \/ CallsFor(id) # {}
  <2>1. id \in DOMAIN ui.details.data \cup ui.details.errors \cup ui.details.loading
    BY <1>1, <1>3 DEF DetailsOK
  <2>2. id \in ui.details.loading => CallsFor(id) # {}
    BY <1>1 DEF DetailsOK, CallsFor
  <2> QED
    BY <2>1, <2>2
<1>4. DetailsAreOfSelectedRun
  BY <1>2 DEF DetailsAreOfSelectedRun
<1>5. ExpandedArtifactsAreAnswered
  BY <1>3 DEF ExpandedArtifactsAreAnswered
<1> QED
  BY <1>4, <1>5

(***************************************************************************)
(* A detail shown under the selected run is its own, or is about to be put *)
(* right, and no expanded artifact is forgotten: useArtifactDetails        *)
(* applies answers by id alone, so this rests on every render asking again *)
(* for what the run does not have.                                         *)
(***************************************************************************)
THEOREM DetailsHold == Spec => []DetailsAreTrue
<1>1. IInv => DetailsAreTrue
  BY Typed, TrueDetails DEF DetailsAreTrue
<1> QED
  BY Invariance, <1>1, PTL

(***************************************************************************)
(* Once all is answered, the run on the screen is the selected one: of the *)
(* run calls in flight the last is for it (useSelectedRun), and the        *)
(* explorer of large runs is mounted anew for each (LargeRunExplorer).     *)
(***************************************************************************)
THEOREM SelectionHolds == Spec => []SelectionIsShown
<1>1. IInv => SelectionIsShown
  <2> SUFFICES ASSUME IInv PROVE SelectionIsShown
    OBVIOUS
  <2>1. /\ ShownOK(ui.view.run, IsLargeRun(ui), ui.shown, ui.calls["run"], orderly)
        /\ LargeOK(LargeRunShown(ui), ui.large, ui.calls["large"], ui.calls["requests"],
                   ui.calls["artifacts"], orderly)
    BY DEF IInv, UiOK
  <2>2. Quiet => ui.calls["run"] = <<>>
    BY DEF Quiet, Hooks
  <2>3. SelectedRunIsShown
    BY <2>1, <2>2 DEF SelectedRunIsShown, ShownOK
  <2>4. LargeRunIsSelected
    BY <2>1 DEF LargeRunIsSelected, LargeOK
  <2> QED
    BY <2>3, <2>4 DEF SelectionIsShown
<1> QED
  BY Invariance, <1>1, PTL

(***************************************************************************)
(* When the reader waits for the list to load, it is the API's list as far *)
(* as it was read: a reload replaces it by its first page, loadMore adds   *)
(* the page after it (useSessions).                                        *)
(***************************************************************************)
THEOREM ListHolds == Spec => []SessionListIsWhole
<1>1. IInv => SessionListIsWhole
  BY DEF IInv, UiOK, ListOK, WholeList, SessionListIsWhole
<1> QED
  BY Invariance, <1>1, PTL

(***************************************************************************)
(* A refresh waits for exactly one call, and behind every spinner there is *)
(* one: neither can be left without the answer that ends it, whatever      *)
(* fails (refresh in DashboardController, the finally clauses of           *)
(* the hooks).                                                             *)
(***************************************************************************)
THEOREM NothingIsStuck == Spec => []NothingHangs
<1>1. IInv => NothingHangs
  <2> SUFFICES ASSUME IInv PROVE NothingHangs
    OBVIOUS
  <2>1. /\ StatusOK(ui.status, ui.calls["status"])
        /\ ListOK(ui.sessions, ui.calls["sessions"], ui.status.ready, ui.refresh, orderly)
        /\ ShownOK(ui.view.run, IsLargeRun(ui), ui.shown, ui.calls["run"], orderly)
        /\ DetailsOK(ui.refs, ui.details, ui.calls["details"], orderly)
        /\ RefreshOK(ui.refresh, ui.calls, ui.status.ready, ui.view.run, IsLargeRun(ui), orderly)
    BY DEF IInv, UiOK
  <2> DEFINE own(h) == {i \in DOMAIN ui.calls[h] : ui.calls[h][i].refresh}
  <2>2. \A h \in Hooks : own(h) = Own(ui.calls[h])
    BY DEF Own
  <2> HIDE DEF own
  <2>3. ui.refresh = None => \A h \in Hooks : own(h) = {}
    BY <2>1, <2>2 DEF RefreshOK, NoOwn
  <2>4. ui.refresh # None =>
          \E h \in Hooks : (\E i \in own(h) : own(h) = {i}) /\ \A g \in Hooks \ {h} : own(g) = {}
    <3> SUFFICES ASSUME ui.refresh # None
                 PROVE  \E h \in Hooks : (\E i \in own(h) : own(h) = {i}) /\ \A g \in Hooks \ {h} : own(g) = {}
      OBVIOUS
    <3>1. PICK h \in Reloaded : OneOwn(ui.calls, h)
      BY <2>1 DEF RefreshOK
    <3>2. h \in Hooks
      BY DEF Reloaded, Hooks
    <3> QED
      BY <2>2, <3>1, <3>2 DEF OneOwn
  <2>5. \A id \in ui.details.loading : CallsFor(id) # {}
    BY <2>1 DEF DetailsOK, CallsFor
  <2>6. /\ ui.status.loading => ui.calls["status"] # <<>>
        /\ ui.sessions.loading => ui.calls["sessions"] # <<>>
        /\ ui.shown.loading => ui.calls["run"] # <<>>
    BY <2>1 DEF StatusOK, ListOK, ShownOK
  <2> QED
    BY <2>3, <2>4, <2>5, <2>6 DEF NothingHangs, own
<1> QED
  BY Invariance, <1>1, PTL
=============================================================================
