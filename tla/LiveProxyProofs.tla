--------------------------- MODULE LiveProxyProofs ---------------------------
(***************************************************************************)
(* Proofs that the live proxy keeps its safety invariants, for every set   *)
(* of requests, runs, payloads and responses and whatever the bounds; and  *)
(* that the observer of a response keeps its own, for every body.          *)
(***************************************************************************)
EXTENDS LiveProxy, ResponseObserver, SequenceTheorems, WellFoundedInduction, TLAPS

-----------------------------------------------------------------------------
(***************************************************************************)
(* The types of the router, which this module's steps use through its      *)
(* operations alone.                                                       *)
(***************************************************************************)

\* A Map whose keys and values are typed stays so after set(key, value).
LEMMA PutType ==
  ASSUME NEW K, NEW V, NEW map, NEW k \in K, NEW v \in V,
         \E D \in SUBSET K : map \in [D -> V]
  PROVE  \E D \in SUBSET K : Put(map, k, v) \in [D -> V]
<1>1. PICK D \in SUBSET K : map \in [D -> V]
  OBVIOUS
<1>2. Put(map, k, v) \in [D \cup {k} -> V]
  BY <1>1 DEF Put
<1>3. D \cup {k} \in SUBSET K
  BY <1>1
<1> QED
  BY <1>2, <1>3

\* An empty Map has any type.
LEMMA EmptyMapType ==
  ASSUME NEW K, NEW V
  PROVE  \E D \in SUBSET K : EmptyMap \in [D -> V]
<1>1. EmptyMap \in [{} -> V]
  BY DEF EmptyMap
<1> QED
  BY <1>1

\* Routing a request keeps the router's types (session-router.ts, resolve).
LEMMA ResolveType ==
  ASSUME RouterTypeOK, NEW p \in Payload, NEW s \in SessionIds, Resolve(p, s)
  PROVE  RouterTypeOK'
<1> USE RouterAssumption
<1>1. UNCHANGED <<responseSessions, now>> /\ profilers' \in SUBSET SessionIds
  BY DEF Resolve, RouterTypeOK
<1>2. minted' \in SUBSET Generated
  BY DEF Resolve, ResolveStated, ResolveContinuation, ResolveFingerprint, ResolveNew,
         RouterTypeOK
<1>3. [sessionId |-> s, lastSeenAt |-> now] \in FingerprintSession
  BY DEF RouterTypeOK, FingerprintSession
<1>4. p.fingerprint \in Fingerprints \cup {None}
  BY DEF Payload
<1>5. \E seen \in SUBSET Fingerprints :
        fingerprintSessions' \in [seen -> FingerprintSession]
  <2>1. CASE UNCHANGED fingerprintSessions
    BY <2>1 DEF RouterTypeOK
  <2>2. CASE /\ p.fingerprint \in Fingerprints
             /\ fingerprintSessions' = Put(fingerprintSessions, p.fingerprint,
                                           [sessionId |-> s, lastSeenAt |-> now])
    BY <1>3, <2>2, PutType DEF RouterTypeOK
  <2>3. ASSUME ResolveFingerprint(p, s) PROVE p.fingerprint \in Fingerprints
    BY <2>3 DEF ResolveFingerprint, IsRecent, RouterTypeOK
  <2> QED
    BY <1>4, <2>1, <2>2, <2>3
    DEF Resolve, ResolveStated, ResolveContinuation, ResolveFingerprint, ResolveNew
<1> QED
  BY <1>1, <1>2, <1>5 DEF RouterTypeOK

\* So does registering a response (registerResponse).
LEMMA RegisterType ==
  ASSUME RouterTypeOK, NEW rid \in ResponseIds, NEW s \in SessionIds \cup {None},
         RegisterResponse(rid, s)
  PROVE  RouterTypeOK'
<1>1. UNCHANGED <<fingerprintSessions, profilers, now>>
  BY DEF RegisterResponse
<1>2. minted' \in SUBSET Generated
  BY DEF RegisterResponse, RouterTypeOK
<1>3. \E known_ \in SUBSET ResponseIds : responseSessions' \in [known_ -> SessionIds]
  <2>1. PICK v \in SessionIds : responseSessions' = Put(responseSessions, rid, v)
    BY DEF RegisterResponse, SessionIds
  <2> QED
    BY <2>1, PutType DEF RouterTypeOK
<1> QED
  BY <1>1, <1>2, <1>3 DEF RouterTypeOK

\* What every step does to the router is a routing, a registration, a new router,
\* a tick of the clock, or nothing.
LEMMA RouterStepType ==
  ASSUME RouterTypeOK,
         \/ \E p \in Payload, s \in SessionIds : Resolve(p, s)
         \/ \E rid \in ResponseIds, s \in SessionIds \cup {None} : RegisterResponse(rid, s)
         \/ NewRouter
         \/ UNCHANGED <<responseSessions, fingerprintSessions, profilers, minted>> /\ now' \in Nat
  PROVE  RouterTypeOK'
<1>1. CASE NewRouter
  <2>1. \E D \in SUBSET ResponseIds : EmptyMap \in [D -> SessionIds]
    BY EmptyMapType
  <2>2. \E D \in SUBSET Fingerprints : EmptyMap \in [D -> FingerprintSession]
    BY EmptyMapType
  <2> QED
    BY <1>1, <2>1, <2>2 DEF NewRouter, RouterTypeOK
<1>2. CASE UNCHANGED <<responseSessions, fingerprintSessions, profilers, minted>> /\ now' \in Nat
  BY <1>2 DEF RouterTypeOK
<1> QED
  BY <1>1, <1>2, ResolveType, RegisterType

-----------------------------------------------------------------------------
(***************************************************************************)
(* Type correctness.                                                       *)
(***************************************************************************)

Mishaps == [disk : 0..MaxDiskFailures, departures : 0..MaxDepartures,
            kills : 0..MaxKills]

\* The variables that are not the router's.
ProxyTypeOK ==
  /\ stage \in [Requests -> Stages]
  /\ client \in [Requests -> {"connected", "gone"}]
  /\ payload \in [Requests -> Payloads \cup {None}]
  /\ session \in [Requests -> SessionIds \cup {None}]
  /\ artifacts \in [Requests -> 0..MaxArtifacts]
  /\ written \in [Requests -> 0..(MaxArtifacts + 1)]
  /\ response \in [Requests -> ResponseIds \cup {None}]
  /\ usage \in [Requests -> {"none", "writing", "stored", "failed", "lost"}]
  /\ runs \in [SessionIds -> Seq(Event)]
  /\ known \in SUBSET ResponseIds
  /\ phase \in Phases
  /\ awaited \in SUBSET Requests
  /\ epoch \in 0..MaxRestarts
  /\ routedBy \in [Requests -> 0..MaxRestarts]
  /\ mishaps \in Mishaps

\* The type invariant is the router's part and the proxy's part.
LEMMA TypeParts == TypeOK <=> RouterTypeOK /\ ProxyTypeOK
BY DEF TypeOK, ProxyTypeOK, Mishaps

\* Counting one more of the environment's steps keeps the counts typed.
LEMMA MishapsType ==
  ASSUME mishaps \in Mishaps
  PROVE  /\ mishaps.disk < MaxDiskFailures
              => [mishaps EXCEPT !.disk = @ + 1] \in Mishaps
         /\ mishaps.departures < MaxDepartures
              => [mishaps EXCEPT !.departures = @ + 1] \in Mishaps
         /\ mishaps.kills < MaxKills
              => [mishaps EXCEPT !.kills = @ + 1] \in Mishaps
BY ProxyAssumption DEF Mishaps

\* Appending an event keeps the type of the runs.
LEMMA RunsType ==
  ASSUME runs \in [SessionIds -> Seq(Event)], NEW s \in SessionIds,
         NEW r \in Requests, NEW i \in Nat,
         runs' = [runs EXCEPT ![s] = Append(@, EventOf(r, i))]
  PROVE  runs' \in [SessionIds -> Seq(Event)]
<1>1. EventOf(r, i) \in Event
  BY DEF EventOf, Event
<1>2. runs[s] \in Seq(Event)
  OBVIOUS
<1>3. Append(runs[s], EventOf(r, i)) \in Seq(Event)
  BY <1>1, <1>2, AppendProperties
<1> QED
  BY <1>3

\* A proxy that starts has typed variables (createProfilerProxy).
LEMMA InitType == Init => TypeOK
<1> SUFFICES ASSUME Init PROVE TypeOK
  OBVIOUS
<1> USE RouterAssumption, ProxyAssumption
<1>1. RouterTypeOK
  BY EmptyMapType DEF Init, RouterInit, RouterTypeOK
<1>2. <<>> \in Seq(Event)
  BY EmptySeq
<1>3. ProxyTypeOK
  BY <1>2 DEF Init, ProxyTypeOK, Mishaps, Stages, InHand, Final, Phases
<1> QED
  BY <1>1, <1>3, TypeParts

\* Every step of the proxy keeps the router's maps typed (session-router.ts).
LEMMA NextRouterType ==
  ASSUME TypeOK, [Next]_vars
  PROVE  RouterTypeOK'
<1> USE TypeParts, ProxyAssumption
<1>1. ASSUME UNCHANGED routerVars PROVE RouterTypeOK'
  BY <1>1, RouterStepType DEF routerVars, RouterTypeOK
<1>2. ASSUME NEW r \in Requests, Arrive(r) PROVE RouterTypeOK'
  <2>1. ASSUME NEW p \in Payloads, NEW s \in SessionIds, NEW n \in 0..MaxArtifacts,
               Receive(r, p, s, n)
        PROVE  RouterTypeOK'
    BY <2>1, ResolveType DEF Receive
  <2> QED
    BY <1>1, <1>2, <2>1 DEF Arrive, ReceiveOpaque, RefuseBody
<1>3. ASSUME NEW r \in Requests, Upstream(r) PROVE RouterTypeOK'
  <2>1. ASSUME NEW rid \in ResponseIds, NEW reported \in BOOLEAN,
               ObserveChunk(r, rid, reported) \/ ObserveAtEnd(r, rid, reported)
        PROVE  RouterTypeOK'
    <3>1. session[r] \in SessionIds \cup {None}
      BY DEF ProxyTypeOK
    <3>2. RegisterResponse(rid, session[r])
      BY <2>1 DEF ObserveChunk, ObserveAtEnd, Completed
    <3> QED
      BY <3>1, <3>2, RegisterType
  <2> QED
    BY <1>1, <1>3, <2>1 DEF Upstream, UpstreamResponds, UpstreamEnds, UpstreamFails
<1>4. ASSUME NEW r \in Requests, Handle(r) \/ ClientCloses(r) PROVE RouterTypeOK'
  BY <1>1, <1>4 DEF Handle, AppendRecord, AppendRecordFails, AppendUsage,
                    AppendUsageFails, EndResponse, ClientCloses
<1>5. ASSUME Close \/ StopAccepting \/ Exit \/ Kill PROVE RouterTypeOK'
  BY <1>1, <1>5 DEF Close, StopAccepting, Exit, Kill
<1>6. ASSUME Restart PROVE RouterTypeOK'
  BY <1>6, RouterStepType DEF Restart
<1>7. ASSUME Tick PROVE RouterTypeOK'
  BY <1>7, RouterStepType DEF Tick, RouterTypeOK
<1>8. ASSUME UNCHANGED vars PROVE RouterTypeOK'
  BY <1>1, <1>8 DEF vars
<1> QED
  BY <1>2, <1>3, <1>4, <1>5, <1>6, <1>7, <1>8 DEF Next

\* Every step keeps the state of the handlers and of the process typed (server.ts).
LEMMA NextProxyType ==
  ASSUME TypeOK, HandlersInv, [Next]_vars
  PROVE  ProxyTypeOK'
<1> USE ProxyAssumption
    DEF ProxyTypeOK, processVars, requestVars, MoveTo, Stages, InHand, Final, Phases
<1>0. ProxyTypeOK
  BY TypeParts
<1>1. ASSUME NEW r \in Requests, Arrive(r) PROVE ProxyTypeOK'
  <2>1. ASSUME NEW p \in Payloads, NEW s \in SessionIds, NEW n \in 0..MaxArtifacts,
               Receive(r, p, s, n)
        PROVE  ProxyTypeOK'
    <3>1. /\ stage' \in [Requests -> Stages]
          /\ payload' \in [Requests -> Payloads \cup {None}]
      BY <1>0, <2>1 DEF Receive
    <3>2. /\ session' \in [Requests -> SessionIds \cup {None}]
          /\ artifacts' \in [Requests -> 0..MaxArtifacts]
      BY <1>0, <2>1 DEF Receive
    <3>3. routedBy' \in [Requests -> 0..MaxRestarts]
      BY <1>0, <2>1 DEF Receive
    <3> QED
      BY <1>0, <2>1, <3>1, <3>2, <3>3 DEF Receive
  <2>2. ASSUME ReceiveOpaque(r) PROVE ProxyTypeOK'
    BY <1>0, <2>2 DEF ReceiveOpaque
  <2>3. ASSUME RefuseBody(r) PROVE ProxyTypeOK'
    BY <1>0, <2>3 DEF RefuseBody
  <2> QED
    BY <1>1, <2>1, <2>2, <2>3 DEF Arrive
<1>2. ASSUME NEW r \in Requests, AppendRecord(r) PROVE ProxyTypeOK'
  <2>1. /\ session[r] \in SessionIds
        /\ written[r] \in Nat /\ artifacts[r] \in 0..MaxArtifacts
        /\ written[r] <= artifacts[r]
    BY <1>0, <1>2 DEF AppendRecord, HandlersInv, HandlerInv, IsProfiled
  <2>2. runs' \in [SessionIds -> Seq(Event)]
    BY <1>0, <1>2, <2>1, RunsType DEF AppendRecord
  <2>3. written' \in [Requests -> 0..(MaxArtifacts + 1)]
    BY <1>0, <1>2, <2>1 DEF AppendRecord
  <2> QED
    BY <1>0, <1>2, <2>2, <2>3 DEF AppendRecord
<1>3. ASSUME NEW r \in Requests, AppendUsage(r) PROVE ProxyTypeOK'
  <2>1. session[r] \in SessionIds /\ UsageIndex(r) \in Nat
    BY <1>0, <1>3 DEF AppendUsage, HandlersInv, HandlerInv, IsProfiled, UsageIndex
  <2>2. runs' \in [SessionIds -> Seq(Event)]
    BY <1>0, <1>3, <2>1, RunsType DEF AppendUsage
  <2> QED
    BY <1>0, <1>3, <2>2 DEF AppendUsage
<1>4. ASSUME NEW r \in Requests, AppendRecordFails(r) \/ EndResponse(r) PROVE ProxyTypeOK'
  <2>1. mishaps' \in Mishaps
    BY <1>0, <1>4, MishapsType DEF AppendRecordFails, EndResponse
  <2> QED
    BY <1>0, <1>4, <2>1 DEF AppendRecordFails, EndResponse
<1>5. ASSUME NEW r \in Requests, AppendUsageFails(r) PROVE ProxyTypeOK'
  <2>1. mishaps' \in Mishaps
    BY <1>0, <1>5, MishapsType DEF AppendUsageFails
  <2>2. CASE /\ usage' = [usage EXCEPT ![r] = "failed"]
             /\ MoveTo(r, "destroyed")
             /\ UNCHANGED <<phase, awaited>>
    BY <1>0, <1>5, <2>1, <2>2 DEF AppendUsageFails
  <2>3. CASE Die("crashed")
    <3>1. /\ usage' \in [Requests -> {"none", "writing", "stored", "failed", "lost"}]
          /\ stage' \in [Requests -> Stages]
      BY <1>0, <2>3 DEF Die
    <3> QED
      BY <1>0, <1>5, <2>1, <2>3, <3>1 DEF AppendUsageFails, Die
  <2> QED
    BY <1>5, <2>2, <2>3 DEF AppendUsageFails
<1>6. ASSUME NEW r \in Requests, Upstream(r) PROVE ProxyTypeOK'
  <2>1. ASSUME NEW rid \in ResponseIds, NEW reported \in BOOLEAN,
               ObserveChunk(r, rid, reported) \/ ObserveAtEnd(r, rid, reported)
        PROVE  ProxyTypeOK'
    <3>1. Completed(r, rid, reported)
      BY <2>1 DEF ObserveChunk, ObserveAtEnd
    <3>2. /\ response' \in [Requests -> ResponseIds \cup {None}]
          /\ known' \in SUBSET ResponseIds
      BY <1>0, <3>1 DEF Completed
    <3>3. usage' \in [Requests -> {"none", "writing", "stored", "failed", "lost"}]
      BY <1>0, <3>1 DEF Completed
    <3> QED
      BY <1>0, <2>1, <3>2, <3>3 DEF ObserveChunk, ObserveAtEnd
  <2>2. ASSUME UpstreamResponds(r) \/ UpstreamEnds(r) PROVE ProxyTypeOK'
    BY <1>0, <2>2 DEF UpstreamResponds, UpstreamEnds
  <2>3. ASSUME UpstreamFails(r) PROVE ProxyTypeOK'
    BY <1>0, <2>3 DEF UpstreamFails
  <2> QED
    BY <1>6, <2>1, <2>2, <2>3 DEF Upstream
<1>7. ASSUME NEW r \in Requests, ClientCloses(r) PROVE ProxyTypeOK'
  <2>1. mishaps' \in Mishaps
    BY <1>0, <1>7, MishapsType DEF ClientCloses
  <2>2. /\ client' \in [Requests -> {"connected", "gone"}]
        /\ stage' \in [Requests -> Stages]
    BY <1>0, <1>7 DEF ClientCloses
  <2> QED
    BY <1>0, <1>7, <2>1, <2>2 DEF ClientCloses
<1>8. ASSUME Close \/ StopAccepting PROVE ProxyTypeOK'
  BY <1>0, <1>8 DEF Close, StopAccepting, PendingObservations
<1>9. ASSUME Exit \/ Kill PROVE ProxyTypeOK'
  <2>1. mishaps' \in Mishaps
    BY <1>0, <1>9, MishapsType DEF Exit, Kill
  <2>2. /\ usage' \in [Requests -> {"none", "writing", "stored", "failed", "lost"}]
        /\ stage' \in [Requests -> Stages]
        /\ phase' \in Phases /\ awaited' \in SUBSET Requests
    BY <1>0, <1>9 DEF Exit, Kill, Die
  <2> QED
    BY <1>0, <1>9, <2>1, <2>2 DEF Exit, Kill
<1>10. ASSUME Restart \/ Tick PROVE ProxyTypeOK'
  BY <1>0, <1>10 DEF Restart, Tick
<1>11. ASSUME UNCHANGED vars PROVE ProxyTypeOK'
  BY <1>0, <1>11 DEF vars
<1> QED
  BY <1>1, <1>2, <1>3, <1>4, <1>5, <1>6, <1>7, <1>8, <1>9, <1>10, <1>11 DEF Next, Handle

\* Every step keeps all variables typed.
LEMMA NextType == TypeOK /\ HandlersInv /\ [Next]_vars => TypeOK'
BY NextRouterType, NextProxyType, TypeParts DEF TypeOK, ProxyTypeOK, Mishaps

-----------------------------------------------------------------------------
(***************************************************************************)
(* The handlers.                                                           *)
(***************************************************************************)

\* Every step keeps each handler at what its stage says.
LEMMA NextHandlers ==
  ASSUME TypeOK, HandlersInv, [Next]_vars
  PROVE  HandlersInv'
<1> SUFFICES ASSUME NEW x \in Requests PROVE HandlerInv(x)'
  BY DEF HandlersInv
<1> USE DEF HandlerInv, IsProfiled, WasForwarded, MoveTo, requestVars, processVars
<1>0. HandlerInv(x) /\ ProxyTypeOK
  BY TypeParts DEF HandlersInv
<1>1. ASSUME NEW r \in Requests, Arrive(r) PROVE HandlerInv(x)'
  <2>0. HandlerInv(r)
    BY DEF HandlersInv
  <2>1. ASSUME NEW p \in Payloads, NEW s \in SessionIds, NEW n \in 0..MaxArtifacts,
               Receive(r, p, s, n)
        PROVE  HandlerInv(x)'
    BY <1>0, <2>0, <2>1, RouterAssumption DEF Receive, ProxyTypeOK
  <2>2. ASSUME ReceiveOpaque(r) \/ RefuseBody(r) PROVE HandlerInv(x)'
    BY <1>0, <2>0, <2>2 DEF ReceiveOpaque, RefuseBody, ProxyTypeOK
  <2> QED
    BY <1>1, <2>1, <2>2 DEF Arrive
<1>2. ASSUME NEW r \in Requests, AppendRecord(r) PROVE HandlerInv(x)'
  BY <1>0, <1>2 DEF AppendRecord, ProxyTypeOK
<1>3. ASSUME NEW r \in Requests, AppendUsage(r) PROVE HandlerInv(x)'
  BY <1>0, <1>3 DEF AppendUsage, ProxyTypeOK
<1>4. ASSUME NEW r \in Requests, AppendRecordFails(r) \/ EndResponse(r) PROVE HandlerInv(x)'
  BY <1>0, <1>4 DEF AppendRecordFails, EndResponse, ProxyTypeOK
<1>5. ASSUME NEW r \in Requests, AppendUsageFails(r) PROVE HandlerInv(x)'
  BY <1>0, <1>5 DEF AppendUsageFails, Die, InHand, ProxyTypeOK
<1>6. ASSUME NEW r \in Requests, Upstream(r) PROVE HandlerInv(x)'
  <2>1. ASSUME NEW rid \in ResponseIds, NEW reported \in BOOLEAN,
               ObserveChunk(r, rid, reported) \/ ObserveAtEnd(r, rid, reported)
        PROVE  HandlerInv(x)'
    BY <1>0, <2>1, RouterAssumption DEF ObserveChunk, ObserveAtEnd, Completed, ProxyTypeOK
  <2>2. ASSUME UpstreamResponds(r) \/ UpstreamEnds(r) \/ UpstreamFails(r)
        PROVE  HandlerInv(x)'
    BY <1>0, <2>2 DEF UpstreamResponds, UpstreamEnds, UpstreamFails, ProxyTypeOK
  <2> QED
    BY <1>6, <2>1, <2>2 DEF Upstream
<1>7. ASSUME NEW r \in Requests, ClientCloses(r) PROVE HandlerInv(x)'
  BY <1>0, <1>7 DEF ClientCloses, InHand, ProxyTypeOK
<1>8. ASSUME Close \/ StopAccepting \/ Restart \/ Tick \/ UNCHANGED vars
      PROVE  HandlerInv(x)'
  BY <1>0, <1>8 DEF Close, StopAccepting, Restart, Tick, vars
<1>9. ASSUME Exit \/ Kill PROVE HandlerInv(x)'
  BY <1>0, <1>9 DEF Exit, Kill, Die, InHand, ProxyTypeOK
<1> QED
  BY <1>1, <1>2, <1>3, <1>4, <1>5, <1>6, <1>7, <1>8, <1>9 DEF Next, Handle

-----------------------------------------------------------------------------
(***************************************************************************)
(* The runs.                                                               *)
(***************************************************************************)

\* What appending an event to a run changes, and what it leaves alone.
LEMMA AppendedRun ==
  ASSUME runs \in [SessionIds -> Seq(Event)], NEW s \in SessionIds,
         NEW r \in Requests, NEW i \in Nat,
         runs' = [runs EXCEPT ![s] = Append(@, EventOf(r, i))]
  PROVE  \E last \in Nat :
           /\ DOMAIN runs'[s] = DOMAIN runs[s] \cup {last}
           /\ runs'[s][last] = EventOf(r, i)
           /\ \A k \in DOMAIN runs[s] : k < last /\ runs'[s][k] = runs[s][k]
           /\ \A t \in SessionIds : t # s => runs'[t] = runs[t]
<1>1. runs[s] \in Seq(Event) /\ EventOf(r, i) \in Event
  BY DEF EventOf, Event
<1>2. runs'[s] = Append(runs[s], EventOf(r, i))
  OBVIOUS
<1>3. DOMAIN runs[s] = 1..Len(runs[s]) /\ Len(runs[s]) \in Nat
  BY <1>1
<1>4. /\ DOMAIN runs'[s] = DOMAIN runs[s] \cup {Len(runs[s]) + 1}
      /\ runs'[s][Len(runs[s]) + 1] = EventOf(r, i)
      /\ \A k \in DOMAIN runs[s] : runs'[s][k] = runs[s][k]
  BY <1>1, <1>2, <1>3, AppendProperties
<1> QED
  BY <1>3, <1>4

\* An event is a request and an index.
LEMMA EventFields ==
  ASSUME NEW r, NEW i
  PROVE  EventOf(r, i).request = r /\ EventOf(r, i).index = i
BY DEF EventOf

\* The events of a run are typed.
LEMMA RunEvent ==
  ASSUME runs \in [SessionIds -> Seq(Event)], NEW s \in SessionIds, NEW k \in DOMAIN runs[s]
  PROVE  /\ runs[s][k] \in Event /\ k \in Nat
         /\ runs[s][k].request \in Requests /\ runs[s][k].index \in Nat
         /\ EventOf(runs[s][k].request, runs[s][k].index) = runs[s][k]
<1>1. runs[s] \in Seq(Event)
  OBVIOUS
<1>2. runs[s][k] \in Event /\ k \in Nat
  BY <1>1
<1> QED
  BY <1>2 DEF Event, EventOf

\* A step that appends nothing, moves no request to another run and settles no
\* usage keeps the runs right.
LEMMA RunsStable ==
  ASSUME LogInv, RunsInOrder, UNCHANGED <<runs, session, artifacts, written>>,
         \A r \in Requests : usage'[r] = "stored" <=> usage[r] = "stored",
         TypeOK
  PROVE  LogInv' /\ RunsInOrder'
<1>1. \A s \in SessionIds : \A k \in DOMAIN runs[s] : runs[s][k].request \in Requests
  BY RunEvent DEF TypeOK
<1>2. \A r \in Requests : \A i \in Nat : IsSettled(r, i)' <=> IsSettled(r, i)
  BY DEF IsSettled, UsageIndex
<1>3. \A s \in SessionIds : \A k \in DOMAIN runs[s] : runs[s][k].index \in Nat
  BY RunEvent DEF TypeOK
<1>4. LogInv'
  BY <1>1, <1>2, <1>3, ProxyAssumption DEF LogInv, IsProfiled, Holds
<1>5. RunsInOrder'
  BY DEF RunsInOrder
<1> QED
  BY <1>4, <1>5

\* A request that was not routed yet has no event in any run.
LEMMA UnsentHasNoEvent ==
  ASSUME TypeOK, HandlersInv, LogInv, NEW r \in Requests, stage[r] = "unsent"
  PROVE  \A s \in SessionIds : \A k \in DOMAIN runs[s] : runs[s][k].request # r
<1>1. written[r] = 0 /\ usage[r] = "none"
  BY DEF HandlersInv, HandlerInv, IsProfiled
<1>2. \A i \in Nat : ~IsSettled(r, i)
  BY <1>1 DEF IsSettled
<1> SUFFICES ASSUME NEW s \in SessionIds, NEW k \in DOMAIN runs[s], runs[s][k].request = r
             PROVE  FALSE
  OBVIOUS
<1>3. runs[s][k].index \in Nat
  BY RunEvent DEF TypeOK
<1>4. IsSettled(r, runs[s][k].index)
  BY DEF LogInv
<1> QED
  BY <1>2, <1>3, <1>4

\* A request that is routed to a run adds no event yet, so the runs stay right: its
\* own events come only after (the resolve call before recordPayloadArtifacts).
LEMMA ReceiveRuns ==
  ASSUME TypeOK, HandlersInv, LogInv, RunsInOrder,
         NEW r \in Requests, NEW p \in Payloads, NEW s \in SessionIds,
         NEW n \in 0..MaxArtifacts, Receive(r, p, s, n)
  PROVE  LogInv' /\ RunsInOrder'
<1>1. /\ stage[r] = "unsent"
      /\ session' = [session EXCEPT ![r] = s]
      /\ artifacts' = [artifacts EXCEPT ![r] = n]
      /\ UNCHANGED <<runs, written, usage>>
  BY DEF Receive
<1>2. written[r] = 0 /\ usage[r] = "none"
  BY <1>1 DEF HandlersInv, HandlerInv, IsProfiled
<1>3. \A q \in Requests : q # r => session'[q] = session[q] /\ artifacts'[q] = artifacts[q]
  BY <1>1 DEF TypeOK
<1>4. \A t \in SessionIds : \A k \in DOMAIN runs[t] :
         /\ runs[t][k].request \in Requests \ {r} /\ runs[t][k].index \in Nat
  BY <1>1, UnsentHasNoEvent, RunEvent DEF TypeOK
<1>5. \A q \in Requests \ {r}, i \in Nat : IsSettled(q, i)' <=> IsSettled(q, i)
  BY <1>1, <1>3 DEF IsSettled, UsageIndex
<1>6. \A i \in Nat : ~IsSettled(r, i)'
  BY <1>1, <1>2 DEF IsSettled
<1>7. LogInv'
  BY <1>1, <1>3, <1>4, <1>5, <1>6, ProxyAssumption DEF LogInv, IsProfiled, Holds
<1>8. RunsInOrder'
  BY <1>1, <1>3, <1>4 DEF RunsInOrder
<1> QED
  BY <1>7, <1>8

\* An append of the next event of a request keeps the runs right: it settles that
\* event and no other, and all the events of the request before it are smaller.
LEMMA AppendRuns ==
  ASSUME TypeOK, LogInv, RunsInOrder,
         NEW r \in Requests, NEW i \in Nat, session[r] \in SessionIds,
         runs' = [runs EXCEPT ![session[r]] = Append(@, EventOf(r, i))],
         UNCHANGED <<session, artifacts>>,
         \A j \in Nat : IsSettled(r, j) => j < i,
         \A j \in Nat : IsSettled(r, j)' <=> IsSettled(r, j) \/ j = i,
         \A q \in Requests \ {r}, j \in Nat : IsSettled(q, j)' <=> IsSettled(q, j)
  PROVE  LogInv' /\ RunsInOrder'
<1>0. runs \in [SessionIds -> Seq(Event)]
  BY DEF TypeOK
<1> DEFINE s == session[r]
<1>1. PICK last \in Nat :
           /\ DOMAIN runs'[s] = DOMAIN runs[s] \cup {last}
           /\ runs'[s][last] = EventOf(r, i)
           /\ \A k \in DOMAIN runs[s] : k < last /\ runs'[s][k] = runs[s][k]
           /\ \A t \in SessionIds : t # s => runs'[t] = runs[t]
  BY <1>0, AppendedRun
<1>2. \A t \in SessionIds : \A k \in DOMAIN runs[t] :
         /\ runs[t][k].request \in Requests /\ runs[t][k].index \in Nat /\ k \in Nat
  BY <1>0, RunEvent
<1>3. runs'[s][last].request = r /\ runs'[s][last].index = i
  BY <1>1, EventFields
<1>4. \A t \in SessionIds : \A k \in DOMAIN runs'[t] :
         \/ k \in DOMAIN runs[t] /\ runs'[t][k] = runs[t][k]
         \/ t = s /\ k = last
  BY <1>1
<1>5. \A t \in SessionIds : \A k \in DOMAIN runs[t] :
         k \in DOMAIN runs'[t] /\ runs'[t][k] = runs[t][k]
  BY <1>1
<1>6. \A k \in DOMAIN runs[s] : runs[s][k].request = r => runs[s][k].index < i
  BY <1>2 DEF LogInv
<1>7. (\A t \in SessionIds : \A k \in DOMAIN runs[t] :
          IsSettled(runs[t][k].request, runs[t][k].index))'
  <2> SUFFICES ASSUME NEW t \in SessionIds, NEW k \in DOMAIN runs'[t]
               PROVE  IsSettled(runs[t][k].request, runs[t][k].index)'
    OBVIOUS
  <2>1. CASE t = s /\ k = last
    <3>1. IsSettled(r, i)'
      OBVIOUS
    <3> QED
      BY <1>3, <2>1, <3>1 DEF IsSettled, UsageIndex
  <2>2. CASE k \in DOMAIN runs[t] /\ runs'[t][k] = runs[t][k]
    <3>1. PICK q \in Requests, j \in Nat :
            q = runs[t][k].request /\ j = runs[t][k].index
      BY <1>2, <2>2
    <3>2. IsSettled(q, j)
      BY <2>2, <3>1 DEF LogInv
    <3>3. IsSettled(q, j)'
      BY <3>2
    <3> QED
      BY <2>2, <3>1, <3>3 DEF IsSettled, UsageIndex
  <2> QED
    BY <1>4, <2>1, <2>2
<1>8. \A t \in SessionIds, q \in Requests, j \in Nat : Holds(t, q, j) => Holds(t, q, j)'
  BY <1>5 DEF Holds, EventOf
<1>9. Holds(s, r, i)'
  BY <1>1 DEF Holds, EventOf
<1>10. \A q \in Requests : \A j \in 0..(MaxArtifacts + 1) :
         session'[q] # None /\ IsSettled(q, j)' => Holds(session[q], q, j)'
  <2> SUFFICES ASSUME NEW q \in Requests, NEW j \in 0..(MaxArtifacts + 1),
                      session'[q] # None, IsSettled(q, j)'
               PROVE  Holds(session[q], q, j)'
    OBVIOUS
  <2>1. j \in Nat /\ session[q] \in SessionIds
    BY ProxyAssumption DEF TypeOK
  <2>2. CASE q = r /\ j = i
    BY <1>9, <2>2
  <2>3. CASE IsSettled(q, j)
    BY <1>8, <2>1, <2>3 DEF LogInv, IsProfiled
  <2> QED
    BY <2>1, <2>2, <2>3
<1>11. LogInv'
  BY <1>7, <1>10 DEF LogInv, IsProfiled, Holds
<1>12. ASSUME NEW t \in SessionIds, NEW k \in DOMAIN runs'[t]
       PROVE  /\ session'[runs'[t][k].request] = t
              /\ \A j \in 1..(k - 1) :
                   runs'[t][j].request = runs'[t][k].request
                     => runs'[t][j].index < runs'[t][k].index
  <2>1. CASE k \in DOMAIN runs[t] /\ runs'[t][k] = runs[t][k]
    <3>1. session[runs[t][k].request] = t
      BY <2>1 DEF RunsInOrder
    <3>2. \A j \in 1..(k - 1) : runs'[t][j] = runs[t][j]
      <4>1. DOMAIN runs[t] = 1..Len(runs[t])
        BY <1>0
      <4>2. Len(runs[t]) \in Nat
        BY <1>0
      <4> QED
        BY <1>5, <2>1, <4>1, <4>2
    <3> QED
      BY <2>1, <3>1, <3>2 DEF RunsInOrder
  <2>2. CASE t = s /\ k = last
    <3>1. \A j \in 1..(k - 1) : j \in DOMAIN runs[s]
      <4>1. DOMAIN runs[s] = 1..Len(runs[s]) /\ Len(runs[s]) \in Nat
        BY <1>0
      <4>2. DOMAIN runs'[s] = 1..Len(runs'[s]) /\ Len(runs'[s]) \in Nat
        <5>1. runs' \in [SessionIds -> Seq(Event)]
          BY <1>0, RunsType
        <5> QED
          BY <5>1
      <4> QED
        BY <1>1, <2>2, <4>1, <4>2
    <3> QED
      BY <1>1, <1>3, <1>5, <1>6, <2>2, <3>1
  <2> QED
    BY <1>4, <2>1, <2>2
<1>13. RunsInOrder'
  BY <1>12 DEF RunsInOrder
<1> QED
  BY <1>11, <1>13

\* Every step keeps the runs complete and in order (recording.ts).
LEMMA NextRuns ==
  ASSUME TypeOK, HandlersInv, LogInv, RunsInOrder, [Next]_vars
  PROVE  LogInv' /\ RunsInOrder'
<1> USE DEF requestVars, processVars
<1>1. ASSUME NEW r \in Requests, Arrive(r) PROVE LogInv' /\ RunsInOrder'
  <2>1. ASSUME ReceiveOpaque(r) \/ RefuseBody(r) PROVE LogInv' /\ RunsInOrder'
    BY <2>1, RunsStable DEF ReceiveOpaque, RefuseBody
  <2> QED
    BY <1>1, <2>1, ReceiveRuns DEF Arrive
<1>2. ASSUME NEW r \in Requests, AppendRecord(r) PROVE LogInv' /\ RunsInOrder'
  <2>1. /\ session[r] \in SessionIds /\ written[r] \in Nat
        /\ written[r] <= artifacts[r] /\ artifacts[r] \in Nat /\ usage[r] = "none"
    BY <1>2, ProxyAssumption DEF AppendRecord, HandlersInv, HandlerInv, IsProfiled, TypeOK
  <2>2. /\ runs' = [runs EXCEPT ![session[r]] = Append(@, EventOf(r, written[r]))]
        /\ written' = [written EXCEPT ![r] = @ + 1]
        /\ UNCHANGED <<session, artifacts, usage>>
    BY <1>2 DEF AppendRecord
  <2>3. written'[r] = written[r] + 1 /\ \A q \in Requests \ {r} : written'[q] = written[q]
    BY <2>2 DEF TypeOK
  <2>4. \A j \in Nat : IsSettled(r, j) => j < written[r]
    BY <2>1 DEF IsSettled
  <2>5. \A j \in Nat : IsSettled(r, j)' <=> IsSettled(r, j) \/ j = written[r]
    <3>1. usage'[r] # "stored" /\ usage[r] # "stored"
      BY <2>1, <2>2
    <3> QED
      BY <2>1, <2>3, <3>1 DEF IsSettled
  <2>6. \A q \in Requests \ {r}, j \in Nat : IsSettled(q, j)' <=> IsSettled(q, j)
    BY <2>2, <2>3 DEF IsSettled, UsageIndex
  <2> QED
    BY <2>1, <2>2, <2>4, <2>5, <2>6, AppendRuns
<1>3. ASSUME NEW r \in Requests, AppendUsage(r) PROVE LogInv' /\ RunsInOrder'
  <2>1. /\ session[r] \in SessionIds /\ artifacts[r] \in Nat
        /\ written[r] = UsageIndex(r) /\ UsageIndex(r) \in Nat /\ usage[r] = "writing"
    BY <1>3, ProxyAssumption
    DEF AppendUsage, HandlersInv, HandlerInv, IsProfiled, UsageIndex, TypeOK
  <2>2. /\ runs' = [runs EXCEPT ![session[r]] = Append(@, EventOf(r, UsageIndex(r)))]
        /\ usage' = [usage EXCEPT ![r] = "stored"]
        /\ UNCHANGED <<session, artifacts, written>>
    BY <1>3 DEF AppendUsage
  <2>3. usage'[r] = "stored" /\ \A q \in Requests \ {r} : usage'[q] = usage[q]
    BY <2>2 DEF TypeOK
  <2>4. \A j \in Nat : IsSettled(r, j) => j < UsageIndex(r)
    BY <2>1 DEF IsSettled
  <2>5. \A j \in Nat : IsSettled(r, j)' <=> IsSettled(r, j) \/ j = UsageIndex(r)
    BY <2>1, <2>2, <2>3 DEF IsSettled, UsageIndex
  <2>6. \A q \in Requests \ {r}, j \in Nat : IsSettled(q, j)' <=> IsSettled(q, j)
    BY <2>2, <2>3 DEF IsSettled, UsageIndex
  <2> QED
    BY <2>1, <2>2, <2>4, <2>5, <2>6, AppendRuns
<1>4. ASSUME NEW r \in Requests,
             AppendRecordFails(r) \/ EndResponse(r) \/ ClientCloses(r)
      PROVE  LogInv' /\ RunsInOrder'
  BY <1>4, RunsStable DEF AppendRecordFails, EndResponse, ClientCloses
<1>5. ASSUME NEW r \in Requests, AppendUsageFails(r) PROVE LogInv' /\ RunsInOrder'
  <2>1. \A q \in Requests : usage'[q] = "stored" <=> usage[q] = "stored"
    BY <1>5 DEF AppendUsageFails, Die, TypeOK
  <2> QED
    BY <1>5, <2>1, RunsStable DEF AppendUsageFails
<1>6. ASSUME NEW r \in Requests, Upstream(r) PROVE LogInv' /\ RunsInOrder'
  <2>1. ASSUME NEW rid \in ResponseIds, NEW reported \in BOOLEAN,
               ObserveChunk(r, rid, reported) \/ ObserveAtEnd(r, rid, reported)
        PROVE  LogInv' /\ RunsInOrder'
    <3>1. Completed(r, rid, reported)
      BY <2>1 DEF ObserveChunk, ObserveAtEnd
    <3>2. usage[r] = "none"
      BY <3>1 DEF Completed, HandlersInv, HandlerInv
    <3>3. \A q \in Requests : usage'[q] = "stored" <=> usage[q] = "stored"
      BY <3>1, <3>2 DEF Completed, TypeOK
    <3> QED
      BY <2>1, <3>3, RunsStable DEF ObserveChunk, ObserveAtEnd
  <2> QED
    BY <1>6, <2>1, RunsStable DEF Upstream, UpstreamResponds, UpstreamEnds, UpstreamFails
<1>7. ASSUME Exit \/ Kill PROVE LogInv' /\ RunsInOrder'
  <2>1. \A q \in Requests : usage'[q] = "stored" <=> usage[q] = "stored"
    BY <1>7 DEF Exit, Kill, Die, TypeOK
  <2> QED
    BY <1>7, <2>1, RunsStable DEF Exit, Kill
<1>8. ASSUME Close \/ StopAccepting \/ Restart \/ Tick \/ UNCHANGED vars
      PROVE  LogInv' /\ RunsInOrder'
  BY <1>8, RunsStable DEF Close, StopAccepting, Restart, Tick, vars
<1> QED
  BY <1>1, <1>2, <1>3, <1>4, <1>5, <1>6, <1>7, <1>8 DEF Next, Handle

-----------------------------------------------------------------------------
(***************************************************************************)
(* The routes.                                                             *)
(***************************************************************************)

\* A step that routes and registers nothing keeps the routes right.
LEMMA RoutesStable ==
  ASSUME RoutesInv, ContinuationStaysInRun,
         UNCHANGED <<routedBy, epoch, session, response, responseSessions, payload, known>>
  PROVE  RoutesInv' /\ ContinuationStaysInRun'
BY DEF RoutesInv, ContinuationStaysInRun, IsProfiled, IsStated, Stated

\* Routing a request keeps what the router remembers right, and a continuation goes
\* to the run of the request it continues (resolve).
LEMMA ReceiveRoutes ==
  ASSUME TypeOK, HandlersInv, RoutesInv, ContinuationStaysInRun,
         NEW r \in Requests, NEW p \in Payloads, NEW s \in SessionIds,
         NEW n \in 0..MaxArtifacts, Receive(r, p, s, n)
  PROVE  RoutesInv' /\ ContinuationStaysInRun'
<1>1. /\ Resolve(p, s) /\ p.previous \in known \cup {None}
      /\ payload' = [payload EXCEPT ![r] = p]
      /\ session' = [session EXCEPT ![r] = s]
      /\ routedBy' = [routedBy EXCEPT ![r] = epoch]
      /\ UNCHANGED <<epoch, response, responseSessions, known>>
  BY DEF Receive, Resolve, processVars
<1>2. response[r] = None /\ epoch \in Nat
  BY ProxyAssumption DEF Receive, HandlersInv, HandlerInv, TypeOK
<1>3. /\ payload'[r] = p /\ session'[r] = s /\ routedBy'[r] = epoch
      /\ \A q \in Requests \ {r} : /\ payload'[q] = payload[q] /\ session'[q] = session[q]
                                  /\ routedBy'[q] = routedBy[q]
  BY <1>1 DEF TypeOK
<1>4. RoutesInv'
  BY <1>1, <1>2, <1>3 DEF RoutesInv, IsProfiled
<1>5. ASSUME NEW q \in Requests, q # r, IsProfiled(q), response[q] # None,
             routedBy[q] = epoch, ~IsStated(p), p.previous = response[q]
      PROVE  s = session[q]
  <2>1. p.previous \in DOMAIN responseSessions /\ responseSessions[p.previous] = session[q]
    BY <1>5 DEF RoutesInv
  <2>2. ResolveContinuation(p, s)
    BY <1>1, <1>5, <2>1
    DEF Resolve, ResolveStated, ResolveFingerprint, ResolveNew, IsContinuation
  <2> QED
    BY <2>1, <2>2 DEF ResolveContinuation
<1>6. ContinuationStaysInRun'
  <2> SUFFICES ASSUME NEW x \in Requests, NEW q \in Requests,
                      payload'[x] # None, session'[q] # None, response[q] # None,
                      routedBy'[x] = routedBy'[q],
                      ~IsStated(payload'[x]), payload'[x].previous = response[q]
               PROVE  session'[x] = session'[q]
    BY <1>1 DEF ContinuationStaysInRun, IsProfiled, IsStated, Stated
  <2>1. q # r
    BY <1>2
  <2>2. CASE x = r
    BY <1>3, <1>5, <2>1, <2>2 DEF IsProfiled
  <2>3. CASE x # r
    BY <1>3, <2>1, <2>3 DEF ContinuationStaysInRun, IsProfiled
  <2> QED
    BY <2>2, <2>3
<1> QED
  BY <1>4, <1>6

\* Registering the response of a request keeps what the router remembers right: the
\* response id is new, so no other request has been routed by it (registerResponse).
LEMMA CompletedRoutes ==
  ASSUME TypeOK, RoutesInv, ContinuationStaysInRun,
         NEW r \in Requests, NEW rid \in ResponseIds, NEW reported \in BOOLEAN,
         Completed(r, rid, reported), UNCHANGED <<routedBy, epoch, session, payload>>
  PROVE  RoutesInv' /\ ContinuationStaysInRun'
<1>1. /\ response[r] = None
      /\ \A q \in Requests : response[q] # rid
      /\ response' = [response EXCEPT ![r] = rid]
      /\ known' \subseteq known \cup {rid}
      /\ rid # None
  BY RouterAssumption DEF Completed
<1>2. response'[r] = rid /\ \A q \in Requests \ {r} : response'[q] = response[q]
  BY <1>1 DEF TypeOK
<1>3. PICK v \in SessionIds : /\ responseSessions' = Put(responseSessions, rid, v)
                              /\ session[r] # None => v = session[r]
  BY DEF Completed, RegisterResponse, SessionIds, TypeOK
<1>4. /\ DOMAIN responseSessions' = DOMAIN responseSessions \cup {rid}
      /\ responseSessions'[rid] = v
      /\ \A j \in DOMAIN responseSessions : j # rid => responseSessions'[j] = responseSessions[j]
  BY <1>3 DEF Put
<1>5. \A q \in Requests :
         IsProfiled(q) /\ response'[q] # None /\ routedBy[q] = epoch
           => /\ response'[q] \in DOMAIN responseSessions'
              /\ responseSessions'[response'[q]] = session[q]
  BY <1>1, <1>2, <1>3, <1>4 DEF RoutesInv, IsProfiled
<1>6. \A q, x \in Requests : response'[q] # None /\ response'[q] = response'[x] => q = x
  BY <1>1, <1>2 DEF RoutesInv
<1>7. \A k \in known' : \E q \in Requests : response'[q] = k
  <2> SUFFICES ASSUME NEW k \in known', k # rid
               PROVE  \E q \in Requests : response'[q] = k
    BY <1>2
  <2>1. PICK q \in Requests : response[q] = k
    BY <1>1 DEF RoutesInv
  <2>2. k # None
    BY <1>1, RouterAssumption DEF TypeOK
  <2> QED
    BY <1>1, <1>2, <2>1, <2>2
<1>8. \A x \in Requests :
         payload[x] # None =>
           \/ payload[x].previous = None
           \/ \E q \in Requests : response'[q] = payload[x].previous
  <2> SUFFICES ASSUME NEW x \in Requests, payload[x] # None, payload[x].previous # None
               PROVE  \E q \in Requests : response'[q] = payload[x].previous
    OBVIOUS
  <2>1. PICK q \in Requests : response[q] = payload[x].previous
    BY DEF RoutesInv
  <2> QED
    BY <1>1, <1>2, <2>1
<1>9. RoutesInv'
  BY <1>5, <1>6, <1>7, <1>8 DEF RoutesInv, IsProfiled
<1>10. ContinuationStaysInRun'
  <2> SUFFICES ASSUME NEW x \in Requests, NEW q \in Requests,
                      payload[x] # None, session[q] # None, response'[q] # None,
                      routedBy[x] = routedBy[q],
                      ~IsStated(payload[x]), payload[x].previous = response'[q]
               PROVE  session[x] = session[q]
    BY DEF ContinuationStaysInRun, IsProfiled, IsStated, Stated
  <2>1. q # r
    <3>1. \E y \in Requests : response[y] = payload[x].previous
      BY DEF RoutesInv
    <3> QED
      BY <1>1, <1>2, <3>1
  <2> QED
    BY <1>2, <2>1 DEF ContinuationStaysInRun, IsProfiled
<1> QED
  BY <1>9, <1>10

\* Every step keeps the routes right.
LEMMA NextRoutes ==
  ASSUME TypeOK, HandlersInv, RoutesInv, ContinuationStaysInRun, [Next]_vars
  PROVE  RoutesInv' /\ ContinuationStaysInRun'
<1> USE DEF requestVars, processVars, routerVars
<1>1. ASSUME NEW r \in Requests, Arrive(r) PROVE RoutesInv' /\ ContinuationStaysInRun'
  <2>1. ASSUME ReceiveOpaque(r) PROVE RoutesInv' /\ ContinuationStaysInRun'
    <3>1. /\ session[r] = None /\ payload[r] = None /\ epoch \in Nat
          /\ routedBy' = [routedBy EXCEPT ![r] = epoch]
          /\ UNCHANGED <<epoch, session, response, responseSessions, payload, known>>
      BY <2>1, ProxyAssumption DEF ReceiveOpaque, HandlersInv, HandlerInv, TypeOK
    <3>2. routedBy'[r] = epoch /\ \A q \in Requests \ {r} : routedBy'[q] = routedBy[q]
      BY <3>1 DEF TypeOK
    <3>3. RoutesInv'
      BY <3>1, <3>2 DEF RoutesInv, IsProfiled
    <3>4. ContinuationStaysInRun'
      BY <3>1, <3>2 DEF ContinuationStaysInRun, IsProfiled, IsStated, Stated
    <3> QED
      BY <3>3, <3>4
  <2>2. ASSUME RefuseBody(r) PROVE RoutesInv' /\ ContinuationStaysInRun'
    BY <2>2, RoutesStable DEF RefuseBody
  <2> QED
    BY <1>1, <2>1, <2>2, ReceiveRoutes DEF Arrive
<1>2. ASSUME NEW r \in Requests, Handle(r) \/ ClientCloses(r)
      PROVE  RoutesInv' /\ ContinuationStaysInRun'
  BY <1>2, RoutesStable
  DEF Handle, AppendRecord, AppendRecordFails, AppendUsage, AppendUsageFails, EndResponse,
      ClientCloses
<1>3. ASSUME NEW r \in Requests, Upstream(r) PROVE RoutesInv' /\ ContinuationStaysInRun'
  <2>1. ASSUME NEW rid \in ResponseIds, NEW reported \in BOOLEAN,
               ObserveChunk(r, rid, reported) \/ ObserveAtEnd(r, rid, reported)
        PROVE  RoutesInv' /\ ContinuationStaysInRun'
    BY <2>1, CompletedRoutes DEF ObserveChunk, ObserveAtEnd
  <2> QED
    BY <1>3, <2>1, RoutesStable DEF Upstream, UpstreamResponds, UpstreamEnds, UpstreamFails
<1>4. ASSUME Close \/ StopAccepting \/ Exit \/ Kill \/ Tick \/ UNCHANGED vars
      PROVE  RoutesInv' /\ ContinuationStaysInRun'
  BY <1>4, RoutesStable DEF Close, StopAccepting, Exit, Kill, Tick, vars
<1>5. ASSUME Restart PROVE RoutesInv' /\ ContinuationStaysInRun'
  <2>1. /\ epoch' = epoch + 1 /\ epoch \in Nat
        /\ UNCHANGED <<routedBy, session, response, payload, known>>
        /\ \A q \in Requests : routedBy[q] \in Nat
    BY <1>5, ProxyAssumption DEF Restart, TypeOK
  <2>2. RoutesInv'
    BY <2>1 DEF RoutesInv, IsProfiled
  <2>3. ContinuationStaysInRun'
    BY <2>1 DEF ContinuationStaysInRun, IsProfiled, IsStated, Stated
  <2> QED
    BY <2>2, <2>3
<1> QED
  BY <1>1, <1>2, <1>3, <1>4, <1>5 DEF Next

-----------------------------------------------------------------------------
(***************************************************************************)
(* The theorems.                                                           *)
(***************************************************************************)

\* The invariant holds when the proxy starts.
LEMMA InitInv == Init => IInv
<1> SUFFICES ASSUME Init PROVE IInv
  OBVIOUS
<1> USE DEF Init
<1>1. TypeOK
  BY InitType
<1>2. HandlersInv
  BY DEF HandlersInv, HandlerInv, WasForwarded
<1>3. LogInv /\ RunsInOrder
  <2>1. \A s \in SessionIds : DOMAIN runs[s] = {}
    OBVIOUS
  <2> QED
    BY <2>1 DEF LogInv, RunsInOrder, IsProfiled
<1>4. RoutesInv /\ ContinuationStaysInRun
  BY ProxyAssumption DEF RoutesInv, ContinuationStaysInRun, IsProfiled
<1> QED
  BY <1>1, <1>2, <1>3, <1>4 DEF IInv

\* The inductive invariant is preserved by every step of the proxy.
LEMMA NextInv == IInv /\ [Next]_vars => IInv'
BY NextType, NextHandlers, NextRuns, NextRoutes DEF IInv

\* In every behaviour of the proxy the inductive invariant holds: handlers have done
\* what their stages say, the runs hold exactly the settled appends, and the router
\* remembers the responses of its own requests (server.ts, recording.ts,
\* session-router.ts together).
THEOREM Invariance == Spec => []IInv
BY InitInv, NextInv, PTL DEF Spec

\* The variables keep their types, the bounds included.
THEOREM TypeCorrect == Spec => []TypeOK
<1>1. IInv => TypeOK
  BY DEF IInv
<1> QED
  BY Invariance, <1>1, PTL

\* However the appends of concurrent handlers interleave, a run holds the events of
\* each of its requests once and in order, and none of a request routed elsewhere
\* (recordPayloadArtifacts, recordUsageEvent).
THEOREM RunsStayInOrder == Spec => []RunsInOrder
<1>1. IInv => RunsInOrder
  BY DEF IInv
<1> QED
  BY Invariance, <1>1, PTL

\* No profiled request reaches the upstream before all its recording events are in its
\* run (the awaits before forwardRequest in server.ts).
THEOREM RecordedBeforeForwarded == Spec => []ForwardedIsRecorded
<1>1. IInv => ForwardedIsRecorded
  <2> SUFFICES ASSUME IInv, NEW r \in Requests, IsProfiled(r), WasForwarded(r),
                      NEW i \in 0..artifacts[r]
               PROVE  Holds(session[r], r, i)
    BY DEF ForwardedIsRecorded
  <2>1. artifacts[r] \in 0..MaxArtifacts /\ written[r] = artifacts[r] + 1
    BY DEF IInv, HandlersInv, HandlerInv, TypeOK
  <2>2. i \in 0..(MaxArtifacts + 1) /\ i < written[r]
    BY <2>1, ProxyAssumption
  <2>3. IsSettled(r, i)
    BY <2>2 DEF IsSettled
  <2> QED
    BY <2>2, <2>3 DEF IInv, LogInv
<1> QED
  BY Invariance, <1>1, PTL

\* A client that sees its response end can rely on the reported usage being in the
\* run of its request (the finish() that response.end waits for in transport.ts).
THEOREM UsageBeforeAnswer == Spec => []AnsweredKeepsUsage
<1>1. IInv => AnsweredKeepsUsage
  <2> SUFFICES ASSUME IInv, NEW r \in Requests, stage[r] = "answered"
               PROVE  /\ usage[r] \in {"none", "stored"}
                      /\ usage[r] = "stored" => Holds(session[r], r, UsageIndex(r))
    BY DEF AnsweredKeepsUsage
  <2>1. HandlerInv(r)
    BY DEF IInv, HandlersInv
  <2>2. UsageIndex(r) \in 0..(MaxArtifacts + 1)
    BY ProxyAssumption DEF IInv, TypeOK, UsageIndex
  <2> QED
    BY <2>1, <2>2 DEF HandlerInv, IInv, LogInv, IsSettled
<1> QED
  BY Invariance, <1>1, PTL

\* A request without an id of its own that continues a response of this process joins
\* the run of the request that response answered, in every interleaving and across
\* restarts (onCompleted registers before it awaits; resolve looks up in this order).
THEOREM ContinuationsStay == Spec => []ContinuationStaysInRun
<1>1. IInv => ContinuationStaysInRun
  BY DEF IInv
<1> QED
  BY Invariance, <1>1, PTL

-----------------------------------------------------------------------------
(***************************************************************************)
(* The live proxy implements Capture, and an orderly exit takes no awaited *)
(* observation with it.  Beside IInv this needs how far a recording can    *)
(* get, and which stages a pending observation can be found in.            *)
(***************************************************************************)

\* A handler appends no more than the recording of its request.
RecordingEnds == \A r \in Requests : written[r] <= artifacts[r] + 1

\* An observation is pending only while its response is under way, or after the
\* upstream broke off or the client left.
PendingStages ==
  \A r \in Requests :
    usage[r] = "writing" =>
      \/ stage[r] \in {"streaming", "finishing", "failed"}
      \/ stage[r] = "abandoned" /\ client[r] = "gone"

\* What close() waits for had begun when it was called, and has settled when the
\* proxy stops accepting connections.
AwaitedSettle ==
  /\ \A r \in awaited : usage[r] # "none"
  /\ phase = "closing" => \A r \in awaited : usage[r] # "writing"

ExitInv == RecordingEnds /\ PendingStages /\ AwaitedSettle

\* A proxy that starts has recorded nothing and awaits nothing.
LEMMA InitExit == Init => ExitInv
BY ProxyAssumption DEF Init, ExitInv, RecordingEnds, PendingStages, AwaitedSettle

\* When a process ends, nothing is pending or awaited any more.
LEMMA DieExit ==
  ASSUME TypeOK, ExitInv, NEW how \in {"exited", "crashed"}, Die(how),
         UNCHANGED <<written, artifacts, client>>
  PROVE  ExitInv'
<1>1. RecordingEnds'
  BY DEF ExitInv, RecordingEnds
<1>2. \A r \in Requests : usage'[r] # "writing"
  BY DEF Die
<1>3. awaited' = {}
  BY DEF Die
<1> QED
  BY <1>1, <1>2, <1>3 DEF ExitInv, PendingStages, AwaitedSettle

\* Every step of the proxy keeps it so.
LEMMA NextExit == IInv /\ ExitInv /\ [Next]_vars => ExitInv'
<1> SUFFICES ASSUME IInv, ExitInv, [Next]_vars PROVE ExitInv'
  OBVIOUS
<1> USE ProxyAssumption DEF requestVars, processVars, MoveTo
<1>1. /\ TypeOK /\ RecordingEnds /\ PendingStages /\ AwaitedSettle
      /\ \A r \in Requests : HandlerInv(r)
  BY DEF IInv, ExitInv, HandlersInv
<1>2. /\ stage \in [Requests -> Stages] /\ client \in [Requests -> {"connected", "gone"}]
      /\ artifacts \in [Requests -> 0..MaxArtifacts]
      /\ written \in [Requests -> 0..(MaxArtifacts + 1)]
      /\ usage \in [Requests -> {"none", "writing", "stored", "failed", "lost"}]
      /\ awaited \in SUBSET Requests /\ phase \in Phases
  BY <1>1 DEF TypeOK
<1>3. ASSUME NEW r \in Requests, Arrive(r) PROVE ExitInv'
  <2>1. stage[r] = "unsent" /\ written[r] = 0 /\ usage[r] = "none"
    BY <1>1, <1>2, <1>3
    DEF Arrive, Receive, ReceiveOpaque, RefuseBody, HandlerInv, IsProfiled
  <2>2. UNCHANGED <<written, usage, awaited, phase, client>>
    BY <1>3 DEF Arrive, Receive, ReceiveOpaque, RefuseBody
  <2>3. \E s \in Stages : stage' = [stage EXCEPT ![r] = s]
    BY <1>3 DEF Arrive, Receive, ReceiveOpaque, RefuseBody, Stages, InHand, Final
  <2>4. \E n \in 0..MaxArtifacts : artifacts' = [artifacts EXCEPT ![r] = n]
    BY <1>2, <1>3 DEF Arrive, Receive, ReceiveOpaque, RefuseBody
  <2>5. RecordingEnds'
    BY <1>1, <1>2, <2>1, <2>2, <2>4 DEF RecordingEnds
  <2>6. PendingStages'
    BY <1>1, <1>2, <2>1, <2>2, <2>3 DEF PendingStages
  <2> QED
    BY <1>1, <2>2, <2>5, <2>6 DEF ExitInv, AwaitedSettle
<1>4. ASSUME NEW r \in Requests, AppendRecord(r) \/ AppendRecordFails(r) PROVE ExitInv'
  <2>1. stage[r] = "recording" /\ written[r] <= artifacts[r] /\ usage[r] = "none"
    BY <1>1, <1>4 DEF AppendRecord, AppendRecordFails, HandlerInv
  <2>2. UNCHANGED <<artifacts, usage, awaited, phase, client>>
    BY <1>4 DEF AppendRecord, AppendRecordFails
  <2>3. RecordingEnds'
    <3>1. written' \in {written, [written EXCEPT ![r] = written[r] + 1]}
      BY <1>4 DEF AppendRecord, AppendRecordFails
    <3>2. ASSUME NEW q \in Requests PROVE written'[q] <= artifacts[q] + 1
      <4>1. artifacts[q] \in Nat /\ written[q] \in Nat
        BY <1>2
      <4>2. CASE q = r
        BY <1>2, <2>1, <3>1, <4>1, <4>2
      <4>3. CASE q # r
        BY <1>1, <1>2, <3>1, <4>3 DEF RecordingEnds
      <4> QED
        BY <4>2, <4>3
    <3> QED
      BY <2>2, <3>2 DEF RecordingEnds
  <2>4. PendingStages'
    BY <1>1, <1>2, <1>4, <2>1, <2>2 DEF AppendRecord, AppendRecordFails, PendingStages
  <2> QED
    BY <1>1, <2>2, <2>3, <2>4 DEF ExitInv, AwaitedSettle
<1>5. ASSUME NEW r \in Requests, AppendUsage(r) \/ EndResponse(r) PROVE ExitInv'
  <2>1. UNCHANGED <<artifacts, written, awaited, phase, client>>
    BY <1>5 DEF AppendUsage, EndResponse
  <2>2. \A q \in Requests : usage'[q] = "writing" => usage[q] = "writing"
    BY <1>2, <1>5 DEF AppendUsage, EndResponse
  <2>3. \A q \in Requests : usage'[q] = "none" => usage[q] = "none"
    BY <1>2, <1>5 DEF AppendUsage, EndResponse
  <2>4. RecordingEnds' /\ AwaitedSettle'
    BY <1>1, <1>2, <2>1, <2>2, <2>3 DEF RecordingEnds, AwaitedSettle
  <2>5. PendingStages'
    BY <1>1, <1>2, <1>5, <2>1 DEF AppendUsage, EndResponse, PendingStages
  <2> QED
    BY <2>4, <2>5 DEF ExitInv
<1>6. ASSUME NEW r \in Requests, AppendUsageFails(r) PROVE ExitInv'
  <2>1. UNCHANGED <<artifacts, written, client>>
    BY <1>6 DEF AppendUsageFails
  <2>2. CASE Die("crashed")
    BY <1>1, <2>1, <2>2, DieExit DEF ExitInv
  <2>3. CASE /\ usage' = [usage EXCEPT ![r] = "failed"]
             /\ MoveTo(r, "destroyed") /\ UNCHANGED <<phase, awaited>>
    <3>1. RecordingEnds' /\ AwaitedSettle'
      BY <1>1, <1>2, <2>1, <2>3 DEF RecordingEnds, AwaitedSettle
    <3>2. PendingStages'
      BY <1>1, <1>2, <2>1, <2>3 DEF PendingStages
    <3> QED
      BY <3>1, <3>2 DEF ExitInv
  <2> QED
    BY <1>6, <2>2, <2>3 DEF AppendUsageFails
<1>7. ASSUME NEW r \in Requests, Upstream(r) PROVE ExitInv'
  <2>1. ASSUME UpstreamResponds(r) \/ UpstreamEnds(r) \/ UpstreamFails(r) PROVE ExitInv'
    <3>1. UNCHANGED <<artifacts, written, awaited, phase, client, usage>>
      BY <2>1 DEF UpstreamResponds, UpstreamEnds, UpstreamFails
    <3>2. PendingStages'
      BY <1>1, <1>2, <2>1, <3>1 DEF UpstreamResponds, UpstreamEnds, UpstreamFails,
                                    PendingStages
    <3> QED
      BY <1>1, <3>1, <3>2 DEF ExitInv, RecordingEnds, AwaitedSettle
  <2>2. ASSUME NEW rid \in ResponseIds, NEW reported \in BOOLEAN,
               ObserveChunk(r, rid, reported) \/ ObserveAtEnd(r, rid, reported)
        PROVE  ExitInv'
    <3>1. /\ UNCHANGED <<artifacts, written, awaited, phase, client>>
          /\ stage[r] = "streaming" /\ response[r] = None
          /\ usage' \in {usage, [usage EXCEPT ![r] = "writing"]}
          /\ stage' \in {stage, [stage EXCEPT ![r] = "finishing"]}
      BY <1>2, <2>2 DEF ObserveChunk, ObserveAtEnd, Completed
    <3>2. usage[r] = "none"
      BY <1>1, <3>1 DEF HandlerInv
    <3>3. r \notin awaited
      BY <1>1, <3>2 DEF AwaitedSettle
    <3>4. PendingStages'
      BY <1>1, <1>2, <3>1 DEF PendingStages
    <3>5. AwaitedSettle'
      BY <1>1, <1>2, <3>1, <3>3 DEF AwaitedSettle
    <3> QED
      BY <1>1, <3>1, <3>4, <3>5 DEF ExitInv, RecordingEnds
  <2> QED
    BY <1>7, <2>1, <2>2 DEF Upstream
<1>8. ASSUME NEW r \in Requests, ClientCloses(r) PROVE ExitInv'
  <2>1. UNCHANGED <<artifacts, written, awaited, phase, usage>>
    BY <1>8 DEF ClientCloses
  <2>2. PendingStages'
    BY <1>1, <1>2, <1>8, <2>1 DEF ClientCloses, PendingStages
  <2> QED
    BY <1>1, <2>1, <2>2 DEF ExitInv, RecordingEnds, AwaitedSettle
<1>9. ASSUME Close PROVE ExitInv'
  BY <1>1, <1>9
  DEF Close, ExitInv, RecordingEnds, PendingStages, AwaitedSettle, PendingObservations
<1>10. ASSUME StopAccepting PROVE ExitInv'
  <2>1. \A r \in awaited : usage[r] # "writing"
    BY <1>2, <1>10 DEF StopAccepting, PendingObservations
  <2> QED
    BY <1>1, <1>10, <2>1
    DEF StopAccepting, ExitInv, RecordingEnds, PendingStages, AwaitedSettle
<1>11. ASSUME Exit \/ Kill PROVE ExitInv'
  BY <1>1, <1>11, DieExit DEF Exit, Kill, ExitInv
<1>12. ASSUME Restart \/ Tick PROVE ExitInv'
  BY <1>1, <1>12 DEF Restart, Tick, ExitInv, RecordingEnds, PendingStages, AwaitedSettle
<1>13. ASSUME UNCHANGED vars PROVE ExitInv'
  BY <1>1, <1>13 DEF vars, ExitInv, RecordingEnds, PendingStages, AwaitedSettle
<1> QED
  BY <1>3, <1>4, <1>5, <1>6, <1>7, <1>8, <1>9, <1>10, <1>11, <1>12, <1>13 DEF Next, Handle

\* When every connection has ended, the observations still pending are those close()
\* could not count and whose connection had broken.
LEMMA ExitStep ==
  ASSUME IInv, ExitInv, [Next]_vars, phase = "closing", phase' = "exited",
         NEW r \in PendingObservations
  PROVE  r \notin awaited /\ (client[r] = "gone" \/ stage[r] = "failed")
<1>1. r \in Requests /\ usage[r] = "writing"
  BY DEF PendingObservations
<1>2. r \notin awaited
  BY <1>1 DEF ExitInv, AwaitedSettle
<1>3. \A q \in Requests : stage[q] \in InHand => client[q] = "gone"
  <2>1. phase' # phase
    OBVIOUS
  <2>2. ASSUME NEW q \in Requests, Arrive(q) \/ Handle(q) \/ Upstream(q) \/ ClientCloses(q)
        PROVE  phase' \in {phase, "crashed"}
    BY <2>2
    DEF Arrive, Receive, ReceiveOpaque, RefuseBody, Handle, AppendRecord, AppendRecordFails,
        AppendUsage, AppendUsageFails, EndResponse, Die, Upstream, UpstreamResponds,
        UpstreamEnds, UpstreamFails, ObserveChunk, ObserveAtEnd, ClientCloses, processVars
  <2>3. ~Close /\ ~StopAccepting /\ ~Kill /\ ~Restart /\ ~Tick
    BY DEF Close, StopAccepting, Kill, Die, Restart, Tick, processVars
  <2>4. ~UNCHANGED vars
    BY DEF vars, processVars
  <2>5. Exit
    BY <2>2, <2>3, <2>4 DEF Next
  <2> QED
    BY <2>5 DEF Exit
<1>4. CASE stage[r] \in {"streaming", "finishing"}
  BY <1>1, <1>2, <1>3, <1>4 DEF InHand
<1> QED
  BY <1>1, <1>2, <1>4 DEF ExitInv, PendingStages

\* The strengthened invariant holds in every state.
LEMMA ExitInvariance == Spec => [](IInv /\ ExitInv)
<1>1. Init => IInv /\ ExitInv
  BY InitInv, InitExit
<1>2. IInv /\ ExitInv /\ [Next]_vars => (IInv /\ ExitInv)'
  BY NextInv, NextExit
<1> QED
  BY <1>1, <1>2, PTL DEF Spec

\* An orderly exit takes no observation with it that close() waits for, and no other
\* one unless its connection broke first (close in server.ts, pendingObservations).
THEOREM ExitKeepsObservations == Spec => OrderlyExitKeepsObservations
<1>1. IInv /\ ExitInv /\ [Next]_vars =>
        [phase = "closing" /\ phase' = "exited" =>
           \A r \in PendingObservations :
             r \notin awaited /\ (client[r] = "gone" \/ stage[r] = "failed")]_vars
  BY ExitStep
<1> QED
  BY <1>1, ExitInvariance, PTL DEF Spec, OrderlyExitKeepsObservations

-----------------------------------------------------------------------------
(***************************************************************************)
(* The promise: what of a request is in its run, read off its handler.     *)
(***************************************************************************)

\* A run holds an event of a profiled request exactly when its append has settled.
LEMMA HoldsIsSettled ==
  ASSUME IInv, NEW r \in Requests, IsProfiled(r), NEW i \in 0..(MaxArtifacts + 1)
  PROVE  Holds(session[r], r, i) <=> IsSettled(r, i)
<1>1. session[r] \in SessionIds
  BY DEF IInv, TypeOK, IsProfiled
<1>2. ASSUME Holds(session[r], r, i) PROVE IsSettled(r, i)
  <2>1. PICK k \in DOMAIN runs[session[r]] : runs[session[r]][k] = EventOf(r, i)
    BY <1>2 DEF Holds
  <2>2. /\ runs[session[r]][k].request = r
        /\ runs[session[r]][k].index = i
    BY <2>1 DEF EventOf
  <2> QED
    BY <1>1, <2>1, <2>2 DEF IInv, LogInv
<1>3. IsSettled(r, i) => Holds(session[r], r, i)
  BY DEF IInv, LogInv
<1> QED
  BY <1>2, <1>3

\* The ledger of the promise, without a look at the runs.
LEMMA LedgerOfHandlers ==
  ASSUME IInv, ExitInv
  PROVE  \A r \in Requests :
           /\ IsRecorded(r) <=> IsProfiled(r) /\ artifacts[r] < written[r]
           /\ HasUsage(r) <=> usage[r] = "stored"
<1> USE ProxyAssumption
<1> SUFFICES ASSUME NEW r \in Requests
             PROVE  /\ IsRecorded(r) <=> IsProfiled(r) /\ artifacts[r] < written[r]
                    /\ HasUsage(r) <=> usage[r] = "stored"
  OBVIOUS
<1>1. /\ artifacts[r] \in 0..MaxArtifacts /\ written[r] \in 0..(MaxArtifacts + 1)
      /\ written[r] <= artifacts[r] + 1
  BY DEF IInv, TypeOK, ExitInv, RecordingEnds
<1>2. usage[r] = "stored" => IsProfiled(r)
  BY DEF IInv, HandlersInv, HandlerInv
<1>3. CASE ~IsProfiled(r)
  BY <1>2, <1>3 DEF IsRecorded, HasUsage
<1>4. CASE IsProfiled(r)
  <2>1. UsageIndex(r) \in 0..(MaxArtifacts + 1) /\ ~(UsageIndex(r) < written[r])
    BY <1>1 DEF UsageIndex
  <2>2. HasUsage(r) <=> usage[r] = "stored"
    BY <1>4, <2>1, HoldsIsSettled DEF HasUsage, IsSettled
  <2>3. \A i \in 0..artifacts[r] : i \in 0..(MaxArtifacts + 1) /\ i # UsageIndex(r)
    BY <1>1 DEF UsageIndex
  <2>4. \A i \in 0..artifacts[r] : Holds(session[r], r, i) <=> i < written[r]
    BY <1>4, <2>3, HoldsIsSettled DEF IsSettled
  <2>5. (\A i \in 0..artifacts[r] : i < written[r]) <=> artifacts[r] < written[r]
    BY <1>1
  <2> QED
    BY <1>4, <2>2, <2>4, <2>5 DEF IsRecorded
<1> QED
  BY <1>3, <1>4

\* The state of the promise, as functions and sets of the proxy's variables.
Outcome == [r \in Requests |-> OutcomeOf(r)]
Profiled == {r \in Requests : IsProfiled(r)}
Reported == {r \in Requests : usage[r] # "none"}
Recorded == {r \in Requests : IsProfiled(r) /\ artifacts[r] < written[r]}
Stored == {r \in Requests : usage[r] = "stored"}
Ledger == {<<r, "recording">> : r \in {x \in Requests : IsRecorded(x)}}
            \cup {<<r, "usage">> : r \in {x \in Requests : HasUsage(x)}}

LedgerOfSets ==
  Ledger = {<<r, "recording">> : r \in Recorded} \cup {<<r, "usage">> : r \in Stored}

\* The ledger is made of the recorded requests and of those whose usage is stored.
LEMMA LedgerIs == IInv /\ ExitInv => LedgerOfSets
<1> SUFFICES ASSUME IInv, ExitInv PROVE LedgerOfSets
  OBVIOUS
<1>1. {x \in Requests : IsRecorded(x)} = Recorded
  BY LedgerOfHandlers DEF Recorded
<1>2. {x \in Requests : HasUsage(x)} = Stored
  BY LedgerOfHandlers DEF Stored
<1> QED
  BY <1>1, <1>2 DEF Ledger, LedgerOfSets

\* So it is after a step.
LEMMA LedgerWillBe == (IInv /\ ExitInv)' => LedgerOfSets'
BY LedgerIs, PTL

\* A proxy that starts has promised nothing.
LEMMA InitPromise == Init => Promise!Init
<1> SUFFICES ASSUME Init PROVE Promise!Init
  OBVIOUS
<1>1. Outcome = [r \in Requests |-> "unseen"]
  BY DEF Init, Outcome, OutcomeOf
<1>2. Profiled = {} /\ Reported = {}
  BY DEF Init, Profiled, Reported, IsProfiled
<1>3. Ledger = {}
  BY DEF Init, Ledger, IsRecorded, HasUsage, IsProfiled
<1> QED
  BY <1>1, <1>2, <1>3 DEF Promise!Init, Outcome, Profiled, Reported, Ledger

\* What a client sees when the handler of its request moves to another stage.
LEMMA OutcomeMoves ==
  ASSUME TypeOK, NEW r \in Requests, NEW t \in Stages \ {"unsent"}, MoveTo(r, t)
  PROVE  Outcome' = [Outcome EXCEPT ![r] =
                       IF t = "recording" THEN "taken"
                       ELSE IF t \in {"forwarded", "streaming", "finishing"} THEN "sent"
                       ELSE IF t = "answered" THEN "answered" ELSE "ended"]
<1>1. stage \in [Requests -> Stages] /\ stage' = [stage EXCEPT ![r] = t]
  BY DEF TypeOK, MoveTo
<1>2. \A q \in Requests : stage'[q] = IF q = r THEN t ELSE stage[q]
  BY <1>1
<1>3. \A q \in Requests \ {r} : OutcomeOf(q)' = OutcomeOf(q)
  BY <1>2 DEF OutcomeOf
<1>4. OutcomeOf(r)' = IF t = "recording" THEN "taken"
                      ELSE IF t \in {"forwarded", "streaming", "finishing"} THEN "sent"
                      ELSE IF t = "answered" THEN "answered" ELSE "ended"
  BY <1>2 DEF OutcomeOf, Stages, InHand, Final
<1> QED
  BY <1>3, <1>4 DEF Outcome

\* What it sees of a request that stays where it is, and of one in hand.
LEMMA OutcomeIs ==
  ASSUME TypeOK
  PROVE  /\ UNCHANGED stage => UNCHANGED Outcome
         /\ \A r \in Requests :
              /\ Outcome[r] = OutcomeOf(r)
              /\ stage[r] = "unsent" => Outcome[r] = "unseen"
              /\ stage[r] = "recording" => Outcome[r] = "taken"
              /\ stage[r] \in {"forwarded", "streaming", "finishing"} => Outcome[r] = "sent"
<1>1. UNCHANGED stage => UNCHANGED Outcome
  BY DEF Outcome, OutcomeOf
<1>2. \A r \in Requests :
        /\ Outcome[r] = OutcomeOf(r)
        /\ stage[r] = "unsent" => OutcomeOf(r) = "unseen"
        /\ stage[r] = "recording" => OutcomeOf(r) = "taken"
        /\ stage[r] \in {"forwarded", "streaming", "finishing"} => OutcomeOf(r) = "sent"
  BY DEF Outcome, OutcomeOf
<1> QED
  BY <1>1, <1>2

\* What stays of the ledger when its parts stay.
LEMMA LedgerStays ==
  ASSUME LedgerOfSets, LedgerOfSets', UNCHANGED <<Recorded, Stored>>
  PROVE  UNCHANGED Ledger
BY DEF LedgerOfSets

\* The actions of the promise in terms of these.
LEMMA PromiseActions ==
  /\ \A r \in Requests :
       /\ Outcome[r] = "unseen" /\ Outcome' = [Outcome EXCEPT ![r] = "taken"]
          /\ Profiled' = Profiled \cup {r} /\ UNCHANGED <<Reported, Ledger>>
          => Promise!Next
       /\ Outcome[r] = "unseen" /\ Outcome' = [Outcome EXCEPT ![r] = "sent"]
          /\ UNCHANGED <<Profiled, Reported, Ledger>>
          => Promise!Next
       /\ Outcome[r] = "unseen" /\ Outcome' = [Outcome EXCEPT ![r] = "ended"]
          /\ UNCHANGED <<Profiled, Reported, Ledger>>
          => Promise!Next
       /\ Outcome[r] = "taken" /\ Outcome' = [Outcome EXCEPT ![r] = "sent"]
          /\ Ledger' = Ledger \cup {<<r, "recording">>} /\ UNCHANGED <<Profiled, Reported>>
          => Promise!Next
       /\ Outcome[r] = "sent" /\ r \in Profiled /\ Reported' = Reported \cup {r}
          /\ UNCHANGED <<Outcome, Profiled, Ledger>>
          => Promise!Next
       /\ r \in Reported /\ Ledger' = Ledger \cup {<<r, "usage">>}
          /\ UNCHANGED <<Outcome, Profiled, Reported>>
          => Promise!Next
       /\ Outcome[r] = "sent" /\ (r \in Reported => <<r, "usage">> \in Ledger)
          /\ Outcome' = [Outcome EXCEPT ![r] = "answered"]
          /\ UNCHANGED <<Profiled, Reported, Ledger>>
          => Promise!Next
  /\ \A S \in SUBSET Requests :
       (\A r \in S : Outcome[r] \in {"taken", "sent"})
       /\ Outcome' = [r \in Requests |-> IF r \in S THEN "ended" ELSE Outcome[r]]
       /\ UNCHANGED <<Profiled, Reported, Ledger>>
       => Promise!Next
  /\ UNCHANGED <<Outcome, Profiled, Reported, Ledger>> => UNCHANGED Promise!vars
BY DEF Promise!Next, Promise!Take, Promise!Pass, Promise!Refuse, Promise!Send, Promise!Report,
       Promise!StoreUsage, Promise!Answer, Promise!End, Promise!vars,
       Outcome, Profiled, Reported, Ledger

\* A step of the promise, or none.
Allowed == Promise!Next \/ UNCHANGED Promise!vars

\* A request that ends in another way than by its answer.
LEMMA EndsAlone ==
  ASSUME TypeOK, LedgerOfSets, LedgerOfSets', NEW r \in Requests,
         stage[r] \in {"recording", "forwarded", "streaming", "finishing"},
         \/ MoveTo(r, "refused") \/ MoveTo(r, "failed")
         \/ MoveTo(r, "destroyed") \/ MoveTo(r, "abandoned"),
         UNCHANGED <<Profiled, Reported, Recorded, Stored>>
  PROVE  Allowed
<1>1. Outcome' = [Outcome EXCEPT ![r] = "ended"]
  BY OutcomeMoves DEF Stages, Final
<1>2. Outcome[r] \in {"taken", "sent"}
  BY OutcomeIs
<1>3. Outcome' = [q \in Requests |-> IF q \in {r} THEN "ended" ELSE Outcome[q]]
  BY <1>1 DEF Outcome
<1>4. {r} \in SUBSET Requests /\ \A q \in {r} : Outcome[q] \in {"taken", "sent"}
  BY <1>2
<1>5. UNCHANGED Ledger
  BY LedgerStays
<1> QED
  BY <1>3, <1>4, <1>5, PromiseActions DEF Allowed

\* A process that ends takes every request in hand with it.
LEMMA DieEnds ==
  ASSUME TypeOK, LedgerOfSets, LedgerOfSets', NEW how \in {"exited", "crashed"}, Die(how),
         UNCHANGED <<session, artifacts, written>>
  PROVE  Allowed
<1> DEFINE S == {r \in Requests : stage[r] \in InHand}
<1>1. Outcome' = [r \in Requests |-> IF r \in S THEN "ended" ELSE Outcome[r]]
  <2>1. \A r \in Requests :
          OutcomeOf(r)' = IF r \in S THEN "ended" ELSE OutcomeOf(r)
    BY DEF Die, OutcomeOf, InHand
  <2> QED
    BY <2>1 DEF Outcome
<1>2. \A r \in S : Outcome[r] \in {"taken", "sent"}
  BY OutcomeIs DEF InHand
<1>3. UNCHANGED <<Profiled, Recorded>>
  BY DEF Profiled, Recorded, IsProfiled
<1>4. UNCHANGED <<Reported, Stored>>
  BY DEF Die, Reported, Stored
<1>5. UNCHANGED Ledger
  BY <1>3, <1>4, LedgerStays
<1> QED
  BY <1>1, <1>2, <1>3, <1>4, <1>5, PromiseActions DEF Allowed

\* A step that moves no handler, and changes no recording and no usage, shows nothing.
LEMMA ShowsNothing ==
  ASSUME TypeOK, LedgerOfSets, LedgerOfSets',
         UNCHANGED <<stage, session, artifacts, written, usage>>
  PROVE  Allowed
<1>1. UNCHANGED <<Profiled, Reported, Recorded, Stored>>
  BY DEF Profiled, Reported, Recorded, Stored, IsProfiled
<1>2. UNCHANGED <<Outcome, Ledger>>
  BY <1>1, OutcomeIs, LedgerStays
<1> QED
  BY <1>1, <1>2, PromiseActions DEF Allowed

\* Every step of the proxy is a step of the promise or shows nothing of it.
LEMMA NextPromise ==
  ASSUME IInv, IInv', ExitInv, LedgerOfSets, LedgerOfSets', [Next]_vars
  PROVE  Allowed
<1> USE ProxyAssumption DEF requestVars, processVars
<1>1. /\ TypeOK /\ \A r \in Requests : HandlerInv(r)
      /\ stage \in [Requests -> Stages]
      /\ session \in [Requests -> SessionIds \cup {None}]
      /\ artifacts \in [Requests -> 0..MaxArtifacts]
      /\ written \in [Requests -> 0..(MaxArtifacts + 1)]
      /\ usage \in [Requests -> {"none", "writing", "stored", "failed", "lost"}]
  BY DEF IInv, HandlersInv, TypeOK
<1>2. ASSUME NEW r \in Requests, Arrive(r) PROVE Allowed
  <2>1. stage[r] = "unsent" /\ Outcome[r] = "unseen" /\ written[r] = 0 /\ session[r] = None
    BY <1>1, <1>2, OutcomeIs DEF Arrive, Receive, ReceiveOpaque, RefuseBody, HandlerInv
  <2>2. UNCHANGED <<written, usage>>
    BY <1>2 DEF Arrive, Receive, ReceiveOpaque, RefuseBody
  <2>3. UNCHANGED <<Reported, Stored>>
    BY <2>2 DEF Reported, Stored
  <2>4. ASSUME NEW p \in Payloads, NEW s \in SessionIds, NEW n \in 0..MaxArtifacts,
               Receive(r, p, s, n)
        PROVE  Allowed
    <3>1. /\ session' = [session EXCEPT ![r] = s]
          /\ artifacts' = [artifacts EXCEPT ![r] = n]
          /\ MoveTo(r, "recording") /\ s # None
      BY <2>4, RouterAssumption DEF Receive
    <3>2. Outcome' = [Outcome EXCEPT ![r] = "taken"]
      BY <1>1, <3>1, OutcomeMoves DEF Stages, InHand
    <3>3. Profiled' = Profiled \cup {r}
      BY <1>1, <3>1 DEF Profiled, IsProfiled
    <3>4. r \notin Recorded /\ ~(n < written[r])
      BY <2>1 DEF Recorded, IsProfiled
    <3>5. Recorded' = Recorded
      BY <1>1, <2>2, <3>1, <3>4 DEF Recorded, IsProfiled
    <3>6. UNCHANGED Ledger
      BY <2>3, <3>5, LedgerStays
    <3> QED
      BY <2>1, <2>3, <3>2, <3>3, <3>6, PromiseActions DEF Allowed
  <2>5. ASSUME ReceiveOpaque(r) \/ RefuseBody(r) PROVE Allowed
    <3>1. UNCHANGED <<session, artifacts>>
      BY <2>5 DEF ReceiveOpaque, RefuseBody
    <3>2. UNCHANGED <<Profiled, Recorded>>
      BY <2>2, <3>1 DEF Profiled, Recorded, IsProfiled
    <3>3. UNCHANGED Ledger
      BY <2>3, <3>2, LedgerStays
    <3>4. \/ Outcome' = [Outcome EXCEPT ![r] = "sent"]
          \/ Outcome' = [Outcome EXCEPT ![r] = "ended"]
      <4>1. MoveTo(r, "forwarded") \/ MoveTo(r, "refused")
        BY <2>5 DEF ReceiveOpaque, RefuseBody
      <4>2. ASSUME MoveTo(r, "forwarded") PROVE Outcome' = [Outcome EXCEPT ![r] = "sent"]
        BY <1>1, <4>2, OutcomeMoves DEF Stages, InHand
      <4>3. ASSUME MoveTo(r, "refused") PROVE Outcome' = [Outcome EXCEPT ![r] = "ended"]
        BY <1>1, <4>3, OutcomeMoves DEF Stages, Final
      <4> QED
        BY <4>1, <4>2, <4>3
    <3> QED
      BY <2>1, <2>3, <3>2, <3>3, <3>4, PromiseActions DEF Allowed
  <2> QED
    BY <1>2, <2>4, <2>5 DEF Arrive
<1>3. ASSUME NEW r \in Requests, AppendRecord(r) PROVE Allowed
  <2>1. /\ stage[r] = "recording" /\ Outcome[r] = "taken"
        /\ IsProfiled(r) /\ written[r] <= artifacts[r]
    BY <1>1, <1>3, OutcomeIs DEF AppendRecord, HandlerInv
  <2>2. /\ UNCHANGED <<session, artifacts, usage>>
        /\ written' = [written EXCEPT ![r] = written[r] + 1]
    BY <1>3 DEF AppendRecord
  <2>3. UNCHANGED <<Profiled, Reported, Stored>>
    BY <2>2 DEF Profiled, Reported, Stored, IsProfiled
  <2>4. r \notin Recorded
    BY <1>1, <2>1 DEF Recorded
  <2>5. \A q \in Requests : artifacts[q] \in Nat /\ written[q] \in Nat
    BY <1>1
  <2>6. CASE written[r] = artifacts[r]
    <3>1. Recorded' = Recorded \cup {r}
      <4>1. written'[r] = artifacts[r] + 1
        BY <1>1, <2>2, <2>6
      <4>2. artifacts[r] < written'[r]
        BY <2>5, <4>1
      <4>3. \A q \in Requests \ {r} : written'[q] = written[q]
        BY <1>1, <2>2
      <4> QED
        BY <2>1, <2>2, <4>2, <4>3 DEF Recorded, IsProfiled
    <3>2. Ledger' = Ledger \cup {<<r, "recording">>}
      BY <2>3, <3>1 DEF LedgerOfSets
    <3>3. MoveTo(r, "forwarded")
      BY <1>3, <2>6 DEF AppendRecord
    <3>4. Outcome' = [Outcome EXCEPT ![r] = "sent"]
      BY <1>1, <3>3, OutcomeMoves DEF Stages, InHand
    <3> QED
      BY <2>1, <2>3, <3>2, <3>4, PromiseActions DEF Allowed
  <2>7. CASE written[r] # artifacts[r]
    <3>1. MoveTo(r, "recording")
      BY <1>3, <2>7 DEF AppendRecord
    <3>2. UNCHANGED stage
      BY <1>1, <2>1, <3>1 DEF MoveTo
    <3>3. Recorded' = Recorded
      <4>1. ~(artifacts[r] < written'[r])
        BY <1>1, <2>1, <2>2, <2>5, <2>7
      <4>2. \A q \in Requests \ {r} : written'[q] = written[q]
        BY <1>1, <2>2
      <4> QED
        BY <2>2, <2>4, <4>1, <4>2 DEF Recorded, IsProfiled
    <3>4. UNCHANGED <<Outcome, Ledger>>
      BY <1>1, <2>3, <3>2, <3>3, OutcomeIs, LedgerStays
    <3> QED
      BY <2>3, <3>4, PromiseActions DEF Allowed
  <2> QED
    BY <2>6, <2>7
<1>4. ASSUME NEW r \in Requests, AppendRecordFails(r) \/ UpstreamFails(r) PROVE Allowed
  <2>1. UNCHANGED <<session, artifacts, written, usage>>
    BY <1>4 DEF AppendRecordFails, UpstreamFails
  <2>2. UNCHANGED <<Profiled, Reported, Recorded, Stored>>
    BY <2>1 DEF Profiled, Reported, Recorded, Stored, IsProfiled
  <2> QED
    BY <1>1, <1>4, <2>2, EndsAlone DEF AppendRecordFails, UpstreamFails
<1>5. ASSUME NEW r \in Requests, AppendUsage(r) PROVE Allowed
  <2>1. /\ UNCHANGED <<stage, session, artifacts, written>> /\ usage[r] = "writing"
        /\ usage' = [usage EXCEPT ![r] = "stored"]
    BY <1>5 DEF AppendUsage
  <2>2. UNCHANGED <<Profiled, Recorded>>
    BY <2>1 DEF Profiled, Recorded, IsProfiled
  <2>3. r \in Reported /\ UNCHANGED Reported
    BY <1>1, <2>1 DEF Reported
  <2>4. Stored' = Stored \cup {r}
    BY <1>1, <2>1 DEF Stored
  <2>5. Ledger' = Ledger \cup {<<r, "usage">>}
    BY <2>2, <2>4 DEF LedgerOfSets
  <2>6. UNCHANGED Outcome
    BY <1>1, <2>1, OutcomeIs
  <2> QED
    BY <2>2, <2>3, <2>5, <2>6, PromiseActions DEF Allowed
<1>6. ASSUME NEW r \in Requests, AppendUsageFails(r) PROVE Allowed
  <2>1. UNCHANGED <<session, artifacts, written>> /\ usage[r] = "writing"
    BY <1>6 DEF AppendUsageFails
  <2>2. CASE Die("crashed")
    BY <1>1, <2>1, <2>2, DieEnds
  <2>3. CASE /\ RejectionHandled(r) /\ usage' = [usage EXCEPT ![r] = "failed"]
             /\ MoveTo(r, "destroyed")
    <3>1. UNCHANGED <<Profiled, Recorded>>
      BY <2>1 DEF Profiled, Recorded, IsProfiled
    <3>2. UNCHANGED <<Reported, Stored>>
      BY <1>1, <2>1, <2>3 DEF Reported, Stored
    <3> QED
      BY <1>1, <2>3, <3>1, <3>2, EndsAlone DEF RejectionHandled
  <2> QED
    BY <1>6, <2>2, <2>3 DEF AppendUsageFails
<1>7. ASSUME NEW r \in Requests, EndResponse(r) PROVE Allowed
  <2>1. /\ UNCHANGED <<session, artifacts, written, usage>> /\ stage[r] = "finishing"
        /\ usage[r] \in {"none", "stored"} /\ MoveTo(r, "answered")
    BY <1>7 DEF EndResponse
  <2>2. UNCHANGED <<Profiled, Reported, Recorded, Stored>>
    BY <2>1 DEF Profiled, Reported, Recorded, Stored, IsProfiled
  <2>3. UNCHANGED Ledger
    BY <2>2, LedgerStays
  <2>4. r \in Reported => <<r, "usage">> \in Ledger
    BY <2>1 DEF Reported, Stored, LedgerOfSets
  <2>5. Outcome[r] = "sent" /\ Outcome' = [Outcome EXCEPT ![r] = "answered"]
    BY <1>1, <2>1, OutcomeIs, OutcomeMoves DEF Stages, Final
  <2> QED
    BY <2>2, <2>3, <2>4, <2>5, PromiseActions DEF Allowed
<1>8. ASSUME NEW r \in Requests, UpstreamResponds(r) \/ UpstreamEnds(r) PROVE Allowed
  <2>1. /\ UNCHANGED <<session, artifacts, written, usage>>
        /\ MoveTo(r, "streaming") \/ MoveTo(r, "finishing")
        /\ stage[r] \in {"forwarded", "streaming"}
    BY <1>8 DEF UpstreamResponds, UpstreamEnds
  <2>2. UNCHANGED <<Profiled, Reported, Recorded, Stored>>
    BY <2>1 DEF Profiled, Reported, Recorded, Stored, IsProfiled
  <2>3. Outcome' = [Outcome EXCEPT ![r] = "sent"] /\ Outcome[r] = "sent"
    BY <1>1, <2>1, OutcomeIs, OutcomeMoves DEF Stages, InHand
  <2>4. UNCHANGED Outcome
    BY <2>3 DEF Outcome
  <2> QED
    BY <2>2, <2>4, LedgerStays, PromiseActions DEF Allowed
<1>9. ASSUME NEW r \in Requests, NEW rid \in ResponseIds, NEW reported_ \in BOOLEAN,
             ObserveChunk(r, rid, reported_) \/ ObserveAtEnd(r, rid, reported_)
      PROVE  Allowed
  <2>1. /\ UNCHANGED <<session, artifacts, written>> /\ stage[r] = "streaming"
        /\ UNCHANGED stage \/ MoveTo(r, "finishing")
        /\ response[r] = None
    BY <1>9 DEF ObserveChunk, ObserveAtEnd, Completed
  <2>2. UNCHANGED <<Profiled, Recorded>>
    BY <2>1 DEF Profiled, Recorded, IsProfiled
  <2>3. UNCHANGED Outcome /\ Outcome[r] = "sent"
    <3>1. Outcome[r] = "sent"
      BY <1>1, <2>1, OutcomeIs
    <3>2. ASSUME MoveTo(r, "finishing") PROVE UNCHANGED Outcome
      <4>1. Outcome' = [Outcome EXCEPT ![r] = "sent"]
        BY <1>1, <3>2, OutcomeMoves DEF Stages, InHand
      <4> QED
        BY <3>1, <4>1 DEF Outcome
    <3> QED
      BY <1>1, <2>1, <3>1, <3>2, OutcomeIs
  <2>4. /\ usage[r] = "none"
        /\ \/ UNCHANGED usage
           \/ session[r] # None /\ usage' = [usage EXCEPT ![r] = "writing"]
    <3>1. response[r] = None
      BY <1>9 DEF ObserveChunk, ObserveAtEnd, Completed
    <3>2. usage[r] = "none"
      BY <1>1, <3>1 DEF HandlerInv
    <3>3. usage' = [usage EXCEPT ![r] = IF reported_ /\ session[r] # None
                                        THEN "writing" ELSE @]
      BY <1>9 DEF ObserveChunk, ObserveAtEnd, Completed
    <3> QED
      BY <1>1, <3>2, <3>3
  <2>5. UNCHANGED Stored
    BY <1>1, <2>4 DEF Stored
  <2>6. UNCHANGED Ledger
    BY <2>2, <2>5, LedgerStays
  <2>7. CASE UNCHANGED usage
    <3>1. UNCHANGED Reported
      BY <2>7 DEF Reported
    <3> QED
      BY <2>2, <2>3, <2>6, <3>1, PromiseActions DEF Allowed
  <2>8. CASE session[r] # None /\ usage' = [usage EXCEPT ![r] = "writing"]
    <3>1. r \in Profiled /\ Reported' = Reported \cup {r}
      BY <1>1, <2>8 DEF Profiled, IsProfiled, Reported
    <3> QED
      BY <2>2, <2>3, <2>6, <3>1, PromiseActions DEF Allowed
  <2> QED
    BY <2>4, <2>7, <2>8
<1>10. ASSUME NEW r \in Requests, ClientCloses(r) PROVE Allowed
  <2>1. /\ UNCHANGED <<session, artifacts, written, usage>> /\ stage[r] \in InHand
        /\ MoveTo(r, IF stage[r] \in {"forwarded", "streaming"} THEN "abandoned"
                     ELSE stage[r])
    BY <1>10 DEF ClientCloses
  <2>2. UNCHANGED <<Profiled, Reported, Recorded, Stored>>
    BY <2>1 DEF Profiled, Reported, Recorded, Stored, IsProfiled
  <2>3. CASE stage[r] \in {"forwarded", "streaming"}
    BY <1>1, <2>1, <2>2, <2>3, EndsAlone
  <2>4. CASE stage[r] \notin {"forwarded", "streaming"}
    <3>1. UNCHANGED stage
      BY <1>1, <2>1, <2>4 DEF MoveTo
    <3> QED
      BY <1>1, <2>1, <3>1, ShowsNothing
  <2> QED
    BY <2>3, <2>4
<1>11. ASSUME Exit \/ Kill PROVE Allowed
  BY <1>1, <1>11, DieEnds DEF Exit, Kill
<1>12. ASSUME Close \/ StopAccepting \/ Restart \/ Tick \/ UNCHANGED vars PROVE Allowed
  BY <1>1, <1>12, ShowsNothing DEF Close, StopAccepting, Restart, Tick, vars
<1> QED
  BY <1>2, <1>3, <1>4, <1>5, <1>6, <1>7, <1>8, <1>9, <1>10, <1>11, <1>12
  DEF Next, Handle, Upstream

\* The proxy implements the promise: whatever clients, disk and signals do, a profiled
\* request is sent on only when its recording is stored, and its answer is ended only
\* when the usage it reported is (server.ts, transport.ts).
THEOREM PromiseIsKept == Spec => KeepsPromise
<1>1. IInv /\ ExitInv /\ IInv' /\ LedgerOfSets /\ LedgerOfSets' /\ [Next]_vars
        => [Promise!Next]_Promise!vars
  BY NextPromise DEF Allowed
<1> QED
  BY <1>1, InitPromise, ExitInvariance, LedgerIs, LedgerWillBe, PTL
  DEF Spec, KeepsPromise, Promise!Spec

-----------------------------------------------------------------------------
(***************************************************************************)
(* What the upstream's answer reports: the reading of a text by the        *)
(* response observer, whose reports LiveProxy takes as ObserveChunk and    *)
(* ObserveAtEnd.                                                           *)
(***************************************************************************)
-----------------------------------------------------------------------------
(***************************************************************************)
(* Induction over numbers and sequences, for sets: G holds those of which  *)
(* something is so.                                                        *)
(***************************************************************************)
\* A set of numbers that is not empty has a least one.
LEMMA LeastNumber ==
  ASSUME NEW T \in SUBSET Nat, T # {}
  PROVE  \E m \in T : \A j \in T : m <= j
<1> DEFINE R == OpToRel(<, Nat)
<1>1. IsWellFoundedOn(R, Nat)
  BY NatLessThanWellFounded
<1>2. \A x, y \in Nat : <<x, y>> \in R <=> x < y
  BY DEF OpToRel
<1> HIDE DEF R
<1>3. PICK m \in T : \A j \in T : <<j, m>> \notin R
  BY <1>1, WFMin
<1>4. ASSUME NEW j \in T PROVE m <= j
  <2>1. j \in Nat /\ m \in Nat /\ ~(j < m)
    BY <1>2, <1>3
  <2>2. QED BY <2>1
<1>5. QED BY <1>4

\* Up to a bound, all numbers are in a set with 0 and the successors of its members.
LEMMA NumbersUpTo ==
  ASSUME NEW N \in Nat, NEW G, 0 \in G,
         \A n \in 0 .. N : n \in G /\ n < N => n + 1 \in G
  PROVE  \A n \in 0 .. N : n \in G
<1> DEFINE B == {n \in 0 .. N : n \notin G}
<1>1. SUFFICES ASSUME B # {} PROVE FALSE
  OBVIOUS
<1>2. B \in SUBSET Nat
  OBVIOUS
<1> HIDE DEF B
<1>3. PICK m \in B : \A j \in B : m <= j
  BY <1>1, <1>2, LeastNumber
<1>4. m \in 0 .. N /\ m \notin G
  BY <1>3 DEF B
<1>5. m - 1 \in 0 .. N /\ m - 1 < N /\ ~(m <= m - 1) /\ (m - 1) + 1 = m
  BY <1>4
<1>6. m - 1 \in G
  BY <1>3, <1>5 DEF B
<1>7. QED BY <1>4, <1>5, <1>6

\* f is defined by recursion up to N: from a, by the steps of g.
Recursion(f, S, N, a, g) ==
  f \in [0 .. N -> S] /\ f[0] = a /\ \A n \in 1 .. N : f[n] = g[<<f[n - 1], n>>]

\* A function is defined by recursion up to a bound.
LEMMA RecursionExists ==
  ASSUME NEW S, NEW a \in S, NEW N \in Nat, NEW g \in [S \X (1 .. N) -> S]
  PROVE  \E f : Recursion(f, S, N, a, g)
<1> DEFINE UpTo(k) == \E f \in [0 .. k -> S] :
                        f[0] = a /\ \A n \in 1 .. k : f[n] = g[<<f[n - 1], n>>]
           G == {k \in 0 .. N : UpTo(k)}
<1>1. 0 \in G
  <2> DEFINE z == [n \in 0 .. 0 |-> a]
  <2>1. z \in [0 .. 0 -> S] /\ z[0] = a /\ \A n \in 1 .. 0 : FALSE
    OBVIOUS
  <2> HIDE DEF z
  <2>2. UpTo(0)
    BY <2>1
  <2> HIDE DEF UpTo
  <2> QED BY <2>2
<1>2. ASSUME NEW k \in 0 .. N, UpTo(k), k < N
      PROVE  UpTo(k + 1)
  <2>1. PICK f \in [0 .. k -> S] : f[0] = a /\ \A n \in 1 .. k : f[n] = g[<<f[n - 1], n>>]
    BY <1>2
  <2>2. <<f[k], k + 1>> \in S \X (1 .. N)
    BY <1>2, <2>1
  <2> DEFINE h == [n \in 0 .. (k + 1) |-> IF n = k + 1 THEN g[<<f[k], k + 1>>] ELSE f[n]]
  <2>3. h \in [0 .. (k + 1) -> S]
    <3>1. g[<<f[k], k + 1>>] \in S
      BY <2>2
    <3>2. \A n \in 0 .. (k + 1) : n # k + 1 => n \in 0 .. k
      BY <1>2
    <3>3. \A n \in 0 .. (k + 1) : n # k + 1 => f[n] \in S
      BY <2>1, <3>2
    <3> QED BY <3>1, <3>3
  <2>4. h[0] = a
    <3>1. 0 \in 0 .. (k + 1) /\ 0 # k + 1
      BY <1>2
    <3> QED BY <2>1, <3>1
  <2>5. \A n \in 1 .. k : h[n] = f[n] /\ h[n - 1] = f[n - 1]
    <3>1. \A n \in 1 .. k : /\ n \in 0 .. (k + 1) /\ n # k + 1
                            /\ n - 1 \in 0 .. (k + 1) /\ n - 1 # k + 1
      BY <1>2
    <3> QED BY <3>1
  <2>6. h[k + 1] = g[<<h[k], k + 1>>]
    <3>1. k \in 0 .. (k + 1) /\ k # k + 1 /\ k + 1 \in 0 .. (k + 1)
      BY <1>2
    <3> QED BY <3>1
  <2>7. \A n \in 1 .. (k + 1) : n = k + 1 \/ n \in 1 .. k
    BY <1>2
  <2> HIDE DEF h
  <2>8. (k + 1) - 1 = k
    BY <1>2
  <2>9. ASSUME NEW n \in 1 .. (k + 1) PROVE h[n] = g[<<h[n - 1], n>>]
    <3>1. CASE n = k + 1
      BY <2>6, <2>8, <3>1
    <3>2. CASE n \in 1 .. k
      BY <2>1, <2>5, <3>2
    <3> QED BY <2>7, <3>1, <3>2
  <2> QED BY <2>3, <2>4, <2>9
<1> HIDE DEF UpTo
<1>3. \A n \in 0 .. N : n \in G /\ n < N => n + 1 \in G
  BY <1>2
<1>4. N \in G
  BY <1>1, <1>3, NumbersUpTo, N \in 0 .. N
<1> QED BY <1>4 DEF UpTo, Recursion

\* and is of the type its steps keep.
LEMMA RecursionType ==
  ASSUME NEW S, NEW a \in S, NEW N \in Nat, NEW g \in [S \X (1 .. N) -> S], NEW f, f[0] = a,
         \A n \in 1 .. N : f[n - 1] \in S => f[n] = g[<<f[n - 1], n>>]
  PROVE  \A n \in 0 .. N : f[n] \in S
<1> DEFINE G == {n \in 0 .. N : f[n] \in S}
<1>1. 0 \in G
  OBVIOUS
<1>2. ASSUME NEW n \in 0 .. N, n \in G, n < N PROVE n + 1 \in G
  <2>1. n + 1 \in 1 .. N /\ n + 1 \in 0 .. N /\ (n + 1) - 1 = n
    BY <1>2
  <2>2. f[n + 1] = g[<<f[n], n + 1>>] /\ <<f[n], n + 1>> \in S \X (1 .. N)
    BY <1>2, <2>1
  <2> QED BY <2>1, <2>2
<1> HIDE DEF G
<1>3. \A n \in 0 .. N : n \in G
  BY <1>1, <1>2, NumbersUpTo
<1> QED BY <1>3 DEF G

LineState(T) == [closed : Seq(Seq(T)), open : Seq(T)]

\* f holds the lines of the first tokens of a text.
Splits(text, f) ==
  f = [n \in 0 .. Len(text) |->
        IF n = 0 THEN [closed |-> <<>>, open |-> <<>>]
        ELSE IF text[n] = LF
        THEN [closed |-> Append(f[n - 1].closed, Stripped(f[n - 1].open)), open |-> <<>>]
        ELSE [closed |-> f[n - 1].closed, open |-> Append(f[n - 1].open, text[n])]]

\* A line without its carriage return is a text of the same tokens (split(/\r?\n/)).
LEMMA StrippedType ==
  ASSUME NEW T, NEW line \in Seq(T)
  PROVE  Stripped(line) \in Seq(T)
<1>1. CASE line # <<>>
  <2>1. Len(line) \in Nat /\ Len(line) # 0 
    BY <1>1, EmptySeq
  <2>2. Front(line) \in Seq(T)
    BY <2>1, SubSeqProperties DEF Front
  <2> QED BY <2>2 DEF Stripped
<1>2. CASE line = <<>>
  BY <1>2 DEF Stripped
<1> QED BY <1>1, <1>2

\* The lines of a text hold nothing else than its tokens.
LEMMA LinesType ==
  ASSUME NEW T, NEW text \in Seq(T)
  PROVE  Lines(text) \in Seq(Seq(T))
<1> DEFINE S == LineState(T)
           N == Len(text)
           next(x, t) == IF t = LF
                         THEN [closed |-> Append(x.closed, Stripped(x.open)), open |-> <<>>]
                         ELSE [closed |-> x.closed, open |-> Append(x.open, t)]
           g == [p \in S \X (1 .. N) |-> next(p[1], text[p[2]])]
           a == [closed |-> <<>>, open |-> <<>>]
<1>1. N \in Nat /\ \A n \in 1 .. N : text[n] \in T
  BY LenProperties, ElementOfSeq
<1>2. a \in S
  BY DEF LineState
<1>3. ASSUME NEW x \in S, NEW t \in T PROVE next(x, t) \in S
  <2>1. x.closed \in Seq(Seq(T)) /\ x.open \in Seq(T) /\ x = [closed |-> x.closed, open |-> x.open]
    BY DEF LineState
  <2>2. Stripped(x.open) \in Seq(T)
    BY <2>1, StrippedType
  <2>3. Append(x.open, t) \in Seq(T) /\ Append(x.closed, Stripped(x.open)) \in Seq(Seq(T))
    BY <2>1, <2>2, AppendProperties
  <2>5. [closed |-> Append(x.closed, Stripped(x.open)), open |-> <<>>] \in S
    BY <2>3 DEF LineState
  <2>6. [closed |-> x.closed, open |-> Append(x.open, t)] \in S
    BY <2>1, <2>3 DEF LineState
  <2> QED BY <2>5, <2>6
<1> HIDE DEF next
<1>4. g \in [S \X (1 .. N) -> S]
  BY <1>1, <1>3
<1>5. \A x \in S : \A n \in 1 .. N : g[<<x, n>>] = next(x, text[n])
  OBVIOUS
<1> HIDE DEF g, a, S, N
<1>6. PICK h : Recursion(h, S, N, a, g)
  BY <1>1, <1>2, <1>4, RecursionExists
<1>6a. h \in [0 .. N -> S] /\ h[0] = a /\ \A n \in 1 .. N : h[n] = g[<<h[n - 1], n>>]
  BY <1>6 DEF Recursion
<1>7. h = [n \in 0 .. N |-> IF n = 0 THEN a ELSE next(h[n - 1], text[n])]
  <2>1. \A n \in 0 .. N : n # 0 => n \in 1 .. N /\ n - 1 \in 0 .. N
    BY <1>1
  <2> QED BY <1>5, <1>6a, <2>1
<1> DEFINE f == CHOOSE f : Splits(text, f)
<1>8. Splits(text, h)
  BY <1>7 DEF Splits, next, a, N
<1>9. Splits(text, f)
  BY <1>8
<1>10. Lines(text) = Append(f[N].closed, f[N].open)
  BY DEF Lines, Splits, N
<1> HIDE DEF f
<1>11. f = [n \in 0 .. N |-> IF n = 0 THEN a ELSE next(f[n - 1], text[n])]
  BY <1>9 DEF Splits, next, a, N
<1>12. f[0] = a /\ \A n \in 1 .. N : f[n - 1] \in S => f[n] = g[<<f[n - 1], n>>]
  <2>1. 0 \in 0 .. N /\ \A n \in 1 .. N : n \in 0 .. N /\ n # 0
    BY <1>1
  <2>2. f[0] = a /\ \A n \in 1 .. N : f[n] = next(f[n - 1], text[n])
    BY <2>1, <1>11
  <2> QED BY <2>2, <1>5
<1>13. f[N] \in S
  BY <1>1, <1>2, <1>4, <1>12, RecursionType, N \in 0 .. N
<1> QED BY <1>10, <1>13, AppendProperties DEF S, LineState

\* Tokens of different kinds differ.
LEMMA MarksDiffer ==
  /\ LF # CR /\ LF.kind = "lf" /\ CR.kind = "cr"
  /\ DataField.kind = "data" /\ EventField.kind = "event"
  /\ \A d : Head1(d).kind = "head" /\ Tail1(d).kind = "tail"
  /\ LF.document = Null /\ CR.document = Null
  /\ \A d : Head1(d).document = d /\ Tail1(d).document = d
BY DEF LF, CR, DataField, EventField, Head1, Tail1, Mark

\* A delimiter, token by token.
DelimiterAt(text, i, j) ==
  /\ text[j] = LF
  /\ \/ j = i + 1 /\ text[i] = LF
     \/ j = i + 2 /\ text[i] = CR /\ text[i + 1] = LF
     \/ j = i + 2 /\ text[i] = LF /\ text[i + 1] = CR
     \/ j = i + 3 /\ text[i] = CR /\ text[i + 1] = LF /\ text[i + 2] = CR

\* A part of a text is a delimiter of blocks, /\r?\n\r?\n/, when its tokens are.
LEMMA DelimiterIs ==
  ASSUME NEW S, NEW text \in Seq(S), NEW i \in 1 .. Len(text), NEW j \in i .. Len(text)
  PROVE  IsDelimiter(text, i, j) <=> DelimiterAt(text, i, j)
<1> DEFINE u == SubSeq(text, i, j)
<1>1. Len(text) \in Nat /\ i \in Nat /\ j \in Nat /\ i <= j /\ j <= Len(text)
  BY LenProperties
<1>2. u \in Seq(S) /\ Len(u) = j - i + 1 /\ \A k \in 1 .. (j - i + 1) : u[k] = text[i + k - 1]
  BY <1>1, SubSeqProperties
<1> HIDE DEF u
<1>3. ASSUME NEW a, NEW b PROVE u = <<a, b>> <=> j = i + 1 /\ text[i] = a /\ text[j] = b
  <2>1. CASE j = i + 1
    <3>1. Len(u) = 2 /\ u[1] = text[i] /\ u[2] = text[j]
      BY <1>1, <1>2, <2>1
    <3> QED BY <1>2, <2>1, <3>1
  <2>2. CASE j # i + 1
    <3>1. Len(u) # 2
      BY <1>1, <1>2, <2>2
    <3> QED BY <2>2, <3>1
  <2> QED BY <2>1, <2>2
<1>4. ASSUME NEW a, NEW b, NEW c
      PROVE  u = <<a, b, c>> <=> j = i + 2 /\ text[i] = a /\ text[i + 1] = b /\ text[j] = c
  <2>1. CASE j = i + 2
    <3>1. Len(u) = 3 /\ u[1] = text[i] /\ u[2] = text[i + 1] /\ u[3] = text[j]
      BY <1>1, <1>2, <2>1
    <3> QED BY <1>2, <2>1, <3>1
  <2>2. CASE j # i + 2
    <3>1. Len(u) # 3
      BY <1>1, <1>2, <2>2
    <3> QED BY <2>2, <3>1
  <2> QED BY <2>1, <2>2
<1>5. ASSUME NEW a, NEW b, NEW c, NEW d
      PROVE  u = <<a, b, c, d>>
             <=> j = i + 3 /\ text[i] = a /\ text[i + 1] = b /\ text[i + 2] = c /\ text[j] = d
  <2>1. CASE j = i + 3
    <3>1. Len(u) = 4 /\ u[1] = text[i] /\ u[2] = text[i + 1] /\ u[3] = text[i + 2] /\ u[4] = text[j]
      BY <1>1, <1>2, <2>1
    <3> QED BY <1>2, <2>1, <3>1
  <2>2. CASE j # i + 3
    <3>1. Len(u) # 4
      BY <1>1, <1>2, <2>2
    <3> QED BY <2>2, <3>1
  <2> QED BY <2>1, <2>2
<1>6. IsDelimiter(text, i, j)
      <=> \/ u = <<LF, LF>> \/ u = <<CR, LF, LF>> \/ u = <<LF, CR, LF>> \/ u = <<CR, LF, CR, LF>>
  BY DEF IsDelimiter, Delimiters, u
<1>7. u = <<LF, LF>> <=> j = i + 1 /\ text[i] = LF /\ text[j] = LF
  BY <1>3
<1>8. u = <<CR, LF, LF>> <=> j = i + 2 /\ text[i] = CR /\ text[i + 1] = LF /\ text[j] = LF
  BY <1>4
<1>9. u = <<LF, CR, LF>> <=> j = i + 2 /\ text[i] = LF /\ text[i + 1] = CR /\ text[j] = LF
  BY <1>4
<1>10. u = <<CR, LF, CR, LF>>
       <=> j = i + 3 /\ text[i] = CR /\ text[i + 1] = LF /\ text[i + 2] = CR /\ text[j] = LF
  BY <1>5
<1> QED BY <1>6, <1>7, <1>8, <1>9, <1>10 DEF DelimiterAt

\* Two delimiters that begin at one place are one; and none ends inside of another that
\* begins before it: each has one line feed before the one it ends with.
LEMMA DelimitersApart ==
  ASSUME NEW text, NEW i \in Nat, NEW j \in Nat, NEW k \in Nat, NEW l \in Nat,
         DelimiterAt(text, i, j), DelimiterAt(text, k, l)
  PROVE  /\ i = k => j = l
         /\ k <= i /\ j < l => FALSE
         /\ i < j
<1> USE MarksDiffer DEF DelimiterAt
<1>1. i < j /\ j <= i + 3 /\ k < l /\ l <= k + 3
  OBVIOUS
<1>2. i = k => j = l
  OBVIOUS
<1>3. ASSUME k <= i, j < l PROVE FALSE
  <2>1. i = k \/ i = k + 1 \/ i = k + 2
    BY <1>1, <1>3
  <2> QED BY <1>1, <1>3, <2>1
<1> QED BY <1>1, <1>2, <1>3

\* The first boundary is one, and the first.
LEMMA BoundaryIs ==
  ASSUME NEW S, NEW text \in Seq(S)
  PROVE  /\ Boundary(text) \in 0 .. Len(text)
         /\ Boundary(text) = 0
            <=> \A i \in 1 .. Len(text) : \A j \in i .. Len(text) : ~DelimiterAt(text, i, j)
         /\ Boundary(text) # 0 =>
              \E j \in Boundary(text) .. Len(text) :
                /\ BoundaryEnd(text, Boundary(text)) = j
                /\ DelimiterAt(text, Boundary(text), j)
                /\ \A h \in 1 .. (Boundary(text) - 1) : \A k \in h .. Len(text) :
                     ~DelimiterAt(text, h, k)
<1> DEFINE N == Len(text)
           starts == {i \in 1 .. N : \E j \in i .. N : DelimiterAt(text, i, j)}
<1>1. N \in Nat /\ DOMAIN text = 1 .. N
  BY LenProperties
<1>2. starts = {i \in DOMAIN text : \E j \in i .. Len(text) : IsDelimiter(text, i, j)}
  BY <1>1, DelimiterIs
<1>3. Boundary(text) = IF starts = {} THEN 0 ELSE Min(starts)
  BY <1>2 DEF Boundary
<1>4. CASE starts = {}
  BY <1>1, <1>3, <1>4
<1>5. CASE starts # {}
  <2>1. starts \in SUBSET Nat
    BY <1>1
  <2>2. PICK m \in starts : \A j \in starts : m <= j
    BY <1>5, <2>1, LeastNumber
  <2>3. Min(starts) \in starts /\ \A j \in starts : Min(starts) <= j
    BY <2>2 DEF Min
  <2> DEFINE i == Boundary(text)
  <2>4. i = Min(starts)
    BY <1>3, <1>5
  <2> HIDE DEF i
  <2>5. i \in 1 .. N /\ i \in starts /\ \A h \in starts : i <= h
    BY <2>3, <2>4
  <2>6. PICK j \in i .. N : DelimiterAt(text, i, j)
    BY <2>5
  <2>7. \A h \in 1 .. (i - 1) : h \in 1 .. N /\ ~(i <= h)
    BY <1>1, <2>5
  <2>8. \A h \in 1 .. (i - 1) : h \notin starts
    BY <2>5, <2>7
  <2>9. \A h \in 1 .. (i - 1) : \A k \in h .. N : ~DelimiterAt(text, h, k)
    BY <2>7, <2>8
  <2>10. ASSUME NEW k \in i .. N, DelimiterAt(text, i, k) PROVE k = j
    BY <1>1, <2>5, <2>6, <2>10, DelimitersApart
  <2>11. IsDelimiter(text, i, j) /\ \A k \in i .. N : IsDelimiter(text, i, k) => k = j
    BY <2>5, <2>6, <2>10, DelimiterIs
  <2>12. \A k \in (j + 1) .. N : k \in i .. N /\ k # j
    BY <1>1, <2>5, <2>6
  <2> DEFINE Ends(q) == IsDelimiter(text, i, q) /\ \A k \in (q + 1) .. N : ~IsDelimiter(text, i, k)
  <2>13. Ends(j)
    BY <2>11, <2>12
  <2>14. BoundaryEnd(text, i) = CHOOSE q \in i .. N : Ends(q)
    BY DEF BoundaryEnd
  <2> HIDE DEF Ends
  <2>15. BoundaryEnd(text, i) \in i .. N /\ Ends(BoundaryEnd(text, i))
    BY <2>6, <2>13, <2>14
  <2>16. BoundaryEnd(text, i) = j
    BY <2>11, <2>15 DEF Ends
  <2>17. i # 0 /\ i \in 0 .. N
    BY <1>1, <2>5
  <2> QED BY <2>5, <2>6, <2>9, <2>16, <2>17 DEF i
<1> QED BY <1>4, <1>5

\* A part of a sequence.
LEMMA Part ==
  ASSUME NEW S, NEW s \in Seq(S), NEW i \in 1 .. (Len(s) + 1), NEW j \in (i - 1) .. Len(s)
  PROVE  /\ SubSeq(s, i, j) \in Seq(S)
         /\ Len(SubSeq(s, i, j)) = (j - i) + 1
         /\ DOMAIN SubSeq(s, i, j) = 1 .. ((j - i) + 1)
         /\ \A k \in 1 .. ((j - i) + 1) : SubSeq(s, i, j)[k] = s[(i - 1) + k] /\ (i - 1) + k \in 1 .. Len(s)
<1> DEFINE u == SubSeq(s, i, j)
<1>1. Len(s) \in Nat /\ i \in Nat /\ j \in Nat /\ i >= 1 /\ j <= Len(s) /\ i <= j + 1
  BY LenProperties
<1>2. \A k \in i .. j : s[k] \in S
  BY <1>1, ElementOfSeq
<1>3. u \in Seq(S) /\ Len(u) = (IF i <= j THEN (j - i) + 1 ELSE 0) /\ \A k \in 1 .. ((j - i) + 1) : u[k] = s[(i + k) - 1]
  BY <1>1, <1>2, SubSeqProperties
<1>4. Len(u) = (j - i) + 1
  BY <1>1, <1>3
<1>5. \A k \in 1 .. ((j - i) + 1) : (i + k) - 1 = (i - 1) + k /\ (i - 1) + k \in 1 .. Len(s)
  BY <1>1
<1>6. DOMAIN u = 1 .. Len(u)
  BY <1>3, LenProperties
<1> QED BY <1>3, <1>4, <1>5, <1>6

\* What a text holds when a chunk is put behind it (buffer += chunk).
LEMMA Cat ==
  ASSUME NEW S, NEW s \in Seq(S), NEW t \in Seq(S)
  PROVE  /\ s \o t \in Seq(S) /\ Len(s \o t) = Len(s) + Len(t)
         /\ \A k \in 1 .. Len(s) : (s \o t)[k] = s[k]
         /\ \A k \in 1 .. Len(t) : (s \o t)[Len(s) + k] = t[k]
<1>1. Len(s) \in Nat /\ Len(t) \in Nat
  BY LenProperties
<1>2. s \o t \in Seq(S) /\ Len(s \o t) = Len(s) + Len(t)
      /\ \A k \in 1 .. (Len(s) + Len(t)) : (s \o t)[k] = IF k <= Len(s) THEN s[k] ELSE t[k - Len(s)]
  BY ConcatProperties
<1>3. \A k \in 1 .. Len(s) : k \in 1 .. (Len(s) + Len(t)) /\ k <= Len(s)
  BY <1>1
<1>4. \A k \in 1 .. Len(t) : Len(s) + k \in 1 .. (Len(s) + Len(t)) /\ ~(Len(s) + k <= Len(s)) /\ (Len(s) + k) - Len(s) = k
  BY <1>1
<1>5. \A k \in 1 .. Len(s) : (s \o t)[k] = s[k]
  BY <1>2, <1>3
<1>6. \A k \in 1 .. Len(t) : (s \o t)[Len(s) + k] = t[k]
  BY <1>2, <1>4
<1> QED BY <1>2, <1>5, <1>6

\* Sequences that hold the same at every place are the same.
LEMMA SameSeq ==
  ASSUME NEW S, NEW s \in Seq(S), NEW t \in Seq(S), Len(s) = Len(t),
         \A k \in 1 .. Len(s) : s[k] = t[k]
  PROVE  s = t
BY SeqEqual

\* A delimiter is the same in a text that goes on, and in what is left of one.
LEMMA DelimiterInPrefix ==
  ASSUME NEW S, NEW t \in Seq(S), NEW c \in Seq(S), NEW i \in 1 .. Len(t), NEW j \in i .. Len(t)
  PROVE  DelimiterAt(t \o c, i, j) <=> DelimiterAt(t, i, j)
<1>1. Len(t) \in Nat /\ \A k \in 1 .. Len(t) : (t \o c)[k] = t[k]
  BY Cat, LenProperties
<1>2. (t \o c)[i] = t[i] /\ (t \o c)[j] = t[j]
  BY <1>1
<1>3. j = i + 2 => (t \o c)[i + 1] = t[i + 1]
  BY <1>1
<1>4. j = i + 3 => (t \o c)[i + 1] = t[i + 1] /\ (t \o c)[i + 2] = t[i + 2]
  BY <1>1
<1> QED BY <1>2, <1>3, <1>4 DEF DelimiterAt

\* A delimiter in the rest of a text (buffer.slice) is one of the text, as far behind.
LEMMA DelimiterInRest ==
  ASSUME NEW S, NEW t \in Seq(S), NEW e \in 0 .. Len(t),
         NEW i \in 1 .. (Len(t) - e), NEW j \in i .. (Len(t) - e)
  PROVE  DelimiterAt(SubSeq(t, e + 1, Len(t)), i, j) <=> DelimiterAt(t, e + i, e + j)
<1> DEFINE u == SubSeq(t, e + 1, Len(t))
<1>1. Len(t) \in Nat /\ e \in Nat /\ e <= Len(t)
  BY LenProperties
<1>2. \A k \in 1 .. (Len(t) - e) : u[k] = t[e + k]
  <2>1. e + 1 \in 1 .. (Len(t) + 1) /\ Len(t) \in ((e + 1) - 1) .. Len(t)
    BY <1>1
  <2>2. (Len(t) - (e + 1)) + 1 = Len(t) - e /\ (e + 1) - 1 = e
    BY <1>1
  <2> QED BY <2>1, <2>2, Part
<1> HIDE DEF u
<1>3. u[i] = t[e + i] /\ u[j] = t[e + j] /\ (j = i + 1 <=> e + j = (e + i) + 1)
      /\ (j = i + 2 <=> e + j = (e + i) + 2) /\ (j = i + 3 <=> e + j = (e + i) + 3)
  BY <1>1, <1>2
<1>4. ASSUME j = i + 2 PROVE u[i + 1] = t[(e + i) + 1]
  <2>1. i + 1 \in 1 .. (Len(t) - e) /\ e + (i + 1) = (e + i) + 1
    BY <1>1, <1>4
  <2> QED BY <1>2, <2>1
<1>5. ASSUME j = i + 3 PROVE u[i + 1] = t[(e + i) + 1] /\ u[i + 2] = t[(e + i) + 2]
  <2> DEFINE n == Len(t) - e
  <2>1. n \in Nat
    BY <1>1
  <2>2. i \in 1 .. n /\ j \in i .. n
    OBVIOUS
  <2>2a. \A k \in 1 .. n : u[k] = t[e + k]
    BY <1>2, Zenon
  <2> HIDE DEF n
  <2>3. i + 1 \in 1 .. n /\ i + 2 \in 1 .. n
    BY <1>5, <2>1, <2>2
  <2>4. e + (i + 1) = (e + i) + 1 /\ e + (i + 2) = (e + i) + 2
    BY <1>1, <2>1, <2>2
  <2> QED BY <2>2a, <2>3, <2>4
<1>6. DelimiterAt(u, i, j) <=> DelimiterAt(t, e + i, e + j)
  BY <1>3, <1>4, <1>5 DEF DelimiterAt
<1> QED BY <1>6 DEF u

\* The first boundary stays where it is when more of the text arrives.
LEMMA BoundaryExtended ==
  ASSUME NEW S, NEW t \in Seq(S), NEW c \in Seq(S), Boundary(t) # 0
  PROVE  /\ Boundary(t \o c) = Boundary(t)
         /\ BoundaryEnd(t \o c, Boundary(t)) = BoundaryEnd(t, Boundary(t))
<1> DEFINE i == Boundary(t)
           x == t \o c
           k == Boundary(x)
<1>1. x \in Seq(S) /\ Len(x) = Len(t) + Len(c) /\ Len(t) \in Nat /\ Len(c) \in Nat
  BY Cat, LenProperties
<1>2. PICK j \in i .. Len(t) :
        /\ BoundaryEnd(t, i) = j /\ DelimiterAt(t, i, j)
        /\ \A h \in 1 .. (i - 1) : \A m \in h .. Len(t) : ~DelimiterAt(t, h, m)
  BY BoundaryIs
<1>3. i \in 1 .. Len(t) /\ i \in 1 .. Len(x) /\ j \in i .. Len(x)
  <2>1. i \in 0 .. Len(t)
    BY BoundaryIs
  <2> QED BY <1>1, <2>1
<1>4. DelimiterAt(x, i, j)
  BY <1>2, <1>3, DelimiterInPrefix
<1>5. k # 0 /\ k \in 1 .. Len(x)
  <2>1. k \in 0 .. Len(x) /\ k # 0
    BY <1>1, <1>3, <1>4, BoundaryIs
  <2> QED BY <1>1, <2>1
<1>6. PICK l \in k .. Len(x) :
        /\ BoundaryEnd(x, k) = l /\ DelimiterAt(x, k, l)
        /\ \A h \in 1 .. (k - 1) : \A m \in h .. Len(x) : ~DelimiterAt(x, h, m)
  BY <1>1, <1>5, BoundaryIs
<1> HIDE DEF i, x, k
<1>7. k <= i
  <2>1. i \notin 1 .. (k - 1)
    BY <1>3, <1>4, <1>6
  <2> QED BY <1>1, <1>3, <1>5, <2>1
<1>8. ~(j < l)
  BY <1>1, <1>3, <1>4, <1>5, <1>6, <1>7, DelimitersApart
<1>9. k \in 1 .. Len(t) /\ l \in k .. Len(t)
  BY <1>1, <1>3, <1>5, <1>6, <1>7, <1>8
<1>10. DelimiterAt(t, k, l)
  BY <1>6, <1>9, DelimiterInPrefix DEF x
<1>11. k \notin 1 .. (i - 1)
  BY <1>2, <1>9, <1>10
<1>12. k = i
  BY <1>1, <1>3, <1>7, <1>9, <1>11
<1>13. j = l
  BY <1>1, <1>3, <1>4, <1>6, <1>9, <1>12, DelimitersApart
<1> QED BY <1>2, <1>6, <1>12, <1>13 DEF i, x, k

\* Once a boundary is there, what is done for it does not depend on what follows.
LEMMA BlockExtended ==
  ASSUME NEW S, NEW t \in Seq(S), NEW c \in Seq(S), NEW s, Boundary(t) # 0
  PROVE  LET x == ConsumeBlock([buffer |-> t, seen |-> s])
         IN  ConsumeBlock([buffer |-> t \o c, seen |-> s]) = [buffer |-> x.buffer \o c, seen |-> x.seen]
<1> DEFINE i == Boundary(t)
           e == BoundaryEnd(t, i)
           x == t \o c
           n == Len(t)
           m == Len(c)
<1>1. x \in Seq(S) /\ Len(x) = n + m /\ n \in Nat /\ m \in Nat
      /\ (\A k \in 1 .. n : x[k] = t[k]) /\ (\A k \in 1 .. m : x[n + k] = c[k])
  BY Cat, LenProperties
<1>2. i \in 1 .. n /\ e \in i .. n /\ Boundary(x) = i /\ BoundaryEnd(x, i) = e
  <2>1. i \in 0 .. n /\ i # 0 /\ e \in i .. n
    BY BoundaryIs
  <2> QED BY <1>1, <2>1, BoundaryExtended
<1> HIDE DEF i, e, x
<1>3. SubSeq(x, 1, i - 1) = SubSeq(t, 1, i - 1)
  <2>1. i - 1 \in (1 - 1) .. n /\ i - 1 \in (1 - 1) .. Len(x) /\ 1 \in 1 .. (n + 1) /\ 1 \in 1 .. (Len(x) + 1)
    BY <1>1, <1>2
  <2>2. /\ SubSeq(x, 1, i - 1) \in Seq(S) /\ Len(SubSeq(x, 1, i - 1)) = ((i - 1) - 1) + 1
        /\ \A k \in 1 .. (((i - 1) - 1) + 1) : SubSeq(x, 1, i - 1)[k] = x[(1 - 1) + k]
    BY <1>1, <2>1, Part
  <2>3. /\ SubSeq(t, 1, i - 1) \in Seq(S) /\ Len(SubSeq(t, 1, i - 1)) = ((i - 1) - 1) + 1
        /\ \A k \in 1 .. (((i - 1) - 1) + 1) : SubSeq(t, 1, i - 1)[k] = t[(1 - 1) + k]
    BY <2>1, Part
  <2>4. \A k \in 1 .. (((i - 1) - 1) + 1) : x[(1 - 1) + k] = t[(1 - 1) + k]
    BY <1>1, <1>2
  <2> QED BY <2>2, <2>3, <2>4, SameSeq
<1>4. SubSeq(x, e + 1, Len(x)) = SubSeq(t, e + 1, n) \o c
  <2> DEFINE u == SubSeq(t, e + 1, n)
             v == SubSeq(x, e + 1, Len(x))
             d == n - e
  <2>1. e + 1 \in 1 .. (n + 1) /\ n \in ((e + 1) - 1) .. n
        /\ e + 1 \in 1 .. (Len(x) + 1) /\ Len(x) \in ((e + 1) - 1) .. Len(x)
    BY <1>1, <1>2
  <2>2. u \in Seq(S) /\ Len(u) = (n - (e + 1)) + 1
        /\ \A k \in 1 .. ((n - (e + 1)) + 1) : u[k] = t[((e + 1) - 1) + k]
    BY <2>1, Part
  <2>3. v \in Seq(S) /\ Len(v) = (Len(x) - (e + 1)) + 1
        /\ \A k \in 1 .. ((Len(x) - (e + 1)) + 1) : v[k] = x[((e + 1) - 1) + k]
    BY <1>1, <2>1, Part
  <2>4. /\ (n - (e + 1)) + 1 = d /\ (Len(x) - (e + 1)) + 1 = d + m /\ (e + 1) - 1 = e
        /\ d \in Nat
    BY <1>1, <1>2
  <2>5. u \o c \in Seq(S) /\ Len(u \o c) = d + m
        /\ (\A k \in 1 .. d : (u \o c)[k] = u[k])
        /\ (\A k \in 1 .. m : (u \o c)[d + k] = c[k])
    <3>1. u \in Seq(S) /\ Len(u) = d
      BY <2>2, <2>4
    <3>2. Len(c) = m
      OBVIOUS
    <3> HIDE DEF u, d, m, n
    <3>3. u \o c \in Seq(S) /\ Len(u \o c) = Len(u) + Len(c)
      BY <3>1, Cat
    <3>4. \A k \in 1 .. Len(u) : (u \o c)[k] = u[k]
      BY <3>1, Cat
    <3>5. \A k \in 1 .. Len(c) : (u \o c)[Len(u) + k] = c[k]
      BY <3>1, Cat
    <3> QED BY <3>1, <3>2, <3>3, <3>4, <3>5
  <2> HIDE DEF u, v, d
  <2>6. ASSUME NEW k \in 1 .. (d + m) PROVE v[k] = (u \o c)[k]
    <3>1. CASE k <= d
      <4>1. k \in 1 .. d /\ e + k \in 1 .. n
        BY <1>1, <1>2, <2>4, <3>1 DEF d
      <4>2. (u \o c)[k] = t[e + k]
        BY <2>2, <2>4, <2>5, <4>1
      <4>3. v[k] = x[e + k]
        BY <2>3, <2>4
      <4> QED BY <1>1, <4>1, <4>2, <4>3
    <3>2. CASE k > d
      <4> DEFINE h == k - d
      <4>1. h \in 1 .. m /\ d + h = k /\ e + k = n + h
        BY <1>1, <1>2, <2>4, <3>2 DEF d
      <4>2. (u \o c)[k] = c[h]
        BY <2>5, <4>1
      <4>3. v[k] = x[e + k]
        BY <2>3, <2>4
      <4> QED BY <1>1, <4>1, <4>2, <4>3
    <3>3. k <= d \/ k > d
      BY <1>1, <2>4
    <3> QED BY <3>1, <3>2, <3>3
  <2>7. v = u \o c
    BY <2>3, <2>4, <2>5, <2>6, SameSeq
  <2> QED BY <2>7 DEF u, v
<1> QED BY <1>2, <1>3, <1>4 DEF ConsumeBlock, i, e, x

\* f holds what the data lines among the first lines join to.
Joins(lines, f) ==
  f = [n \in 0 .. Len(lines) |->
        IF n = 0 THEN <<>>
        ELSE IF HasField(lines[n]) THEN f[n - 1] \o Tail(lines[n]) \o <<LF>> ELSE f[n - 1]]

\* What data lines join to holds their tokens and line feeds.
LEMMA JoinedDataType ==
  ASSUME NEW T, LF \in T, NEW lines \in Seq(Seq(T))
  PROVE  JoinedData(lines) \in Seq(T)
<1> DEFINE S == Seq(T)
           N == Len(lines)
           next(x, line) == IF HasField(line) THEN x \o Tail(line) \o <<LF>> ELSE x
           g == [p \in S \X (1 .. N) |-> next(p[1], lines[p[2]])]
           a == <<>>
<1>1. N \in Nat /\ \A n \in 1 .. N : lines[n] \in Seq(T)
  BY LenProperties, ElementOfSeq
<1>2. a \in S
  OBVIOUS
<1>3. ASSUME NEW x \in Seq(T), NEW line \in Seq(T) PROVE next(x, line) \in Seq(T)
  <2>1. CASE HasField(line)
    <3>1. line # <<>>
      BY <2>1 DEF HasField
    <3>2. Tail(line) \in Seq(T)
      BY <3>1, HeadTailProperties
    <3>3. <<LF>> \in Seq(T)
      OBVIOUS
    <3>4. x \o Tail(line) \in Seq(T)
      BY <3>2, ConcatProperties
    <3>5. (x \o Tail(line)) \o <<LF>> \in Seq(T)
      BY <3>3, <3>4, ConcatProperties
    <3> QED BY <2>1, <3>5
  <2>2. CASE ~HasField(line)
    BY <2>2
  <2> QED BY <2>1, <2>2
<1> HIDE DEF next
<1>4. g \in [S \X (1 .. N) -> S]
  BY <1>1, <1>3
<1>5. \A x \in S : \A n \in 1 .. N : g[<<x, n>>] = next(x, lines[n])
  OBVIOUS
<1> HIDE DEF g, a, S, N
<1>6. PICK h : Recursion(h, S, N, a, g)
  BY <1>1, <1>2, <1>4, RecursionExists
<1>7. h \in [0 .. N -> S] /\ h[0] = a /\ \A n \in 1 .. N : h[n] = g[<<h[n - 1], n>>]
  BY <1>6 DEF Recursion
<1>8. h = [n \in 0 .. N |-> IF n = 0 THEN a ELSE next(h[n - 1], lines[n])]
  <2>1. \A n \in 0 .. N : n # 0 => n \in 1 .. N /\ n - 1 \in 0 .. N
    BY <1>1
  <2> QED BY <1>5, <1>7, <2>1
<1> DEFINE f == CHOOSE f : Joins(lines, f)
<1>9. Joins(lines, h)
  BY <1>8 DEF Joins, next, a, N
<1>10. Joins(lines, f)
  BY <1>9
<1>11. JoinedData(lines) = f[N]
  BY DEF JoinedData, Joins, N
<1> HIDE DEF f
<1>12. f = [n \in 0 .. N |-> IF n = 0 THEN a ELSE next(f[n - 1], lines[n])]
  BY <1>10 DEF Joins, next, a, N
<1>13. f[0] = a /\ \A n \in 1 .. N : f[n - 1] \in S => f[n] = g[<<f[n - 1], n>>]
  <2>1. 0 \in 0 .. N /\ \A n \in 1 .. N : n \in 0 .. N /\ n # 0
    BY <1>1
  <2>2. f[0] = a /\ \A n \in 1 .. N : f[n] = next(f[n - 1], lines[n])
    BY <2>1, <1>12
  <2> QED BY <2>2, <1>5
<1>14. f[N] \in S
  BY <1>1, <1>2, <1>4, <1>13, RecursionType, N \in 0 .. N
<1> QED BY <1>11, <1>14 DEF S

\* The documents in the data of a block, or in a line of a text, are in it.
LEMMA ParseIs ==
  ASSUME NEW T, NEW text \in Seq(T)
  PROVE  /\ Parse(text) # Null => IsTextOf(text, Parse(text)) /\ Parse(text) \in DocumentsIn(text)
         /\ Parse(text) \in {t.document : t \in T} \cup {Null}
<1>1. \A i \in DOMAIN text : text[i] \in T
  BY LenProperties, ElementOfSeq
<1>2. DocumentsIn(text) \subseteq {t.document : t \in T}
  BY <1>1 DEF DocumentsIn
<1>3. Parse(text) # Null => IsTextOf(text, Parse(text)) /\ Parse(text) \in DocumentsIn(text)
  BY DEF Parse
<1> QED BY <1>2, <1>3

\* The tokens of a text, and the documents of a part of it.
LEMMA TextOfTokens ==
  ASSUME NEW T, NEW text \in Seq(T)
  PROVE  /\ text \in Seq(ToSet(text))
         /\ ToSet(text) \subseteq T
         /\ DocumentsIn(text) = {t.document : t \in ToSet(text)} \ {Null}
<1>1. Len(text) \in Nat /\ DOMAIN text = 1 .. Len(text) /\ \A i \in 1 .. Len(text) : text[i] \in T
  BY LenProperties, ElementOfSeq
<1>2. ToSet(text) \subseteq T /\ DocumentsIn(text) = {t.document : t \in ToSet(text)} \ {Null}
  BY <1>1 DEF ToSet, DocumentsIn
<1>3. text \in [1 .. Len(text) -> ToSet(text)]
  BY <1>1 DEF ToSet
<1>4. text \in Seq(ToSet(text))
  BY <1>1, <1>3, SeqDef
<1> QED BY <1>2, <1>4

\* What inspectEvent is given of a block is a document of the block, or none.
LEMMA ParsedBlock ==
  ASSUME NEW T, NEW block \in Seq(T)
  PROVE  Parse(BlockData(block)) \in DocumentsIn(block) \cup {Null}
<1> DEFINE U == ToSet(block) \cup {LF}
<1>1. block \in Seq(ToSet(block)) /\ DocumentsIn(block) = {t.document : t \in ToSet(block)} \ {Null}
  BY TextOfTokens
<1>2. block \in Seq(U)
  <2>1. Len(block) \in Nat /\ block \in [1 .. Len(block) -> ToSet(block)]
    BY <1>1, LenProperties
  <2>2. block \in [1 .. Len(block) -> U]
    BY <2>1
  <2> HIDE DEF U
  <2> QED BY <2>1, <2>2, SeqDef
<1>3. BlockData(block) \in Seq(U)
  <2>1. LF \in U
    OBVIOUS
  <2> HIDE DEF U
  <2> QED BY <1>2, <2>1, LinesType, JoinedDataType DEF BlockData
<1>4. Parse(BlockData(block)) \in {t.document : t \in U} \cup {Null}
  <2> HIDE DEF U
  <2> QED BY <1>3, ParseIs
<1> QED BY <1>1, <1>4, MarksDiffer

\* What finish() takes from a line of a text is a document of the text, or none.
LEMMA ParsedLine ==
  ASSUME NEW T, NEW text \in Seq(T), NEW n \in DOMAIN Lines(text)
  PROVE  Candidate(Lines(text)[n]) \in DocumentsIn(text) \cup {Null}
<1> DEFINE U == ToSet(text)
           line == Lines(text)[n]
           part == IF HasField(line) THEN Tail(line) ELSE line
<1>1. text \in Seq(U) /\ DocumentsIn(text) = {t.document : t \in U} \ {Null}
  BY TextOfTokens
<1> HIDE DEF U
<1>2. line \in Seq(U)
  BY <1>1, LinesType, LenProperties, ElementOfSeq
<1> HIDE DEF line
<1>3. part \in Seq(U)
  <2>1. HasField(line) => line # <<>>
    BY DEF HasField
  <2> QED BY <1>2, <2>1, HeadTailProperties
<1> HIDE DEF part
<1>4. Parse(part) \in {t.document : t \in U} \cup {Null}
  BY <1>3, ParseIs
<1>5. Candidate(line) = IF part # <<>> /\ Head(part).kind = "head" THEN Parse(part) ELSE Null
  BY DEF Candidate, part
<1> QED BY <1>1, <1>4, <1>5 DEF line

\* The responses that some documents report complete.
Completions(documents) ==
  {CompletedResponse(d).id : d \in {e \in documents : CompletedResponse(e) # Null}}

NullApart == Null \notin Documents \cup Response

\* What is looked at is reported unless it was, or is complete of nothing.
LEMMA InspectIs ==
  ASSUME NullApart, NEW seen \in Seq(STRING), NEW d \in Documents \cup {Null}
  PROVE  /\ Inspect(seen, d) \in Seq(STRING)
         /\ IsInjective(seen) => IsInjective(Inspect(seen, d))
         /\ ToSet(Inspect(seen, d)) = ToSet(seen) \cup Completions({d} \ {Null})
<1> DEFINE c == CompletedResponse(d)
<1>1. Len(seen) \in Nat /\ DOMAIN seen = 1 .. Len(seen)
  BY LenProperties
<1>2. CASE d = Null \/ c = Null
  <2>1. Inspect(seen, d) = seen
    BY <1>2 DEF Inspect
  <2>2. Completions({d} \ {Null}) = {}
    BY <1>2 DEF Completions
  <2> QED BY <2>1, <2>2
<1>3. CASE d # Null /\ c # Null
  <2>1. d \in Documents /\ c \in Response
    <3>1. d \in Documents
      BY <1>3
    <3>2. d.self \in Response \cup {Null} /\ d.response \in Response \cup {Null}
      BY <3>1 DEF Documents
    <3>3. c \in {d.response, d.self, Null}
      BY DEF CompletedResponse
    <3> QED BY <1>3, <3>1, <3>2, <3>3
  <2>2. c.id \in STRING
    BY <2>1 DEF Response
  <2>3. Completions({d} \ {Null}) = {c.id}
    BY <1>3 DEF Completions
  <2> HIDE DEF c
  <2>4. Contains(seen, c.id) <=> c.id \in ToSet(seen)
    BY <1>1 DEF Contains, ToSet
  <2>5. CASE c.id \in ToSet(seen)
    <3>1. Inspect(seen, d) = seen
      BY <2>4, <2>5 DEF Inspect, c
    <3> QED BY <2>3, <2>5, <3>1
  <2>6. CASE c.id \notin ToSet(seen)
    <3> DEFINE s == Append(seen, c.id)
    <3>1. Inspect(seen, d) = s
      BY <1>3, <2>4, <2>6 DEF Inspect, c
    <3>2. s \in Seq(STRING) /\ Len(s) = Len(seen) + 1 /\ s[Len(seen) + 1] = c.id
          /\ \A i \in 1 .. Len(seen) : s[i] = seen[i]
      BY <2>2, AppendProperties
    <3> HIDE DEF s
    <3>3. DOMAIN s = 1 .. (Len(seen) + 1)
      BY <3>2, LenProperties
    <3>4. \A i \in 1 .. (Len(seen) + 1) : i \in 1 .. Len(seen) \/ i = Len(seen) + 1
      BY <1>1
    <3>5. ToSet(s) = ToSet(seen) \cup {c.id}
      <4>1. \A i \in 1 .. Len(seen) : i \in 1 .. (Len(seen) + 1)
        BY <1>1
      <4>2. Len(seen) + 1 \in 1 .. (Len(seen) + 1)
        BY <1>1
      <4> QED BY <1>1, <3>2, <3>3, <3>4, <4>1, <4>2 DEF ToSet
    <3>6. ASSUME IsInjective(seen) PROVE IsInjective(s)
      <4>1. \A i \in 1 .. Len(seen) : seen[i] # c.id
        BY <1>1, <2>6 DEF ToSet
      <4>2. \A i, j \in 1 .. Len(seen) : seen[i] = seen[j] => i = j
        BY <1>1, <3>6 DEF IsInjective
      <4>3. \A i, j \in 1 .. (Len(seen) + 1) : s[i] = s[j] => i = j
        BY <3>2, <3>4, <4>1, <4>2
      <4> QED BY <3>3, <4>3 DEF IsInjective
    <3> QED BY <2>3, <3>1, <3>2, <3>5, <3>6
  <2> QED BY <2>5, <2>6
<1> QED BY <1>2, <1>3

\* The documents of tokens are documents.
LEMMA DocumentsOfTokens ==
  ASSUME NEW text \in Seq(Token)
  PROVE  DocumentsIn(text) \subseteq Documents
<1>1. \A t \in Token : t.document \in Documents \cup {Null}
  BY DEF Token, LF, CR, DataField, EventField, Mark
<1>2. DocumentsIn(text) \subseteq {t.document : t \in Token} \ {Null}
  BY TextOfTokens
<1> QED BY <1>1, <1>2

ReadState == [buffer : Seq(Token), seen : Seq(STRING)]

\* A turn that finds no boundary changes nothing; one that finds one looks at the block
\* before it and leaves what is after it.
LEMMA BlockStep ==
  ASSUME NullApart, NEW x \in ReadState
  PROVE  /\ ConsumeBlock(x) \in ReadState
         /\ Boundary(x.buffer) = 0 => ConsumeBlock(x) = x
         /\ Boundary(x.buffer) # 0 => Len(ConsumeBlock(x).buffer) < Len(x.buffer)
<1> DEFINE t == x.buffer
           i == Boundary(t)
           e == BoundaryEnd(t, i)
<1>1. t \in Seq(Token) /\ x.seen \in Seq(STRING) /\ Len(t) \in Nat
  BY LenProperties DEF ReadState
<1>2. CASE i = 0
  BY <1>2 DEF ConsumeBlock
<1>3. CASE i # 0
  <2>1. i \in 0 .. Len(t) /\ e \in i .. Len(t)
    BY <1>1, <1>3, BoundaryIs
  <2>2. ConsumeBlock(x) = [buffer |-> SubSeq(t, e + 1, Len(t)),
                           seen |-> Inspect(x.seen, Parse(BlockData(SubSeq(t, 1, i - 1))))]
    BY <1>3 DEF ConsumeBlock
  <2> HIDE DEF i, e, t
  <2>3. e + 1 \in 1 .. (Len(t) + 1) /\ Len(t) \in ((e + 1) - 1) .. Len(t)
        /\ 1 \in 1 .. (Len(t) + 1) /\ i - 1 \in (1 - 1) .. Len(t)
    BY <1>1, <1>3, <2>1
  <2>4. SubSeq(t, e + 1, Len(t)) \in Seq(Token) /\ Len(SubSeq(t, e + 1, Len(t))) = (Len(t) - (e + 1)) + 1
    BY <1>1, <2>3, Part
  <2>5. SubSeq(t, 1, i - 1) \in Seq(Token)
    BY <1>1, <2>3, Part
  <2>6. Parse(BlockData(SubSeq(t, 1, i - 1))) \in Documents \cup {Null}
    BY <2>5, ParsedBlock, DocumentsOfTokens
  <2>7. Inspect(x.seen, Parse(BlockData(SubSeq(t, 1, i - 1)))) \in Seq(STRING)
    BY <1>1, <2>6, InspectIs
  <2>8. (Len(t) - (e + 1)) + 1 < Len(t)
    BY <1>1, <1>3, <2>1
  <2> QED BY <1>1, <1>3, <2>2, <2>4, <2>7, <2>8 DEF ReadState, i, t
<1> QED BY <1>2, <1>3

\* f holds the states after the first turns of a loop that begins in x.
Turns(f, N, x) == f = [n \in 0 .. N |-> IF n = 0 THEN x ELSE ConsumeBlock(f[n - 1])]

\* The loop of consume can be followed for any number of turns.
LEMMA TurnsExist ==
  ASSUME NullApart, NEW x \in ReadState, NEW N \in Nat
  PROVE  \E f : Turns(f, N, x)
<1> DEFINE g == [p \in ReadState \X (1 .. N) |-> ConsumeBlock(p[1])]
<1>1. g \in [ReadState \X (1 .. N) -> ReadState]
  BY BlockStep
<1>2. \A y \in ReadState : \A n \in 1 .. N : g[<<y, n>>] = ConsumeBlock(y)
  OBVIOUS
<1> HIDE DEF g
<1>3. PICK h : Recursion(h, ReadState, N, x, g)
  BY <1>1, RecursionExists
<1>4. h \in [0 .. N -> ReadState] /\ h[0] = x /\ \A n \in 1 .. N : h[n] = g[<<h[n - 1], n>>]
  BY <1>3 DEF Recursion
<1>5. h = [n \in 0 .. N |-> IF n = 0 THEN x ELSE ConsumeBlock(h[n - 1])]
  <2>1. \A n \in 0 .. N : n # 0 => n \in 1 .. N /\ n - 1 \in 0 .. N
    OBVIOUS
  <2> QED BY <1>2, <1>4, <2>1
<1> QED BY <1>5 DEF Turns

\* The turns, one after the other.
LEMMA TurnsStep ==
  ASSUME NEW N \in Nat, NEW x, NEW f, Turns(f, N, x)
  PROVE  f[0] = x /\ \A n \in 0 .. N : n < N => f[n + 1] = ConsumeBlock(f[n])
<1>1. f[0] = x
  BY 0 \in 0 .. N DEF Turns
<1>2. ASSUME NEW n \in 0 .. N, n < N PROVE f[n + 1] = ConsumeBlock(f[n])
  <2>1. n + 1 \in 0 .. N /\ n + 1 # 0 /\ (n + 1) - 1 = n
    BY <1>2
  <2> QED BY <2>1 DEF Turns
<1> QED BY <1>1, <1>2

\* Each turn takes a token of the buffer at least, until no boundary is left.
LEMMA TurnsShrink ==
  ASSUME NullApart, NEW x \in ReadState, NEW N \in Nat, NEW f, Turns(f, N, x)
  PROVE  \A n \in 0 .. N :
           f[n] \in ReadState /\ (Boundary(f[n].buffer) = 0 \/ Len(f[n].buffer) + n <= Len(x.buffer))
<1> DEFINE Good(n) == f[n] \in ReadState
                      /\ (Boundary(f[n].buffer) = 0 \/ Len(f[n].buffer) + n <= Len(x.buffer))
           G == {n \in 0 .. N : Good(n)}
<1>1. f[0] = x /\ \A n \in 0 .. N : n < N => f[n + 1] = ConsumeBlock(f[n])
  BY TurnsStep
<1>2. \A y \in ReadState : Len(y.buffer) \in Nat
  BY LenProperties DEF ReadState
<1>3. Good(0)
  BY <1>1, <1>2
<1>4. ASSUME NEW n \in 0 .. N, Good(n), n < N PROVE Good(n + 1)
  <2>1. f[n + 1] = ConsumeBlock(f[n]) /\ n \in Nat
    BY <1>1, <1>4
  <2>2. f[n + 1] \in ReadState
    BY <1>4, <2>1, BlockStep
  <2>3. CASE Boundary(f[n].buffer) = 0
    <3>1. f[n + 1] = f[n]
      BY <1>4, <2>1, <2>3, BlockStep
    <3> QED BY <2>2, <2>3, <3>1
  <2>4. CASE Boundary(f[n].buffer) # 0
    <3>1. Len(f[n + 1].buffer) < Len(f[n].buffer)
      BY <1>4, <2>1, <2>4, BlockStep
    <3>2. Len(f[n].buffer) + n <= Len(x.buffer)
      BY <1>4, <2>4
    <3>3. Len(f[n + 1].buffer) + (n + 1) <= Len(x.buffer)
      <4>1. /\ Len(f[n + 1].buffer) \in Nat /\ Len(f[n].buffer) \in Nat
            /\ Len(x.buffer) \in Nat /\ n \in Nat
        BY <1>2, <1>4, <2>2
      <4> DEFINE a == Len(f[n + 1].buffer)
                 b == Len(f[n].buffer)
                 c == Len(x.buffer)
      <4>2. a \in Nat /\ b \in Nat /\ c \in Nat /\ n \in Nat /\ a < b /\ b + n <= c
        BY <3>1, <3>2, <4>1
      <4> HIDE DEF a, b, c
      <4>3. a + (n + 1) <= c
        BY <4>2
      <4> QED BY <4>3 DEF a, c
    <3> QED BY <2>2, <3>3
  <2> QED BY <2>3, <2>4
<1> HIDE DEF Good
<1>5. 0 \in G /\ \A n \in 0 .. N : n \in G /\ n < N => n + 1 \in G
  BY <1>3, <1>4
<1> HIDE DEF G
<1>6. \A n \in 0 .. N : n \in G
  BY <1>5, NumbersUpTo
<1> QED BY <1>6 DEF G, Good

\* No boundary is left after as many turns as there are tokens.
LEMMA TurnsEnd ==
  ASSUME NullApart, NEW x \in ReadState, NEW M \in Nat, NEW f, Turns(f, M, x), Len(x.buffer) <= M
  PROVE  f[M] \in ReadState /\ Boundary(f[M].buffer) = 0
<1>1. f[M] \in ReadState /\ (Boundary(f[M].buffer) = 0 \/ Len(f[M].buffer) + M <= Len(x.buffer))
  BY TurnsShrink, M \in 0 .. M
<1>2. f[M].buffer \in Seq(Token) /\ Len(f[M].buffer) \in Nat /\ Len(x.buffer) \in Nat
  BY <1>1, LenProperties DEF ReadState
<1>3. CASE Len(f[M].buffer) + M <= Len(x.buffer)
  <2>1. Len(f[M].buffer) = 0
    BY <1>2, <1>3
  <2>2. Boundary(f[M].buffer) \in 0 .. Len(f[M].buffer)
    BY <1>2, BoundaryIs
  <2> QED BY <1>1, <2>1, <2>2
<1> QED BY <1>1, <1>3

\* Two loops from one state that both go on until no boundary is left end in one state.
LEMMA TurnsAgree ==
  ASSUME NullApart, NEW x \in ReadState, NEW M \in Nat, NEW N \in Nat, NEW f, NEW g,
         Turns(f, M, x), Turns(g, N, x), M <= N, Len(x.buffer) <= M
  PROVE  f[M] = g[N] /\ f[M] \in ReadState /\ Boundary(f[M].buffer) = 0
<1>1. f[0] = x /\ (\A n \in 0 .. M : n < M => f[n + 1] = ConsumeBlock(f[n]))
      /\ g[0] = x /\ (\A n \in 0 .. N : n < N => g[n + 1] = ConsumeBlock(g[n]))
  BY TurnsStep
<1>2. \A n \in 0 .. M : f[n] = g[n]
  <2> DEFINE G == {n \in 0 .. M : f[n] = g[n]}
  <2>1. 0 \in G
    BY <1>1
  <2>2. ASSUME NEW n \in 0 .. M, n \in G, n < M PROVE n + 1 \in G
    <3>1. n \in 0 .. N /\ n < N /\ n + 1 \in 0 .. M
      BY <2>2
    <3> QED BY <1>1, <2>2, <3>1
  <2> HIDE DEF G
  <2>3. \A n \in 0 .. M : n \in G
    BY <2>1, <2>2, NumbersUpTo
  <2> QED BY <2>3 DEF G
<1>3. f[M] \in ReadState /\ Boundary(f[M].buffer) = 0
  BY TurnsEnd
<1>4. \A n \in 0 .. (N - M) : g[M + n] = f[M]
  <2> DEFINE G == {n \in 0 .. (N - M) : g[M + n] = f[M]}
  <2>1. 0 \in G
    <3>1. M + 0 = M /\ M \in 0 .. M /\ 0 \in 0 .. (N - M)
      OBVIOUS
    <3> QED BY <1>2, <3>1
  <2>2. ASSUME NEW n \in 0 .. (N - M), n \in G, n < N - M PROVE n + 1 \in G
    <3>1. M + n \in 0 .. N /\ M + n < N /\ n + 1 \in 0 .. (N - M) /\ M + (n + 1) = (M + n) + 1
      BY <2>2
    <3>2. g[M + (n + 1)] = ConsumeBlock(f[M])
      BY <1>1, <2>2, <3>1
    <3>3. ConsumeBlock(f[M]) = f[M]
      BY <1>3, BlockStep
    <3> QED BY <3>1, <3>2, <3>3
  <2> HIDE DEF G
  <2>3. \A n \in 0 .. (N - M) : n \in G
    BY <2>1, <2>2, NumbersUpTo, N - M \in Nat
  <2> QED BY <2>3 DEF G
<1>5. g[N] = f[M]
  <2>1. N - M \in 0 .. (N - M) /\ M + (N - M) = N
    OBVIOUS
  <2> QED BY <1>4, <2>1
<1> QED BY <1>3, <1>5

\* What consume does is what its turns come to.
LEMMA ConsumeIs ==
  ASSUME NullApart, NEW x \in ReadState
  PROVE  \E f : Turns(f, Len(x.buffer), x) /\ Consume(x.buffer, x.seen) = f[Len(x.buffer)]
<1> DEFINE N == Len(x.buffer)
           f == CHOOSE f : Turns(f, N, x)
<1>1. N \in Nat
  BY LenProperties DEF ReadState
<1>2. Turns(f, N, x)
  BY <1>1, TurnsExist
<1>3. x = [buffer |-> x.buffer, seen |-> x.seen]
  BY DEF ReadState
<1>4. Consume(x.buffer, x.seen) = f[N]
  BY <1>3 DEF Consume, Turns
<1> QED BY <1>2, <1>4

\* Without a boundary nothing is consumed; with one, the first block is, and then the rest.
LEMMA ConsumeUnrolled ==
  ASSUME NullApart, NEW x \in ReadState
  PROVE  /\ Consume(x.buffer, x.seen) \in ReadState
         /\ Boundary(Consume(x.buffer, x.seen).buffer) = 0
         /\ Boundary(x.buffer) = 0 => Consume(x.buffer, x.seen) = x
         /\ Boundary(x.buffer) # 0 =>
              Consume(x.buffer, x.seen) = Consume(ConsumeBlock(x).buffer, ConsumeBlock(x).seen)
<1> DEFINE N == Len(x.buffer)
           y == ConsumeBlock(x)
           M == Len(y.buffer)
<1>1. N \in Nat /\ y \in ReadState /\ M \in Nat
  BY BlockStep, LenProperties DEF ReadState
<1>2. PICK f : Turns(f, N, x) /\ Consume(x.buffer, x.seen) = f[N]
  BY ConsumeIs
<1>3. f[N] \in ReadState /\ Boundary(f[N].buffer) = 0
  <2>1. N <= N /\ Len(x.buffer) <= N /\ Turns(f, N, x)
    BY <1>1, <1>2
  <2> HIDE DEF N
  <2> QED BY <1>1, <2>1, TurnsEnd
<1>4. f[0] = x /\ \A n \in 0 .. N : n < N => f[n + 1] = ConsumeBlock(f[n])
  BY <1>1, <1>2, TurnsStep
<1>5. ASSUME Boundary(x.buffer) = 0 PROVE f[N] = x
  <2>1. y = x
    BY <1>5, BlockStep
  <2> DEFINE G == {n \in 0 .. N : f[n] = x}
  <2>2. 0 \in G /\ \A n \in 0 .. N : n \in G /\ n < N => n + 1 \in G
    BY <1>1, <1>4, <2>1
  <2> HIDE DEF G
  <2>3. \A n \in 0 .. N : n \in G
    BY <1>1, <2>2, NumbersUpTo
  <2> QED BY <1>1, <2>3, N \in 0 .. N DEF G
<1>6. ASSUME Boundary(x.buffer) # 0 PROVE f[N] = Consume(y.buffer, y.seen)
  <2>1. M < N
    BY <1>6, BlockStep
  <2>2. PICK g : Turns(g, M, y) /\ Consume(y.buffer, y.seen) = g[M]
    BY <1>1, ConsumeIs
  <2> DEFINE h == [n \in 0 .. (N - 1) |-> f[n + 1]]
  <2>3. h[0] = y
    BY <1>1, <1>4, <2>1
  <2>4. ASSUME NEW n \in 0 .. (N - 1), n # 0 PROVE h[n] = ConsumeBlock(h[n - 1])
    <3>1. n \in 0 .. N /\ n < N /\ n - 1 \in 0 .. (N - 1) /\ (n - 1) + 1 = n
      BY <1>1, <2>4
    <3> QED BY <1>4, <3>1
  <2>5. Turns(h, N - 1, y)
    <3>1. h = [n \in 0 .. (N - 1) |-> IF n = 0 THEN y ELSE ConsumeBlock(h[n - 1])]
      BY <2>3, <2>4
    <3> QED BY <3>1 DEF Turns
  <2>6. h[N - 1] = f[N]
    BY <1>1, <2>1
  <2> HIDE DEF h, y, M, N
  <2>7. N - 1 \in Nat /\ M <= N - 1 /\ Len(y.buffer) <= M
    BY <1>1, <2>1 DEF M
  <2>8. g[M] = h[N - 1]
    BY <1>1, <2>2, <2>5, <2>7, TurnsAgree
  <2> QED BY <2>2, <2>6, <2>8
<1> QED BY <1>2, <1>3, <1>5, <1>6

\* All states of reading are in a set that those without a boundary are in, and those whose
\* next turn comes to a member.
LEMMA StatesByTurns ==
  ASSUME NullApart, NEW G,
         \A x \in ReadState : Boundary(x.buffer) = 0 => x \in G,
         \A x \in ReadState : Boundary(x.buffer) # 0 /\ ConsumeBlock(x) \in G => x \in G
  PROVE  \A x \in ReadState : x \in G
<1> DEFINE B == {n \in Nat : \E x \in ReadState : Len(x.buffer) = n /\ x \notin G}
<1>1. SUFFICES ASSUME NEW z \in ReadState, z \notin G PROVE FALSE
  OBVIOUS
<1>2. \A x \in ReadState : Len(x.buffer) \in Nat
  BY LenProperties DEF ReadState
<1>3. Len(z.buffer) \in B /\ B \in SUBSET Nat
  BY <1>1, <1>2
<1>4. PICK m \in B : \A j \in B : m <= j
  <2> HIDE DEF B
  <2> QED BY <1>3, LeastNumber
<1>5. PICK x \in ReadState : Len(x.buffer) = m /\ x \notin G
  BY <1>4
<1>6. Boundary(x.buffer) # 0 /\ ConsumeBlock(x) \notin G
  BY <1>5
<1>7. ConsumeBlock(x) \in ReadState /\ Len(ConsumeBlock(x).buffer) < Len(x.buffer)
  BY <1>6, BlockStep
<1>8. Len(ConsumeBlock(x).buffer) \in B
  BY <1>2, <1>6, <1>7
<1> HIDE DEF B
<1> QED BY <1>2, <1>3, <1>4, <1>5, <1>7, <1>8

\* What is consumed in two chunks is what is consumed in one.
LEMMA ConsumeInChunks ==
  ASSUME NullApart, NEW x \in ReadState, NEW c \in Seq(Token)
  PROVE  Consume(x.buffer \o c, x.seen)
         = Consume(Consume(x.buffer, x.seen).buffer \o c, Consume(x.buffer, x.seen).seen)
<1> DEFINE R(y) == Consume(y.buffer, y.seen)
           Same(y) == Consume(y.buffer \o c, y.seen) = Consume(R(y).buffer \o c, R(y).seen)
           G == {y \in ReadState : Same(y)}
<1>1. ASSUME NEW y \in ReadState, Boundary(y.buffer) = 0 PROVE Same(y)
  <2>1. R(y) = y
    BY <1>1, ConsumeUnrolled
  <2> QED BY <2>1
<1>2. ASSUME NEW y \in ReadState, Boundary(y.buffer) # 0, Same(ConsumeBlock(y)) PROVE Same(y)
  <2> DEFINE z == ConsumeBlock(y)
             v == [buffer |-> y.buffer \o c, seen |-> y.seen]
  <2>1. y.buffer \in Seq(Token) /\ y.seen \in Seq(STRING) /\ y = [buffer |-> y.buffer, seen |-> y.seen]
    BY DEF ReadState
  <2>2. R(y) = R(z)
    BY <1>2, ConsumeUnrolled
  <2>3. ConsumeBlock(v) = [buffer |-> z.buffer \o c, seen |-> z.seen]
    <3>1. z = ConsumeBlock([buffer |-> y.buffer, seen |-> y.seen])
      BY <2>1
    <3> HIDE DEF z
    <3> QED BY <1>2, <2>1, <3>1, BlockExtended
  <2>4. v \in ReadState
    BY <2>1, ConcatProperties DEF ReadState
  <2>5. Boundary(v.buffer) # 0
    BY <1>2, <2>1, BoundaryExtended
  <2>6. Consume(v.buffer, v.seen) = Consume(ConsumeBlock(v).buffer, ConsumeBlock(v).seen)
    BY <2>4, <2>5, ConsumeUnrolled
  <2>7. Consume(y.buffer \o c, y.seen) = Consume(z.buffer \o c, z.seen)
    <3>1. v.buffer = y.buffer \o c /\ v.seen = y.seen
      OBVIOUS
    <3>2. ConsumeBlock(v).buffer = z.buffer \o c /\ ConsumeBlock(v).seen = z.seen
      <4> HIDE DEF z, v
      <4> QED BY <2>3
    <3> HIDE DEF z, v
    <3> QED BY <2>6, <3>1, <3>2
  <2>8. Consume(z.buffer \o c, z.seen) = Consume(R(z).buffer \o c, R(z).seen)
    BY <1>2
  <2> HIDE DEF R, z
  <2> QED BY <2>2, <2>7, <2>8 DEF R
<1> HIDE DEF Same
<1>3. \A y \in ReadState : Boundary(y.buffer) = 0 => y \in G
  BY <1>1
<1>4. \A y \in ReadState : Boundary(y.buffer) # 0 /\ ConsumeBlock(y) \in G => y \in G
  BY <1>2
<1> HIDE DEF G
<1>5. x \in G
  BY <1>3, <1>4, StatesByTurns
<1> QED BY <1>5 DEF G, Same

\* What is left of a sequence.
LEMMA Rest ==
  ASSUME NEW S, NEW s \in Seq(S), NEW e \in 0 .. Len(s)
  PROVE  /\ SubSeq(s, e + 1, Len(s)) \in Seq(S)
         /\ Len(SubSeq(s, e + 1, Len(s))) = Len(s) - e
         /\ DOMAIN SubSeq(s, e + 1, Len(s)) = 1 .. (Len(s) - e)
         /\ \A k \in 1 .. (Len(s) - e) : SubSeq(s, e + 1, Len(s))[k] = s[e + k]
<1> DEFINE i == e + 1
           n == Len(s)
           u == SubSeq(s, i, n)
<1>1. n \in Nat /\ i \in 1 .. (n + 1) /\ n \in (i - 1) .. n /\ (n - i) + 1 = n - e /\ i - 1 = e
  BY LenProperties
<1> HIDE DEF i
<1>2. /\ u \in Seq(S) /\ Len(u) = (n - i) + 1 /\ DOMAIN u = 1 .. ((n - i) + 1)
      /\ \A k \in 1 .. ((n - i) + 1) : u[k] = s[(i - 1) + k]
  BY <1>1, Part
<1> HIDE DEF u, n
<1>3. u \in Seq(S) /\ Len(u) = n - e /\ DOMAIN u = 1 .. (n - e) /\ \A k \in 1 .. (n - e) : u[k] = s[e + k]
  BY <1>1, <1>2
<1> QED BY <1>3 DEF u, i, n

\* The documents of a part of a text.
LEMMA DocumentsOfPart ==
  ASSUME NEW S, NEW s \in Seq(S), NEW i \in 1 .. (Len(s) + 1), NEW j \in (i - 1) .. Len(s)
  PROVE  DocumentsIn(SubSeq(s, i, j)) = {s[p].document : p \in i .. j} \ {Null}
<1> DEFINE u == SubSeq(s, i, j)
<1>1. Len(s) \in Nat
  BY LenProperties
<1>2. DOMAIN u = 1 .. ((j - i) + 1) /\ \A k \in 1 .. ((j - i) + 1) : u[k] = s[(i - 1) + k]
  BY Part
<1> HIDE DEF u
<1>3. \A k \in 1 .. ((j - i) + 1) : (i - 1) + k \in i .. j
  BY <1>1
<1>4. \A p \in i .. j : (p - i) + 1 \in 1 .. ((j - i) + 1) /\ (i - 1) + ((p - i) + 1) = p
  BY <1>1
<1>5. \A d : (\E k \in DOMAIN u : d = u[k].document) <=> (\E p \in i .. j : d = s[p].document)
  <2> TAKE d
  <2>1. ASSUME NEW k \in DOMAIN u, d = u[k].document PROVE \E p \in i .. j : d = s[p].document
    BY <1>2, <1>3, <2>1
  <2>2. ASSUME NEW p \in i .. j, d = s[p].document PROVE \E k \in DOMAIN u : d = u[k].document
    <3> DEFINE k == (p - i) + 1
    <3>1. k \in DOMAIN u /\ u[k] = s[p]
      BY <1>2, <1>4
    <3> QED BY <2>2, <3>1
  <2> QED BY <2>1, <2>2
<1>6. DocumentsIn(u) = {s[p].document : p \in i .. j} \ {Null}
  BY <1>5 DEF DocumentsIn
<1> QED BY <1>6 DEF u

\* A part of what is left of a text is a part of the text.
LEMMA PartOfRest ==
  ASSUME NEW S, NEW s \in Seq(S), NEW e \in 0 .. Len(s),
         NEW i \in 1 .. ((Len(s) - e) + 1), NEW j \in (i - 1) .. (Len(s) - e)
  PROVE  SubSeq(SubSeq(s, e + 1, Len(s)), i, j) = SubSeq(s, e + i, e + j)
<1> DEFINE u == SubSeq(s, e + 1, Len(s))
           v == SubSeq(u, i, j)
           w == SubSeq(s, e + i, e + j)
<1>1. Len(s) \in Nat
  BY LenProperties
<1>2. u \in Seq(S) /\ Len(u) = Len(s) - e /\ \A k \in 1 .. (Len(s) - e) : u[k] = s[e + k]
  BY Rest
<1>3. v \in Seq(S) /\ Len(v) = (j - i) + 1
      /\ \A k \in 1 .. ((j - i) + 1) : v[k] = u[(i - 1) + k] /\ (i - 1) + k \in 1 .. Len(u)
  <2> HIDE DEF u
  <2> QED BY <1>2, Part
<1>4. e + i \in 1 .. (Len(s) + 1) /\ e + j \in ((e + i) - 1) .. Len(s)
      /\ ((e + j) - (e + i)) + 1 = (j - i) + 1
  BY <1>1
<1>5. w \in Seq(S) /\ Len(w) = (j - i) + 1
      /\ \A k \in 1 .. ((j - i) + 1) : w[k] = s[((e + i) - 1) + k]
  BY <1>4, Part
<1> HIDE DEF u, v, w
<1>6. \A k \in 1 .. ((j - i) + 1) : v[k] = w[k]
  <2> TAKE k \in 1 .. ((j - i) + 1)
  <2>1. v[k] = u[(i - 1) + k] /\ (i - 1) + k \in 1 .. (Len(s) - e)
    BY <1>2, <1>3
  <2>2. e + ((i - 1) + k) = ((e + i) - 1) + k
    BY <1>1
  <2> QED BY <1>2, <1>5, <2>1, <2>2
<1>7. v = w
  BY <1>3, <1>5, <1>6, SameSeq
<1> QED BY <1>7 DEF u, v, w

\* A block, by its tokens.
LEMMA BlockIs ==
  ASSUME NEW S, NEW t \in Seq(S), NEW i, NEW j
  PROVE  IsBlock(t, i, j)
         <=> /\ i \in 1 .. Len(t) /\ j \in i .. Len(t)
             /\ i = 1 \/ \E h \in 1 .. (i - 1) : DelimiterAt(t, h, i - 1)
             /\ \E k \in j .. Len(t) : DelimiterAt(t, j, k)
             /\ \A h \in i .. (j - 1) : \A k \in h .. Len(t) : ~DelimiterAt(t, h, k)
<1>1. Len(t) \in Nat
  BY LenProperties
<1>2. SUFFICES ASSUME i \in 1 .. Len(t), j \in i .. Len(t)
               PROVE  /\ (\E h \in 1 .. (i - 1) : IsDelimiter(t, h, i - 1))
                         <=> \E h \in 1 .. (i - 1) : DelimiterAt(t, h, i - 1)
                      /\ (\E k \in j .. Len(t) : IsDelimiter(t, j, k))
                         <=> \E k \in j .. Len(t) : DelimiterAt(t, j, k)
                      /\ (\A h \in i .. (j - 1) : \A k \in h .. Len(t) : ~IsDelimiter(t, h, k))
                         <=> \A h \in i .. (j - 1) : \A k \in h .. Len(t) : ~DelimiterAt(t, h, k)
  BY DEF IsBlock
<1>3. \A h \in 1 .. (i - 1) : h \in 1 .. Len(t) /\ i - 1 \in h .. Len(t)
  BY <1>1, <1>2
<1>4. \A h \in 1 .. (i - 1) : IsDelimiter(t, h, i - 1) <=> DelimiterAt(t, h, i - 1)
  BY <1>3, DelimiterIs
<1>5. j \in 1 .. Len(t)
  BY <1>1, <1>2
<1>6. \A k \in j .. Len(t) : IsDelimiter(t, j, k) <=> DelimiterAt(t, j, k)
  BY <1>5, DelimiterIs
<1>7. \A h \in i .. (j - 1) : h \in 1 .. Len(t)
  BY <1>1, <1>2
<1>8. \A h \in i .. (j - 1) : \A k \in h .. Len(t) : IsDelimiter(t, h, k) <=> DelimiterAt(t, h, k)
  BY <1>7, DelimiterIs
<1> QED BY <1>4, <1>6, <1>8

\* Events go on to be events after the first of them.
LEMMA EventsInRest ==
  ASSUME NEW S, NEW t \in Seq(S), NEW i \in 1 .. Len(t), NEW e \in i .. Len(t), DelimiterAt(t, i, e),
         AreEvents(t)
  PROVE  AreEvents(SubSeq(t, e + 1, Len(t)))
<1> DEFINE u == SubSeq(t, e + 1, Len(t))
           M == Len(t) - e
<1>1. Len(t) \in Nat /\ e \in 0 .. Len(t) /\ M \in Nat
  BY LenProperties
<1>2. u \in Seq(S) /\ Len(u) = M /\ DOMAIN u = 1 .. M
  BY <1>1, Rest
<1>3. \A a \in 1 .. M : \A b \in a .. M : DelimiterAt(u, a, b) <=> DelimiterAt(t, e + a, e + b)
  BY <1>1, DelimiterInRest
<1> HIDE DEF u, M
<1>4. ASSUME NEW a \in 1 .. M, NEW b \in 1 .. M, IsBlock(u, a, b)
      PROVE  DocumentsIn(SubSeq(u, a, b - 1)) \subseteq {Parse(BlockData(SubSeq(u, a, b - 1)))}
  <2>1. /\ b \in a .. M
        /\ a = 1 \/ \E h \in 1 .. (a - 1) : DelimiterAt(u, h, a - 1)
        /\ \E k \in b .. M : DelimiterAt(u, b, k)
        /\ \A h \in a .. (b - 1) : \A k \in h .. M : ~DelimiterAt(u, h, k)
    BY <1>2, <1>4, BlockIs
  <2>2. e + a \in 1 .. Len(t) /\ e + b \in (e + a) .. Len(t) /\ e + b \in 1 .. Len(t)
    BY <1>1, <2>1 DEF M
  <2>3. \E h \in 1 .. ((e + a) - 1) : DelimiterAt(t, h, (e + a) - 1)
    <3>1. CASE a = 1
      <4>1. i \in 1 .. ((e + a) - 1) /\ (e + a) - 1 = e
        BY <1>1, <3>1
      <4> QED BY <4>1
    <3>2. CASE a # 1
      <4>1. PICK h \in 1 .. (a - 1) : DelimiterAt(u, h, a - 1)
        BY <2>1, <3>2
      <4>2. h \in 1 .. M /\ a - 1 \in h .. M /\ e + (a - 1) = (e + a) - 1 /\ e + h \in 1 .. ((e + a) - 1)
        BY <1>1
      <4> QED BY <1>3, <4>1, <4>2
    <3> QED BY <3>1, <3>2
  <2>4. \E k \in (e + b) .. Len(t) : DelimiterAt(t, e + b, k)
    <3>1. PICK k \in b .. M : DelimiterAt(u, b, k)
      BY <2>1
    <3>2. e + k \in (e + b) .. Len(t)
      BY <1>1 DEF M
    <3> QED BY <1>3, <3>1, <3>2
  <2>5. ASSUME NEW h \in (e + a) .. ((e + b) - 1), NEW k \in h .. Len(t) PROVE ~DelimiterAt(t, h, k)
    <3>1. h - e \in a .. (b - 1) /\ h - e \in 1 .. M /\ k - e \in (h - e) .. M
          /\ e + (h - e) = h /\ e + (k - e) = k
      BY <1>1 DEF M
    <3> QED BY <1>3, <2>1, <3>1
  <2>6. IsBlock(t, e + a, e + b)
    BY <2>2, <2>3, <2>4, <2>5, BlockIs
  <2>7. DOMAIN t = 1 .. Len(t)
    BY LenProperties
  <2>8. DocumentsIn(SubSeq(t, e + a, (e + b) - 1)) \subseteq {Parse(BlockData(SubSeq(t, e + a, (e + b) - 1)))}
    BY <2>2, <2>6, <2>7 DEF AreEvents
  <2>9. SubSeq(u, a, b - 1) = SubSeq(t, e + a, (e + b) - 1)
    <3>1. a \in 1 .. ((Len(t) - e) + 1) /\ b - 1 \in (a - 1) .. (Len(t) - e) /\ e + (b - 1) = (e + b) - 1
      BY <1>1, <2>1 DEF M
    <3> QED BY <1>1, <3>1, PartOfRest DEF u
  <2> QED BY <2>8, <2>9
<1>5. AreEvents(u)
  BY <1>2, <1>4 DEF AreEvents
<1> QED BY <1>5 DEF u

\* The events of a text that goes on are events.
LEMMA EventsInPrefix ==
  ASSUME NEW S, NEW t \in Seq(S), NEW c \in Seq(S), AreEvents(t \o c)
  PROVE  AreEvents(t)
<1> DEFINE x == t \o c
<1>1. x \in Seq(S) /\ Len(x) = Len(t) + Len(c) /\ Len(t) \in Nat /\ Len(c) \in Nat
      /\ (\A k \in 1 .. Len(t) : x[k] = t[k]) /\ DOMAIN t = 1 .. Len(t) /\ DOMAIN x = 1 .. Len(x)
  BY Cat, LenProperties
<1>2. \A i \in 1 .. Len(t) : \A j \in i .. Len(t) : DelimiterAt(x, i, j) <=> DelimiterAt(t, i, j)
  BY DelimiterInPrefix
<1> HIDE DEF x
<1>3. ASSUME NEW i \in 1 .. Len(t), NEW j \in 1 .. Len(t), IsBlock(t, i, j)
      PROVE  DocumentsIn(SubSeq(t, i, j - 1)) \subseteq {Parse(BlockData(SubSeq(t, i, j - 1)))}
  <2>1. /\ j \in i .. Len(t)
        /\ i = 1 \/ \E h \in 1 .. (i - 1) : DelimiterAt(t, h, i - 1)
        /\ \E k \in j .. Len(t) : DelimiterAt(t, j, k)
        /\ \A h \in i .. (j - 1) : \A k \in h .. Len(t) : ~DelimiterAt(t, h, k)
    BY <1>3, BlockIs
  <2>2. i \in 1 .. Len(x) /\ j \in 1 .. Len(x) /\ j \in i .. Len(x)
    BY <1>1, <2>1
  <2>3. i = 1 \/ \E h \in 1 .. (i - 1) : DelimiterAt(x, h, i - 1)
    <3>1. \A h \in 1 .. (i - 1) : h \in 1 .. Len(t) /\ i - 1 \in h .. Len(t)
      BY <1>1
    <3> QED BY <1>2, <2>1, <3>1
  <2>4. PICK k \in j .. Len(t) : DelimiterAt(t, j, k)
    BY <2>1
  <2>5. k \in j .. Len(x) /\ DelimiterAt(x, j, k)
    BY <1>1, <1>2, <2>4
  <2>6. ASSUME NEW h \in i .. (j - 1), NEW l \in h .. Len(x) PROVE ~DelimiterAt(x, h, l)
    <3>1. CASE l <= k
      <4>1. h \in 1 .. Len(t) /\ l \in h .. Len(t)
        BY <1>1, <3>1
      <4> QED BY <1>2, <2>1, <4>1
    <3>2. CASE k < l
      <4>1. j \in Nat /\ k \in Nat /\ h \in Nat /\ l \in Nat /\ h <= j
        BY <1>1
      <4> QED BY <2>5, <3>2, <4>1, DelimitersApart
    <3> QED BY <1>1, <3>1, <3>2
  <2>7. IsBlock(x, i, j)
    BY <1>1, <2>2, <2>3, <2>5, <2>6, BlockIs
  <2>8. DocumentsIn(SubSeq(x, i, j - 1)) \subseteq {Parse(BlockData(SubSeq(x, i, j - 1)))}
    BY <1>1, <2>2, <2>7 DEF AreEvents, x
  <2>9. SubSeq(x, i, j - 1) = SubSeq(t, i, j - 1)
    <3>1. i \in 1 .. (Len(t) + 1) /\ j - 1 \in (i - 1) .. Len(t)
          /\ i \in 1 .. (Len(x) + 1) /\ j - 1 \in (i - 1) .. Len(x)
      BY <1>1, <2>1
    <3> DEFINE u == SubSeq(t, i, j - 1)
               v == SubSeq(x, i, j - 1)
               m == ((j - 1) - i) + 1
    <3>2. u \in Seq(S) /\ Len(u) = m /\ \A p \in 1 .. m : u[p] = t[(i - 1) + p] /\ (i - 1) + p \in 1 .. Len(t)
      BY <3>1, Part
    <3>3. v \in Seq(S) /\ Len(v) = m /\ \A p \in 1 .. m : v[p] = x[(i - 1) + p]
      BY <1>1, <3>1, Part
    <3> HIDE DEF u, v, m
    <3>4. u = v
      BY <1>1, <3>2, <3>3, SameSeq
    <3> QED BY <3>4 DEF u, v
  <2> QED BY <2>8, <2>9
<1> QED BY <1>1, <1>3 DEF AreEvents

\* The responses complete in one set of documents or another.
LEMMA CompletionsOfUnion ==
  ASSUME NEW D, NEW E
  PROVE  Completions(D \cup E) = Completions(D) \cup Completions(E)
BY DEF Completions

\* More documents hold no fewer complete responses.
LEMMA CompletionsGrow ==
  ASSUME NEW D, NEW E, D \subseteq E
  PROVE  Completions(D) \subseteq Completions(E)
BY DEF Completions

\* The responses complete in a text are those of its documents.
LEMMA CompletionsAre ==
  ASSUME NEW t
  PROVE  CompleteIn(t) = Completions(DocumentsIn(t))
BY DEF Completions, CompleteIn

\* A text with more documents holds no fewer complete responses.
LEMMA CompleteInGrows ==
  ASSUME NEW s, NEW t, DocumentsIn(s) \subseteq DocumentsIn(t)
  PROVE  CompleteIn(s) \subseteq CompleteIn(t)
<1>1. Completions(DocumentsIn(s)) \subseteq Completions(DocumentsIn(t))
  BY CompletionsGrow
<1> QED BY <1>1, CompletionsAre

\* The whole of a sequence is a part of it.
LEMMA WholePart ==
  ASSUME NEW S, NEW s \in Seq(S)
  PROVE  SubSeq(s, 0 + 1, Len(s)) = s /\ SubSeq(s, 1, Len(s)) = s /\ SubSeq(s, 1, 0) = <<>>
<1> DEFINE u == SubSeq(s, 0 + 1, Len(s))
<1>1. Len(s) \in Nat
  BY LenProperties
<1>2. u \in Seq(S) /\ Len(u) = Len(s) - 0 /\ \A k \in 1 .. (Len(s) - 0) : u[k] = s[0 + k]
  BY <1>1, Rest
<1> HIDE DEF u
<1>3. Len(u) = Len(s) /\ \A k \in 1 .. Len(s) : u[k] = s[k]
  <2>1. Len(s) - 0 = Len(s) /\ \A k \in 1 .. Len(s) : 0 + k = k
    BY <1>1
  <2> QED BY <1>2, <2>1
<1>4. u = s
  BY <1>2, <1>3, SameSeq
<1>5. 0 + 1 = 1
  OBVIOUS
<1>6. SubSeq(s, 1, 0) \in Seq(S) /\ Len(SubSeq(s, 1, 0)) = (0 - 1) + 1
  BY <1>1, Part
<1> QED BY <1>4, <1>5, <1>6, EmptySeq DEF u

\* No token of a delimiter is of a document.
LEMMA DelimiterTokens ==
  ASSUME NEW t, NEW i \in Nat, NEW j \in Nat, DelimiterAt(t, i, j), NEW p \in i .. j
  PROVE  t[p] \in {LF, CR}
BY DEF DelimiterAt

\* What is read is the start of the text; each response that is reported was or is complete
\* in the text, once; and of events, all that are complete in what is read are reported.
Read(x, r, k) ==
  /\ r.buffer = SubSeq(x.buffer, k + 1, Len(x.buffer))
  /\ IsInjective(x.seen) => IsInjective(r.seen)
  /\ ToSet(x.seen) \subseteq ToSet(r.seen)
  /\ ToSet(r.seen) \subseteq ToSet(x.seen) \cup CompleteIn(x.buffer)
  /\ AreEvents(x.buffer) => CompleteIn(SubSeq(x.buffer, 1, k)) \subseteq ToSet(r.seen)

\* One turn of the loop of consume reads a block of what is left, as Read says.
LEMMA ReadBlock ==
  ASSUME NullApart, NEW x \in ReadState, Boundary(x.buffer) # 0, NEW r,
         NEW k \in 0 .. Len(ConsumeBlock(x).buffer), Read(ConsumeBlock(x), r, k)
  PROVE  \E l \in 0 .. Len(x.buffer) : Read(x, r, l)
<1> DEFINE t == x.buffer
           i == Boundary(t)
           e == BoundaryEnd(t, i)
           u == SubSeq(t, e + 1, Len(t))
           block == SubSeq(t, 1, i - 1)
           d == Parse(BlockData(block))
           y == ConsumeBlock(x)
<1>1. t \in Seq(Token) /\ x.seen \in Seq(STRING) /\ Len(t) \in Nat /\ DOMAIN t = 1 .. Len(t)
  BY LenProperties DEF ReadState
<1>2. i \in 1 .. Len(t) /\ e \in i .. Len(t) /\ DelimiterAt(t, i, e)
      /\ \A h \in 1 .. (i - 1) : \A m \in h .. Len(t) : ~DelimiterAt(t, h, m)
  <2>1. i \in 0 .. Len(t) /\ i # 0
    BY <1>1, BoundaryIs
  <2>2. i \in 1 .. Len(t)
    BY <1>1, <2>1
  <2> QED BY <1>1, <2>2, BoundaryIs
<1>3. y.buffer = u /\ y.seen = Inspect(x.seen, d)
  BY DEF ConsumeBlock
<1> HIDE DEF i, e, d, y, u, block, t
<1>4. i \in Nat /\ e \in Nat /\ i >= 1 /\ i <= e /\ e <= Len(t) /\ e \in 0 .. Len(t)
  BY <1>1, <1>2
<1>5. u \in Seq(Token) /\ Len(u) = Len(t) - e
  BY <1>1, <1>4, Rest DEF u
<1>6. block \in Seq(Token) /\ DocumentsIn(block) = {t[p].document : p \in 1 .. (i - 1)} \ {Null}
  <2>1. 1 \in 1 .. (Len(t) + 1) /\ i - 1 \in (1 - 1) .. Len(t)
    BY <1>1, <1>4
  <2> QED BY <1>1, <2>1, Part, DocumentsOfPart DEF block
<1>7. d \in DocumentsIn(block) \cup {Null} /\ d \in Documents \cup {Null}
  BY <1>6, ParsedBlock, DocumentsOfTokens DEF d
<1>8. /\ IsInjective(x.seen) => IsInjective(y.seen)
      /\ ToSet(y.seen) = ToSet(x.seen) \cup Completions({d} \ {Null})
  BY <1>1, <1>3, <1>7, InspectIs
<1>9. DocumentsIn(t) = {t[p].document : p \in 1 .. Len(t)} \ {Null}
  BY <1>1 DEF DocumentsIn
<1>10. DocumentsIn(u) = {t[p].document : p \in (e + 1) .. Len(t)} \ {Null}
  <2>1. e + 1 \in 1 .. (Len(t) + 1) /\ Len(t) \in ((e + 1) - 1) .. Len(t)
    BY <1>1, <1>4
  <2> QED BY <1>1, <2>1, DocumentsOfPart DEF u
<1>11. DocumentsIn(u) \subseteq DocumentsIn(t) /\ DocumentsIn(block) \subseteq DocumentsIn(t)
  <2>1. 1 .. (i - 1) \subseteq 1 .. Len(t) /\ (e + 1) .. Len(t) \subseteq 1 .. Len(t)
    BY <1>1, <1>4
  <2> QED BY <1>6, <1>9, <1>10, <2>1
<1>12. k \in 0 .. (Len(t) - e) /\ k \in Nat
  BY <1>3, <1>5 DEF y
<1> DEFINE l == e + k
<1>13. l \in 0 .. Len(t) /\ l \in Nat
  BY <1>1, <1>4, <1>12
<1>14. Read(y, r, k)
  BY DEF y
<1>15. r.buffer = SubSeq(t, l + 1, Len(t))
  <2>1. r.buffer = SubSeq(u, k + 1, Len(u))
    BY <1>3, <1>14 DEF Read
  <2>2. k + 1 \in 1 .. ((Len(t) - e) + 1) /\ Len(u) \in ((k + 1) - 1) .. (Len(t) - e)
        /\ e + (k + 1) = l + 1 /\ e + Len(u) = Len(t)
    BY <1>1, <1>4, <1>5, <1>12
  <2> HIDE DEF l
  <2>3. SubSeq(SubSeq(t, e + 1, Len(t)), k + 1, Len(u)) = SubSeq(t, e + (k + 1), e + Len(u))
    BY <1>1, <1>4, <2>2, PartOfRest
  <2> QED BY <2>1, <2>2, <2>3 DEF u
<1>16. /\ IsInjective(x.seen) => IsInjective(r.seen)
       /\ ToSet(x.seen) \subseteq ToSet(r.seen)
  BY <1>8, <1>14 DEF Read
<1>17. ToSet(r.seen) \subseteq ToSet(x.seen) \cup CompleteIn(t)
  <2>1. ToSet(r.seen) \subseteq ToSet(y.seen) \cup CompleteIn(u)
    BY <1>3, <1>14 DEF Read
  <2>2. {d} \ {Null} \subseteq DocumentsIn(t)
    BY <1>7, <1>11
  <2>3. Completions({d} \ {Null}) \subseteq Completions(DocumentsIn(t))
    BY <2>2, CompletionsGrow
  <2>4. Completions(DocumentsIn(u)) \subseteq Completions(DocumentsIn(t))
    BY <1>11, CompletionsGrow
  <2>5. CompleteIn(t) = Completions(DocumentsIn(t)) /\ CompleteIn(u) = Completions(DocumentsIn(u))
    BY CompletionsAre
  <2> QED BY <1>8, <2>1, <2>3, <2>4, <2>5
<1>18. ASSUME AreEvents(t) PROVE CompleteIn(SubSeq(t, 1, l)) \subseteq ToSet(r.seen)
  <2>1. AreEvents(u)
    BY <1>1, <1>2, <1>18, EventsInRest DEF u
  <2>2. CompleteIn(SubSeq(u, 1, k)) \subseteq ToSet(r.seen)
    BY <1>3, <1>14, <2>1 DEF Read
  <2>3. IsBlock(t, 1, i)
    <3>1. 1 \in 1 .. Len(t) /\ i \in 1 .. Len(t)
      BY <1>1, <1>2
    <3> QED BY <1>1, <1>2, <3>1, BlockIs
  <2>4. DocumentsIn(block) \subseteq {d}
    <3>1. 1 \in DOMAIN t /\ i \in DOMAIN t
      BY <1>1, <1>2
    <3> QED BY <1>18, <2>3, <3>1 DEF AreEvents, block, d
  <2>5. DocumentsIn(block) \subseteq {d} \ {Null}
    BY <2>4 DEF DocumentsIn
  <2>6. Completions(DocumentsIn(block)) \subseteq ToSet(r.seen)
    <3>1. Completions(DocumentsIn(block)) \subseteq Completions({d} \ {Null})
      BY <2>5, CompletionsGrow
    <3>2. ToSet(y.seen) \subseteq ToSet(r.seen)
      BY <1>14 DEF Read
    <3> QED BY <1>8, <3>1, <3>2
  <2>7. SubSeq(u, 1, k) = SubSeq(t, e + 1, l)
    <3>1. 1 \in 1 .. ((Len(t) - e) + 1) /\ k \in (1 - 1) .. (Len(t) - e)
      BY <1>1, <1>4, <1>12
    <3> QED BY <1>1, <1>4, <3>1, PartOfRest DEF u
  <2>8. DocumentsIn(SubSeq(u, 1, k)) = {t[p].document : p \in (e + 1) .. l} \ {Null}
    <3>1. e + 1 \in 1 .. (Len(t) + 1) /\ l \in ((e + 1) - 1) .. Len(t)
      BY <1>1, <1>4, <1>12
    <3> HIDE DEF l
    <3> QED BY <1>1, <2>7, <3>1, DocumentsOfPart
  <2>9. DocumentsIn(SubSeq(t, 1, l)) = {t[p].document : p \in 1 .. l} \ {Null}
    <3>1. 1 \in 1 .. (Len(t) + 1) /\ l \in (1 - 1) .. Len(t)
      BY <1>1, <1>13
    <3> HIDE DEF l
    <3> QED BY <1>1, <3>1, DocumentsOfPart
  <2>10. \A p \in 1 .. l : p \in 1 .. (i - 1) \/ p \in i .. e \/ p \in (e + 1) .. l
    BY <1>4, <1>12
  <2>11. \A p \in i .. e : t[p].document = Null
    BY <1>2, <1>4, DelimiterTokens, MarksDiffer
  <2>12. DocumentsIn(SubSeq(t, 1, l)) \subseteq DocumentsIn(block) \cup DocumentsIn(SubSeq(u, 1, k))
    <3> HIDE DEF l
    <3> QED BY <1>6, <2>8, <2>9, <2>10, <2>11
  <2>13. CompleteIn(SubSeq(t, 1, l)) \subseteq Completions(DocumentsIn(block)) \cup CompleteIn(SubSeq(u, 1, k))
    <3> DEFINE A == DocumentsIn(SubSeq(t, 1, l))
               D == DocumentsIn(block)
               E == DocumentsIn(SubSeq(u, 1, k))
    <3>1. CompleteIn(SubSeq(t, 1, l)) = Completions(A) /\ CompleteIn(SubSeq(u, 1, k)) = Completions(E)
      BY CompletionsAre
    <3>2. A \subseteq D \cup E
      BY <2>12
    <3> HIDE DEF A, D, E
    <3>3. Completions(A) \subseteq Completions(D \cup E)
      BY <3>2, CompletionsGrow
    <3>4. Completions(D \cup E) = Completions(D) \cup Completions(E)
      BY CompletionsOfUnion
    <3> QED BY <3>1, <3>3, <3>4 DEF D
  <2> QED BY <2>2, <2>6, <2>13
<1>19. Read(x, r, l)
  <2> HIDE DEF l
  <2> QED BY <1>15, <1>16, <1>17, <1>18 DEF Read, t
<1> QED BY <1>13, <1>19 DEF t

\* So does the whole loop: consume reads the start of a text, as Read says.
LEMMA ConsumedPart ==
  ASSUME NullApart, NEW x \in ReadState
  PROVE  \E k \in 0 .. Len(x.buffer) : Read(x, Consume(x.buffer, x.seen), k)
<1> DEFINE R(y) == Consume(y.buffer, y.seen)
           G == {y \in ReadState : \E k \in 0 .. Len(y.buffer) : Read(y, R(y), k)}
<1>1. ASSUME NEW y \in ReadState, Boundary(y.buffer) = 0 PROVE y \in G
  <2>1. R(y) = y
    BY <1>1, ConsumeUnrolled
  <2>2. y.buffer \in Seq(Token) /\ Len(y.buffer) \in Nat
    BY LenProperties DEF ReadState
  <2>3. SubSeq(y.buffer, 0 + 1, Len(y.buffer)) = y.buffer /\ SubSeq(y.buffer, 1, 0) = <<>>
    BY <2>2, WholePart
  <2>4. CompleteIn(<<>>) = {}
    BY DEF CompleteIn, DocumentsIn
  <2>5. Read(y, y, 0)
    BY <2>3, <2>4 DEF Read
  <2>6. 0 \in 0 .. Len(y.buffer)
    BY <2>2
  <2> HIDE DEF R
  <2> QED BY <2>1, <2>5, <2>6
<1>2. ASSUME NEW y \in ReadState, Boundary(y.buffer) # 0, ConsumeBlock(y) \in G PROVE y \in G
  <2>1. R(y) = R(ConsumeBlock(y))
    BY <1>2, ConsumeUnrolled
  <2> HIDE DEF R
  <2>2. PICK k \in 0 .. Len(ConsumeBlock(y).buffer) : Read(ConsumeBlock(y), R(y), k)
    BY <1>2, <2>1
  <2> QED BY <1>2, <2>2, ReadBlock
<1> HIDE DEF G
<1>3. x \in G
  BY <1>1, <1>2, StatesByTurns
<1> QED BY <1>3 DEF G

\* f holds what is reported after the first lines.
Looks(lines, seen, f) ==
  f = [n \in 0 .. Len(lines) |-> IF n = 0 THEN seen ELSE Inspect(f[n - 1], Candidate(lines[n]))]

\* Of lines, each that is a document is looked at.
LEMMA InspectLinesIs ==
  ASSUME NullApart, NEW seen \in Seq(STRING), NEW lines, Len(lines) \in Nat,
         \A n \in 1 .. Len(lines) : Candidate(lines[n]) \in Documents \cup {Null}
  PROVE  LET r == InspectLines(lines, seen)
         IN  /\ r \in Seq(STRING)
             /\ IsInjective(seen) => IsInjective(r)
             /\ ToSet(r) = ToSet(seen)
                  \cup Completions({Candidate(lines[n]) : n \in 1 .. Len(lines)} \ {Null})
<1> DEFINE S == Seq(STRING)
           N == Len(lines)
           g == [p \in S \X (1 .. N) |-> Inspect(p[1], Candidate(lines[p[2]]))]
           C(n) == {Candidate(lines[m]) : m \in 1 .. n} \ {Null}
<1>1. N \in Nat
  OBVIOUS
<1>2. g \in [S \X (1 .. N) -> S]
  BY InspectIs
<1>3. \A x \in S : \A n \in 1 .. N : g[<<x, n>>] = Inspect(x, Candidate(lines[n]))
  OBVIOUS
<1> HIDE DEF g, N
<1>4. PICK h : Recursion(h, S, N, seen, g)
  <2> HIDE DEF S
  <2>1. seen \in S
    BY DEF S
  <2> QED BY <1>1, <1>2, <2>1, RecursionExists
<1>5. h \in [0 .. N -> S] /\ h[0] = seen /\ \A n \in 1 .. N : h[n] = g[<<h[n - 1], n>>]
  BY <1>4 DEF Recursion
<1>6. h = [n \in 0 .. N |-> IF n = 0 THEN seen ELSE Inspect(h[n - 1], Candidate(lines[n]))]
  <2>1. \A n \in 0 .. N : n # 0 => n \in 1 .. N /\ n - 1 \in 0 .. N
    BY <1>1
  <2> QED BY <1>3, <1>5, <2>1
<1> DEFINE f == CHOOSE f : Looks(lines, seen, f)
<1>7. Looks(lines, seen, h)
  BY <1>6 DEF Looks, N
<1>8. Looks(lines, seen, f)
  BY <1>7
<1>9. InspectLines(lines, seen) = f[N]
  BY DEF InspectLines, Looks, N
<1> HIDE DEF f
<1>10. f[0] = seen /\ \A n \in 0 .. N : n < N => f[n + 1] = Inspect(f[n], Candidate(lines[n + 1]))
  <2>1. f = [n \in 0 .. N |-> IF n = 0 THEN seen ELSE Inspect(f[n - 1], Candidate(lines[n]))]
    BY <1>8 DEF Looks, N
  <2>2. f[0] = seen
    BY <1>1, <2>1, 0 \in 0 .. N
  <2>3. ASSUME NEW n \in 0 .. N, n < N PROVE f[n + 1] = Inspect(f[n], Candidate(lines[n + 1]))
    <3>1. n + 1 \in 0 .. N /\ n + 1 # 0 /\ (n + 1) - 1 = n
      BY <1>1, <2>3
    <3> QED BY <2>1, <3>1
  <2> QED BY <2>2, <2>3
<1> DEFINE Good(n) == /\ f[n] \in S
                      /\ IsInjective(seen) => IsInjective(f[n])
                      /\ ToSet(f[n]) = ToSet(seen) \cup Completions(C(n))
           G == {n \in 0 .. N : Good(n)}
<1>11. 0 \in G
  <2>1. C(0) = {}
    OBVIOUS
  <2>2. Completions({}) = {}
    BY DEF Completions
  <2>3. Good(0)
    BY <1>10, <2>1, <2>2
  <2> HIDE DEF Good
  <2> QED BY <1>1, <2>3
<1>12. ASSUME NEW n \in 0 .. N, n \in G, n < N PROVE n + 1 \in G
  <2> DEFINE c == Candidate(lines[n + 1])
  <2>1. n + 1 \in 1 .. N /\ n + 1 \in 0 .. N
    BY <1>1, <1>12
  <2>2. c \in Documents \cup {Null}
    BY <2>1 DEF N
  <2>3. f[n + 1] = Inspect(f[n], c)
    BY <1>10, <1>12
  <2>4. C(n + 1) = C(n) \cup ({c} \ {Null})
    <3>1. \A m \in 1 .. (n + 1) : m \in 1 .. n \/ m = n + 1
      BY <1>1
    <3>2. \A m \in 1 .. n : m \in 1 .. (n + 1)
      BY <1>1
    <3>3. n + 1 \in 1 .. (n + 1)
      BY <1>1
    <3> QED BY <3>1, <3>2, <3>3
  <2>5. Good(n)
    BY <1>12
  <2> HIDE DEF c, C
  <2>6. Completions(C(n + 1)) = Completions(C(n)) \cup Completions({c} \ {Null})
    <3>1. Completions(C(n) \cup ({c} \ {Null})) = Completions(C(n)) \cup Completions({c} \ {Null})
      BY CompletionsOfUnion
    <3> QED BY <2>4, <3>1
  <2>7. /\ f[n + 1] \in S
        /\ IsInjective(f[n]) => IsInjective(f[n + 1])
        /\ ToSet(f[n + 1]) = ToSet(f[n]) \cup Completions({c} \ {Null})
    BY <2>2, <2>3, <2>5, InspectIs
  <2>8. Good(n + 1)
    BY <2>5, <2>6, <2>7
  <2> HIDE DEF Good
  <2> QED BY <2>1, <2>8
<1> HIDE DEF G
<1>13. N \in G
  BY <1>1, <1>11, <1>12, NumbersUpTo, N \in 0 .. N
<1> QED BY <1>9, <1>13 DEF G, N

\* A document is the only one in its text.
LEMMA DocumentText ==
  ASSUME NEW T, NEW text \in Seq(T), IsDocument(text)
  PROVE  /\ DocumentsIn(text) \subseteq {Parse(text)}
         /\ \A i \in DOMAIN text : text[i] # DataField
<1> DEFINE d == Parse(text)
<1>1. PICK i, j \in DOMAIN text :
        /\ text[i] = Head1(d) /\ text[j] = Tail1(d)
        /\ \A k \in DOMAIN text \ {i, j} : text[k] \in {LF, CR}
  BY ParseIs DEF IsDocument, IsTextOf
<1> HIDE DEF d
<1>2. \A k \in DOMAIN text : text[k] \in {Head1(d), Tail1(d), LF, CR}
  BY <1>1
<1>3. \A k \in DOMAIN text : text[k].document \in {d, Null}
  BY <1>2, MarksDiffer
<1>4. \A k \in DOMAIN text : text[k].kind \in {"head", "tail", "lf", "cr"}
  BY <1>2, MarksDiffer
<1>5. DataField.kind = "data"
  BY MarksDiffer
<1>6. \A k \in DOMAIN text : text[k] # DataField
  BY <1>4, <1>5
<1> QED BY <1>3, <1>6 DEF DocumentsIn, d

\* The last look reports what is in the text, and all of it when it is one document or
\* some line by line.
LEMMA InspectRawIs ==
  ASSUME NullApart, NEW text \in Seq(Token), NEW seen \in Seq(STRING)
  PROVE  LET r == InspectRaw(text, seen)
         IN  /\ r \in Seq(STRING)
             /\ IsInjective(seen) => IsInjective(r)
             /\ ToSet(seen) \subseteq ToSet(r)
             /\ ToSet(r) \subseteq ToSet(seen) \cup CompleteIn(text)
             /\ IsDocument(text) \/ AreDocumentLines(text) => CompleteIn(text) \subseteq ToSet(r)
<1> DEFINE r == InspectRaw(text, seen)
           d == Parse(text)
           lines == Lines(text)
<1>1. CompleteIn(text) = Completions(DocumentsIn(text))
  BY CompletionsAre
<1>2. DocumentsIn(text) \subseteq Documents
  BY DocumentsOfTokens
<1>3. CASE d # Null
  <2>1. r = Inspect(seen, d)
    BY <1>3 DEF InspectRaw
  <2>2. d \in DocumentsIn(text)
    BY <1>3, ParseIs
  <2>3. DocumentsIn(text) = {d}
    BY <1>3, <2>2, DocumentText DEF IsDocument
  <2> HIDE DEF d, r
  <2>4. /\ r \in Seq(STRING)
        /\ IsInjective(seen) => IsInjective(r)
        /\ ToSet(r) = ToSet(seen) \cup Completions({d} \ {Null})
    BY <1>2, <2>1, <2>2, InspectIs
  <2>5. {d} \ {Null} = DocumentsIn(text)
    BY <1>3, <2>3
  <2> QED BY <1>1, <2>4, <2>5 DEF r
<1>4. CASE d = Null
  <2>1. r = InspectLines(lines, seen)
    BY <1>4 DEF InspectRaw
  <2>2. lines \in Seq(Seq(Token))
    BY LinesType
  <2>3. Len(lines) \in Nat /\ DOMAIN lines = 1 .. Len(lines)
    BY <2>2, LenProperties
  <2>4. \A n \in DOMAIN lines : Candidate(lines[n]) \in DocumentsIn(text) \cup {Null}
    BY ParsedLine
  <2> DEFINE C == {Candidate(lines[n]) : n \in 1 .. Len(lines)} \ {Null}
  <2>5. C \subseteq DocumentsIn(text)
    BY <2>3, <2>4
  <2>6. \A n \in 1 .. Len(lines) : Candidate(lines[n]) \in Documents \cup {Null}
    BY <1>2, <2>3, <2>4
  <2>7. AreDocumentLines(text) => DocumentsIn(text) \subseteq C
    BY <2>3 DEF AreDocumentLines, DocumentsIn
  <2>8. ~IsDocument(text)
    BY <1>4 DEF IsDocument
  <2> HIDE DEF lines, r
  <2>9. /\ r \in Seq(STRING)
        /\ IsInjective(seen) => IsInjective(r)
        /\ ToSet(r) = ToSet(seen) \cup Completions(C)
    BY <2>1, <2>3, <2>6, InspectLinesIs
  <2> HIDE DEF C
  <2>10. Completions(C) \subseteq CompleteIn(text)
    BY <1>1, <2>5, CompletionsGrow
  <2>11. AreDocumentLines(text) => CompleteIn(text) \subseteq Completions(C)
    BY <1>1, <2>7, CompletionsGrow
  <2> QED BY <2>8, <2>9, <2>10, <2>11 DEF r
<1> QED BY <1>3, <1>4

\* At the end of a body of events, all of it is read.
LEMMA ReadToTheEnd ==
  ASSUME NullApart, NEW b \in Seq(Token)
  PROVE  LET r == Consume(b \o <<LF, LF>>, <<>>)
         IN  /\ r \in ReadState
             /\ IsInjective(r.seen)
             /\ ToSet(r.seen) \subseteq CompleteIn(b)
             /\ IsEventStream(b) => CompleteIn(b) \subseteq ToSet(r.seen)
<1> DEFINE end == <<LF, LF>>
           t == b \o end
           x == [buffer |-> t, seen |-> <<>>]
           r == Consume(t, <<>>)
<1>1. LF \in Token
  BY DEF Token
<1>2. end \in Seq(Token) /\ Len(end) = 2 /\ end[1] = LF /\ end[2] = LF
  BY <1>1
<1> HIDE DEF end
<1>3. t \in Seq(Token) /\ Len(t) = Len(b) + 2 /\ Len(b) \in Nat
      /\ (\A k \in 1 .. Len(b) : t[k] = b[k]) /\ (\A k \in 1 .. 2 : t[Len(b) + k] = end[k])
      /\ DOMAIN t = 1 .. Len(t) /\ DOMAIN b = 1 .. Len(b)
  <2>0. end \in Seq(Token)
    BY <1>2
  <2>1. t \in Seq(Token) /\ Len(t) = Len(b) + Len(end)
    BY <2>0, Cat
  <2>2. \A k \in 1 .. Len(b) : t[k] = b[k]
    BY <2>0, Cat
  <2>3. \A k \in 1 .. Len(end) : t[Len(b) + k] = end[k]
    BY <2>0, Cat
  <2> HIDE DEF t
  <2>4. Len(b) \in Nat /\ DOMAIN t = 1 .. Len(t) /\ DOMAIN b = 1 .. Len(b)
    BY <2>1, LenProperties
  <2> QED BY <1>2, <2>1, <2>2, <2>3, <2>4
<1> HIDE DEF t
<1>4. x \in ReadState
  BY <1>3 DEF ReadState
<1>5. x.buffer = t /\ x.seen = <<>>
  OBVIOUS
<1> HIDE DEF x
<1>6. Consume(x.buffer, x.seen) = r
  BY <1>5
<1> HIDE DEF r
<1>7. PICK k \in 0 .. Len(t) : Read(x, r, k)
  BY <1>4, <1>5, <1>6, ConsumedPart
<1>8. r \in ReadState /\ Boundary(r.buffer) = 0
  BY <1>4, <1>6, ConsumeUnrolled
<1>9. IsInjective(<<>>) /\ ToSet(<<>>) = {}
  BY DEF IsInjective, ToSet
<1>10. DocumentsIn(t) = DocumentsIn(b)
  <2>1. \A p \in DOMAIN t : (p \in DOMAIN b /\ t[p] = b[p]) \/ t[p] = LF
    <3> TAKE p \in DOMAIN t
    <3>1. p \in 1 .. Len(b) \/ p = Len(b) + 1 \/ p = Len(b) + 2
      BY <1>3
    <3> QED BY <1>2, <1>3, <3>1
  <2>2. \A p \in DOMAIN b : p \in DOMAIN t /\ t[p] = b[p]
    BY <1>3
  <2> QED BY <2>1, <2>2, MarksDiffer DEF DocumentsIn
<1>11. CompleteIn(t) = CompleteIn(b)
  BY <1>10, CompletionsAre
<1>12. IsInjective(r.seen) /\ ToSet(r.seen) \subseteq CompleteIn(b)
  BY <1>5, <1>7, <1>9, <1>11 DEF Read
<1>13. ASSUME IsEventStream(b) PROVE CompleteIn(b) \subseteq ToSet(r.seen)
  <2>1. AreEvents(t)
    BY <1>13 DEF IsEventStream, t, end
  <2>2. CompleteIn(SubSeq(t, 1, k)) \subseteq ToSet(r.seen)
    BY <1>5, <1>7, <2>1 DEF Read
  <2>3. Len(b) <= k
    <3>1. SUFFICES ASSUME k < Len(b) PROVE FALSE
      BY <1>3
    <3> DEFINE u == r.buffer
               n == Len(t) - k
    <3>2. u \in Seq(Token) /\ Len(u) = n /\ \A p \in 1 .. n : u[p] = t[k + p]
      <4>1. u = SubSeq(t, k + 1, Len(t))
        BY <1>5, <1>7 DEF Read
      <4> HIDE DEF u
      <4> QED BY <1>3, <4>1, Rest
    <3>3. n - 1 \in 1 .. n /\ n \in 1 .. n /\ k + n = Len(b) + 2 /\ k + (n - 1) = Len(b) + 1
          /\ n \in (n - 1) .. n /\ n = (n - 1) + 1
      BY <1>3, <3>1
    <3> HIDE DEF n, u
    <3>4. u[n] = LF /\ u[n - 1] = LF
      BY <1>2, <1>3, <3>2, <3>3
    <3>5. DelimiterAt(u, n - 1, n)
      BY <3>3, <3>4 DEF DelimiterAt
    <3>6. Boundary(u) = 0
      BY <1>8 DEF u
    <3> QED BY <3>2, <3>3, <3>5, <3>6, BoundaryIs
  <2>4. DocumentsIn(SubSeq(t, 1, k)) = {t[p].document : p \in 1 .. k} \ {Null}
    <3>1. 1 \in 1 .. (Len(t) + 1) /\ k \in (1 - 1) .. Len(t)
      BY <1>3
    <3> QED BY <1>3, <3>1, DocumentsOfPart
  <2>5. DocumentsIn(b) \subseteq DocumentsIn(SubSeq(t, 1, k))
    <3>1. \A p \in 1 .. Len(b) : p \in 1 .. k /\ t[p] = b[p]
      BY <1>3, <2>3
    <3> QED BY <1>3, <2>4, <3>1 DEF DocumentsIn
  <2>6. CompleteIn(b) \subseteq CompleteIn(SubSeq(t, 1, k))
    BY <2>5, CompleteInGrows
  <2> QED BY <2>2, <2>6
<1> QED BY <1>8, <1>12, <1>13 DEF r, t, end

-----------------------------------------------------------------------------
(***************************************************************************)
(* The observer over all chunks.                                           *)
(***************************************************************************)

\* What is complete in a part of a text is complete in the text.
LEMMA CompleteInPart ==
  ASSUME NEW S, NEW s \in Seq(S), NEW i \in 1 .. (Len(s) + 1), NEW j \in (i - 1) .. Len(s)
  PROVE  CompleteIn(SubSeq(s, i, j)) \subseteq CompleteIn(s)
<1>1. Len(s) \in Nat /\ DOMAIN s = 1 .. Len(s)
  BY LenProperties
<1>2. \A p \in i .. j : p \in DOMAIN s
  BY <1>1
<1>3. DocumentsIn(SubSeq(s, i, j)) \subseteq DocumentsIn(s)
  <2>1. DocumentsIn(SubSeq(s, i, j)) = {s[p].document : p \in i .. j} \ {Null}
    BY DocumentsOfPart
  <2> QED BY <1>2, <2>1 DEF DocumentsIn
<1> QED BY <1>3, CompleteInGrows

\* A part of a sequence and the next part of it are a part of it.
LEMMA PartsJoin ==
  ASSUME NEW S, NEW s \in Seq(S), NEW k \in 0 .. Len(s), NEW l \in k .. Len(s)
  PROVE  SubSeq(s, 1, l) = SubSeq(s, 1, k) \o SubSeq(s, k + 1, l)
<1> DEFINE n == Len(s)
           i == k + 1
           m == l - k
           u == SubSeq(s, 1, k)
           v == SubSeq(s, i, l)
           w == SubSeq(s, 1, l)
<1>1. n \in Nat /\ 1 \in 1 .. (n + 1) /\ k \in (1 - 1) .. n /\ l \in (1 - 1) .. n
      /\ i \in 1 .. (n + 1) /\ l \in (i - 1) .. n /\ (k - 1) + 1 = k /\ (l - 1) + 1 = l
      /\ (l - i) + 1 = m /\ i - 1 = k /\ k \in Nat /\ m \in Nat /\ k + m = l
  BY LenProperties
<1> HIDE DEF i, m
<1>2. u \in Seq(S) /\ Len(u) = (k - 1) + 1 /\ \A p \in 1 .. ((k - 1) + 1) : u[p] = s[(1 - 1) + p]
  BY <1>1, Part
<1>3. w \in Seq(S) /\ Len(w) = (l - 1) + 1 /\ \A p \in 1 .. ((l - 1) + 1) : w[p] = s[(1 - 1) + p]
  BY <1>1, Part
<1>4. v \in Seq(S) /\ Len(v) = (l - i) + 1 /\ \A p \in 1 .. ((l - i) + 1) : v[p] = s[(i - 1) + p]
  BY <1>1, Part
<1> HIDE DEF u, v, w, n
<1>5. u \in Seq(S) /\ Len(u) = k /\ \A p \in 1 .. k : u[p] = s[p]
  BY <1>1, <1>2
<1>6. w \in Seq(S) /\ Len(w) = l /\ \A p \in 1 .. l : w[p] = s[p]
  BY <1>1, <1>3
<1>7. v \in Seq(S) /\ Len(v) = m /\ \A p \in 1 .. m : v[p] = s[k + p]
  BY <1>1, <1>4
<1>8. u \o v \in Seq(S) /\ Len(u \o v) = Len(u) + Len(v)
  BY <1>5, <1>7, Cat
<1>9. \A p \in 1 .. Len(u) : (u \o v)[p] = u[p]
  BY <1>5, <1>7, Cat
<1>10. \A p \in 1 .. Len(v) : (u \o v)[Len(u) + p] = v[p]
  BY <1>5, <1>7, Cat
<1>11. ASSUME NEW p \in 1 .. l PROVE w[p] = (u \o v)[p]
  <2>1. CASE p <= k
    <3>1. p \in 1 .. k
      BY <1>1, <2>1
    <3> QED BY <1>5, <1>6, <1>9, <3>1
  <2>2. CASE k < p
    <3>1. p - k \in 1 .. m /\ k + (p - k) = p
      BY <1>1, <2>2
    <3>2. (u \o v)[p] = v[p - k] /\ v[p - k] = s[p]
      BY <1>5, <1>7, <1>10, <3>1
    <3> QED BY <1>6, <3>2
  <2>3. p <= k \/ k < p
    OBVIOUS
  <2> QED BY <2>1, <2>2, <2>3
<1>12. w = u \o v
  BY <1>1, <1>5, <1>6, <1>7, <1>8, <1>11, SameSeq
<1> QED BY <1>12 DEF u, v, w, i

\* How many tokens of the body have arrived.
Arrived == Len(body) - Len(rest)

\* The invariant that every step keeps: what is left to arrive and what is kept are parts of
\* the body, all of what arrived unless the limit was reached; until the end, the text and the
\* reports are those of all that arrived.
ObserverIInv ==
  /\ body \in Bodies
  /\ rest \in Seq(Token) /\ Len(rest) <= Len(body)
  /\ rest = SubSeq(body, Arrived + 1, Len(body))
  /\ raw \in Seq(Token) /\ Len(raw) <= Arrived
  /\ raw = SubSeq(body, 1, Len(raw))
  /\ Len(raw) = Arrived \/ RawCap <= Len(raw)
  /\ reports \in Seq(STRING) /\ IsInjective(reports)
  /\ ToSet(reports) \subseteq CompleteIn(Received)
  /\ ended \in BOOLEAN
  /\ ~ended => Consume(Received, <<>>) = [buffer |-> buffer, seen |-> reports]
  /\ ended => rest = <<>> /\ CompleteIn(body) \subseteq ToSet(reports)

\* Under the invariant, what has arrived is the start of the body, token by token.
LEMMA BodyType ==
  ASSUME ObserverIInv
  PROVE  /\ NullApart
         /\ body \in Seq(Token) /\ Len(body) \in Nat /\ Len(rest) \in Nat /\ Arrived \in 0 .. Len(body)
         /\ Received = SubSeq(body, 1, Arrived) /\ Received \in Seq(Token) /\ Len(Received) = Arrived
         /\ DOMAIN Received = 1 .. Arrived /\ \A p \in 1 .. Arrived : Received[p] = body[p]
<1>1. NullApart /\ body \in Seq(Token)
  BY ObserverAssumption DEF NullApart, ObserverIInv
<1>2. Len(body) \in Nat /\ Len(rest) \in Nat
  BY <1>1, LenProperties DEF ObserverIInv
<1>3. Arrived \in 0 .. Len(body) /\ Arrived \in Nat
  BY <1>2 DEF ObserverIInv, Arrived
<1>4. Received = SubSeq(body, 1, Arrived)
  BY DEF Received, Arrived
<1>5. 1 \in 1 .. (Len(body) + 1) /\ Arrived \in (1 - 1) .. Len(body) /\ (Arrived - 1) + 1 = Arrived
  BY <1>2, <1>3
<1>6. Received \in Seq(Token) /\ Len(Received) = (Arrived - 1) + 1 /\ DOMAIN Received = 1 .. ((Arrived - 1) + 1)
      /\ \A p \in 1 .. ((Arrived - 1) + 1) : Received[p] = body[(1 - 1) + p]
  BY <1>1, <1>4, <1>5, Part
<1>7. \A p \in 1 .. Arrived : (1 - 1) + p = p
  BY <1>3
<1> QED BY <1>1, <1>2, <1>3, <1>4, <1>5, <1>6, <1>7

\* What consume makes of the start of a body: it goes on from there with any chunk, reports
\* each completed response of it once, and all of those in the blocks that are closed.
LEMMA StartOfBody ==
  ASSUME NullApart, NEW t \in Seq(Token), NEW r, r = Consume(t, <<>>)
  PROVE  /\ r \in ReadState
         /\ IsInjective(r.seen) /\ ToSet(r.seen) \subseteq CompleteIn(t)
         /\ \A c \in Seq(Token) : Consume(t \o c, <<>>) = Consume(r.buffer \o c, r.seen)
         /\ \E k \in 0 .. Len(t) :
              /\ r.buffer = SubSeq(t, k + 1, Len(t)) /\ Boundary(r.buffer) = 0
              /\ AreEvents(t) => CompleteIn(SubSeq(t, 1, k)) \subseteq ToSet(r.seen)
<1> DEFINE x == [buffer |-> t, seen |-> <<>>]
<1>1. x \in ReadState /\ x.buffer = t /\ x.seen = <<>>
  BY DEF ReadState
<1> HIDE DEF x
<1>2. r = Consume(x.buffer, x.seen)
  BY <1>1
<1>3. r \in ReadState /\ Boundary(r.buffer) = 0
  BY <1>1, <1>2, ConsumeUnrolled
<1>4. PICK k \in 0 .. Len(t) : Read(x, r, k)
  BY <1>1, <1>2, ConsumedPart
<1>5. IsInjective(<<>>) /\ ToSet(<<>>) = {}
  BY DEF IsInjective, ToSet
<1>6. /\ IsInjective(r.seen) /\ ToSet(r.seen) \subseteq CompleteIn(t)
      /\ r.buffer = SubSeq(t, k + 1, Len(t))
      /\ AreEvents(t) => CompleteIn(SubSeq(t, 1, k)) \subseteq ToSet(r.seen)
  BY <1>1, <1>4, <1>5 DEF Read
<1>7. \A c \in Seq(Token) : Consume(t \o c, <<>>) = Consume(r.buffer \o c, r.seen)
  BY <1>1, <1>2, ConsumeInChunks
<1> QED BY <1>3, <1>6, <1>7

\* The invariant holds before the first chunk (createResponseObserver, transport.ts).
LEMMA ObserverStarts ==
  ASSUME ObserverInit
  PROVE  ObserverIInv
<1>1. body \in Bodies /\ body \in Seq(Token) /\ rest = body /\ buffer = <<>> /\ raw = <<>>
      /\ reports = <<>> /\ ended = FALSE /\ NullApart
  BY ObserverAssumption DEF NullApart, ObserverInit
<1>2. Len(body) \in Nat /\ Arrived = 0
  BY <1>1, LenProperties DEF Arrived
<1>3. SubSeq(body, 0 + 1, Len(body)) = body /\ SubSeq(body, 1, 0) = <<>>
  BY <1>1, WholePart
<1>4. Received = <<>>
  BY <1>2, <1>3 DEF Received, Arrived
<1>5. Consume(<<>>, <<>>) = [buffer |-> <<>>, seen |-> <<>>]
  <2> DEFINE x == [buffer |-> <<>>, seen |-> <<>>]
  <2>1. x \in ReadState /\ x.buffer = <<>> /\ x.seen = <<>>
    BY DEF ReadState
  <2>2. Boundary(<<>>) = 0
    <3>1. <<>> \in Seq(Token) /\ Len(<<>>) = 0
      OBVIOUS
    <3>2. Boundary(<<>>) \in 0 .. Len(<<>>)
      BY <3>1, BoundaryIs
    <3> QED BY <3>1, <3>2
  <2> HIDE DEF x
  <2>3. Consume(x.buffer, x.seen) = x
    BY <1>1, <2>1, <2>2, ConsumeUnrolled
  <2> QED BY <2>1, <2>3 DEF x
<1>6. IsInjective(<<>>) /\ ToSet(<<>>) = {}
  BY DEF IsInjective, ToSet
<1>7. Len(<<>>) = 0 /\ <<>> \in Seq(Token) /\ <<>> \in Seq(STRING)
  OBVIOUS
<1>8. /\ rest \in Seq(Token) /\ Len(rest) <= Len(body)
      /\ rest = SubSeq(body, Arrived + 1, Len(body))
  BY <1>1, <1>2, <1>3
<1>9. /\ raw \in Seq(Token) /\ Len(raw) <= Arrived /\ Len(raw) = Arrived
      /\ raw = SubSeq(body, 1, Len(raw))
  BY <1>1, <1>2, <1>3, <1>7
<1>10. /\ reports \in Seq(STRING) /\ IsInjective(reports)
       /\ ToSet(reports) \subseteq CompleteIn(Received)
       /\ Consume(Received, <<>>) = [buffer |-> buffer, seen |-> reports]
  BY <1>1, <1>4, <1>5, <1>6, <1>7
<1> QED BY <1>1, <1>8, <1>9, <1>10 DEF ObserverIInv

\* A chunk, wherever the network ends it, keeps the invariant (push in transport.ts).
LEMMA ObserverPush ==
  ASSUME ObserverIInv, NEW n \in 1 .. Len(rest), Push(n)
  PROVE  ObserverIInv'
<1> DEFINE k == Arrived
           l == k + n
           N == Len(body)
           chunk == SubSeq(rest, 1, n)
           t == Received
           result == Consume(buffer \o chunk, reports)
<1>1. /\ NullApart /\ body \in Seq(Token) /\ N \in Nat /\ Len(rest) \in Nat /\ k \in 0 .. N
      /\ t = SubSeq(body, 1, k) /\ t \in Seq(Token) /\ Len(t) = k
  BY BodyType
<1>2. /\ body' = body /\ ended' = ended /\ rest' = SubSeq(rest, n + 1, Len(rest))
      /\ buffer' = result.buffer /\ reports' = result.seen
      /\ raw' = IF Len(raw) < RawCap THEN raw \o chunk ELSE raw
  BY DEF Push
<1> HIDE DEF result, t, chunk
<1>3. k = N - Len(rest) /\ k \in Nat /\ l \in k .. N /\ l \in 0 .. N /\ l \in Nat
  BY <1>1 DEF Arrived
<1>4. rest = SubSeq(body, k + 1, N)
  BY DEF ObserverIInv
<1>5. chunk = SubSeq(body, k + 1, l) /\ rest' = SubSeq(body, l + 1, N)
  <2> HIDE DEF k, N
  <2>1. 1 \in 1 .. ((N - k) + 1) /\ n \in (1 - 1) .. (N - k)
        /\ n + 1 \in 1 .. ((N - k) + 1) /\ Len(rest) \in ((n + 1) - 1) .. (N - k)
        /\ k + (n + 1) = l + 1 /\ k + Len(rest) = N
    BY <1>1, <1>3
  <2>2. SubSeq(SubSeq(body, k + 1, Len(body)), 1, n) = SubSeq(body, k + 1, k + n)
    BY <1>1, <2>1, PartOfRest DEF N
  <2>3. SubSeq(SubSeq(body, k + 1, Len(body)), n + 1, Len(rest)) = SubSeq(body, k + (n + 1), k + Len(rest))
    BY <1>1, <2>1, PartOfRest DEF N
  <2> QED BY <1>2, <1>4, <2>1, <2>2, <2>3 DEF chunk, N
<1>6. rest' \in Seq(Token) /\ Len(rest') = N - l /\ Arrived' = l
  <2>1. rest' \in Seq(Token) /\ Len(rest') = N - l
    BY <1>1, <1>3, <1>5, Rest
  <2>2. Arrived' = N - Len(rest')
    BY <1>2 DEF Arrived
  <2> HIDE DEF N, l, k
  <2> QED BY <1>1, <1>3, <2>1, <2>2
<1>7. chunk \in Seq(Token)
  <2> HIDE DEF k, N, l
  <2>1. k + 1 \in 1 .. (Len(body) + 1) /\ l \in ((k + 1) - 1) .. Len(body)
    BY <1>1, <1>3 DEF N
  <2> QED BY <1>1, <1>5, <2>1, Part
<1>8. Received' = t \o chunk
  <2>1. Received' = SubSeq(body, 1, l)
    BY <1>2, <1>6 DEF Received, Arrived
  <2> HIDE DEF k, l, N
  <2>2. SubSeq(body, 1, l) = SubSeq(body, 1, k) \o SubSeq(body, k + 1, l)
    BY <1>1, <1>3, PartsJoin DEF N
  <2> QED BY <1>1, <1>5, <2>1, <2>2
<1>9. rest # <<>> /\ ~ended
  <2>1. rest # <<>>
    BY <1>1
  <2> QED BY <2>1 DEF ObserverIInv
<1>10. Consume(t, <<>>) = [buffer |-> buffer, seen |-> reports]
  BY <1>9 DEF ObserverIInv, t
<1>11. Consume(t \o chunk, <<>>) = result
  <2> DEFINE r == [buffer |-> buffer, seen |-> reports]
  <2>1. r = Consume(t, <<>>) /\ r.buffer = buffer /\ r.seen = reports
    BY <1>10
  <2> HIDE DEF r
  <2>2. NullApart /\ t \in Seq(Token)
    BY <1>1
  <2>3. \A c \in Seq(Token) : Consume(t \o c, <<>>) = Consume(r.buffer \o c, r.seen)
    BY <2>1, <2>2, StartOfBody
  <2> QED BY <1>7, <2>1, <2>3 DEF result
<1>12. t \o chunk \in Seq(Token)
  BY <1>1, <1>7, ConcatProperties
<1>13. /\ result \in ReadState /\ IsInjective(result.seen)
       /\ ToSet(result.seen) \subseteq CompleteIn(t \o chunk)
  BY <1>1, <1>11, <1>12, StartOfBody
<1>14. result = [buffer |-> buffer', seen |-> reports'] /\ reports' \in Seq(STRING)
  BY <1>2, <1>13 DEF ReadState
<1>15. /\ raw' \in Seq(Token) /\ Len(raw') <= l /\ raw' = SubSeq(body, 1, Len(raw'))
       /\ Len(raw') = l \/ RawCap <= Len(raw')
  <2>1. RawCap \in Nat
    BY ObserverAssumption
  <2>2. /\ raw \in Seq(Token) /\ Len(raw) \in Nat /\ Len(raw) <= k /\ raw = SubSeq(body, 1, Len(raw))
        /\ Len(raw) = k \/ RawCap <= Len(raw)
    BY LenProperties DEF ObserverIInv
  <2>3. CASE Len(raw) < RawCap
    <3>1. Len(raw) = k
      BY <1>3, <2>1, <2>2, <2>3
    <3>2. raw = t
      BY <1>1, <2>2, <3>1
    <3>3. raw' = t \o chunk
      BY <1>2, <2>3, <3>2
    <3>4. raw' = SubSeq(body, 1, l)
      BY <1>2, <1>6, <1>8, <3>3 DEF Received, Arrived
    <3>5. Len(raw') = l
      <4> HIDE DEF k, l, N
      <4>1. 1 \in 1 .. (Len(body) + 1) /\ l \in (1 - 1) .. Len(body) /\ (l - 1) + 1 = l
        BY <1>1, <1>3 DEF N
      <4>2. Len(SubSeq(body, 1, l)) = (l - 1) + 1
        BY <1>1, <4>1, Part
      <4> QED BY <3>4, <4>1, <4>2
    <3> QED BY <1>3, <1>12, <3>3, <3>4, <3>5
  <2>4. CASE ~(Len(raw) < RawCap)
    <3>1. raw' = raw
      BY <1>2, <2>4
    <3> QED BY <1>3, <2>1, <2>2, <2>4, <3>1
  <2> QED BY <2>3, <2>4
<1>16. body' \in Bodies /\ ended' \in BOOLEAN /\ ~ended'
  BY <1>2, <1>9 DEF ObserverIInv
<1>17. Len(rest') <= Len(body')
  BY <1>1, <1>2, <1>3, <1>6
<1>18. rest' = SubSeq(body', Arrived' + 1, Len(body'))
  BY <1>2, <1>5, <1>6
<1> HIDE DEF k, l, N
<1>19. /\ Len(raw') <= Arrived' /\ raw' = SubSeq(body', 1, Len(raw'))
       /\ Len(raw') = Arrived' \/ RawCap <= Len(raw')
  BY <1>2, <1>6, <1>15
<1>20. /\ IsInjective(reports') /\ ToSet(reports') \subseteq CompleteIn(Received')
       /\ Consume(Received', <<>>) = [buffer |-> buffer', seen |-> reports']
  BY <1>2, <1>8, <1>11, <1>13, <1>14
<1> QED BY <1>6, <1>14, <1>15, <1>16, <1>17, <1>18, <1>19, <1>20 DEF ObserverIInv

\* The end of the answer keeps the invariant: the open block is read, and then the raw text
\* (finish in transport.ts).
LEMMA ObserverFinish ==
  ASSUME ObserverIInv, Finish
  PROVE  ObserverIInv'
<1> DEFINE end == <<LF, LF>>
           result == Consume(buffer \o end, reports)
           N == Len(body)
<1>1. /\ NullApart /\ body \in Seq(Token) /\ N \in Nat /\ Received = SubSeq(body, 1, Arrived)
  BY BodyType
<1>2. /\ rest = <<>> /\ ~ended /\ body' = body /\ rest' = rest /\ raw' = raw /\ ended' = TRUE
      /\ reports' = InspectRaw(raw, result.seen)
  BY DEF Finish
<1>3. Arrived = N /\ Received = body
  <2>1. Arrived = N
    BY <1>1, <1>2 DEF Arrived
  <2> QED BY <1>1, <2>1, WholePart
<1>4. Consume(body, <<>>) = [buffer |-> buffer, seen |-> reports]
  BY <1>2, <1>3 DEF ObserverIInv
<1>5. end \in Seq(Token)
  BY DEF Token
<1> HIDE DEF end
<1>6. Consume(body \o end, <<>>) = result
  <2> DEFINE r == [buffer |-> buffer, seen |-> reports]
  <2>1. r = Consume(body, <<>>) /\ r.buffer = buffer /\ r.seen = reports
    BY <1>4
  <2> HIDE DEF r
  <2>2. \A c \in Seq(Token) : Consume(body \o c, <<>>) = Consume(r.buffer \o c, r.seen)
    BY <1>1, <2>1, StartOfBody
  <2> QED BY <1>5, <2>1, <2>2
<1>7. /\ result \in ReadState /\ IsInjective(result.seen)
      /\ ToSet(result.seen) \subseteq CompleteIn(body)
      /\ IsEventStream(body) => CompleteIn(body) \subseteq ToSet(result.seen)
  BY <1>1, <1>6, ReadToTheEnd DEF end
<1>8. result.seen \in Seq(STRING)
  BY <1>7 DEF ReadState
<1>9. raw \in Seq(Token) /\ Len(raw) \in Nat /\ Len(raw) <= N /\ (Len(raw) = N \/ RawCap <= Len(raw))
  BY <1>3, LenProperties DEF ObserverIInv
<1>9a. raw = SubSeq(body, 1, Len(raw))
  BY DEF ObserverIInv
<1> HIDE DEF result, N
<1>10. CompleteIn(raw) \subseteq CompleteIn(body)
  <2>1. 1 \in 1 .. (Len(body) + 1) /\ Len(raw) \in (1 - 1) .. Len(body)
    BY <1>1, <1>9 DEF N
  <2>2. CompleteIn(SubSeq(body, 1, Len(raw))) \subseteq CompleteIn(body)
    BY <1>1, <2>1, CompleteInPart
  <2> QED BY <1>9a, <2>2
<1>11. /\ reports' \in Seq(STRING)
       /\ IsInjective(result.seen) => IsInjective(reports')
       /\ ToSet(result.seen) \subseteq ToSet(reports')
       /\ ToSet(reports') \subseteq ToSet(result.seen) \cup CompleteIn(raw)
       /\ IsDocument(raw) \/ AreDocumentLines(raw) => CompleteIn(raw) \subseteq ToSet(reports')
  <2> DEFINE seen == result.seen
  <2>1. seen \in Seq(STRING) /\ raw \in Seq(Token) /\ reports' = InspectRaw(raw, seen)
    BY <1>2, <1>8, <1>9
  <2> HIDE DEF seen
  <2>2. /\ reports' \in Seq(STRING)
        /\ IsInjective(seen) => IsInjective(reports')
        /\ ToSet(seen) \subseteq ToSet(reports')
        /\ ToSet(reports') \subseteq ToSet(seen) \cup CompleteIn(raw)
        /\ IsDocument(raw) \/ AreDocumentLines(raw) => CompleteIn(raw) \subseteq ToSet(reports')
    BY <1>1, <2>1, InspectRawIs
  <2> QED BY <2>2 DEF seen
<1>12. CompleteIn(body) \subseteq ToSet(reports')
  <2>1. CASE IsEventStream(body)
    BY <1>7, <1>11, <2>1
  <2>2. CASE Len(body) <= RawCap /\ (IsDocument(body) \/ AreDocumentLines(body))
    <3>1. RawCap \in Nat
      BY ObserverAssumption
    <3>2. Len(raw) = N
      BY <1>1, <1>9, <2>2, <3>1 DEF N
    <3>3. raw = body
      BY <1>1, <1>9a, <3>2, WholePart DEF N
    <3> QED BY <1>11, <2>2, <3>3
  <2> QED BY <2>1, <2>2, ObserverAssumption DEF ObserverIInv
<1>13. Arrived' = Arrived /\ Received' = Received
  BY <1>2 DEF Arrived, Received
<1>14. ended'
  BY <1>2
<1>15. IsInjective(reports') /\ ToSet(reports') \subseteq CompleteIn(Received')
  BY <1>3, <1>7, <1>10, <1>11, <1>13
<1> QED BY <1>2, <1>11, <1>12, <1>13, <1>14, <1>15 DEF ObserverIInv

\* Every step of the observer keeps the invariant.
LEMMA ObserverStep ==
  ASSUME ObserverIInv, [ObserverNext]_observerVars
  PROVE  ObserverIInv'
<1>1. CASE Finish
  BY <1>1, ObserverFinish
<1>2. CASE \E n \in 1 .. Len(rest) : Push(n)
  BY <1>2, ObserverPush
<1>3. CASE UNCHANGED observerVars
  BY <1>3 DEF observerVars, ObserverIInv, Arrived, Received
<1> QED BY <1>1, <1>2, <1>3 DEF ObserverNext

\* A suffix of a sequence is one.
LEMMA SuffixIs ==
  ASSUME NEW S, NEW s \in Seq(S), NEW e \in 0 .. Len(s), NEW u, u = SubSeq(s, e + 1, Len(s))
  PROVE  IsSuffix(u, s)
<1> DEFINE n == Len(s)
           m == n - e
           v == Reverse(u)
           w == Reverse(s)
<1>1. n \in Nat /\ m \in Nat /\ m <= n /\ e + m = n
  BY LenProperties
<1>2. u \in Seq(S) /\ Len(u) = m /\ \A k \in 1 .. m : u[k] = s[e + k]
  BY Rest
<1>3. v = [i \in 1 .. m |-> u[(m - i) + 1]] /\ w = [i \in 1 .. n |-> s[(n - i) + 1]]
  BY <1>2 DEF Reverse
<1>4. v \in Seq(S) /\ Len(v) = m
  <2>1. \A i \in 1 .. m : (m - i) + 1 \in 1 .. m
    BY <1>1
  <2>2. \A k \in 1 .. m : u[k] \in S
    BY <1>2, ElementOfSeq
  <2> HIDE DEF m, v
  <2>3. v \in [1 .. m -> S]
    BY <1>3, <2>1, <2>2
  <2>4. v \in Seq(S)
    BY <1>1, <2>3, SeqDef
  <2> QED BY <1>1, <2>3, <2>4, LenProperties
<1>5. w \in Seq(S) /\ Len(w) = n
  <2>1. \A i \in 1 .. n : (n - i) + 1 \in 1 .. n
    BY <1>1
  <2>2. \A k \in 1 .. n : s[k] \in S
    BY ElementOfSeq
  <2> HIDE DEF n, w
  <2>3. w \in [1 .. n -> S]
    BY <1>3, <2>1, <2>2
  <2>4. w \in Seq(S)
    BY <1>1, <2>3, SeqDef
  <2> QED BY <1>1, <2>3, <2>4, LenProperties
<1>6. \A i \in 1 .. m : v[i] = w[i]
  <2> TAKE i \in 1 .. m
  <2>1. (m - i) + 1 \in 1 .. m /\ e + ((m - i) + 1) = (n - i) + 1 /\ i \in 1 .. n
    BY <1>1
  <2> HIDE DEF m, n, v, w
  <2> QED BY <1>2, <1>3, <2>1
<1> HIDE DEF v, w, m, n
<1>7. SubSeq(v, 1, m) = v
  BY <1>4, WholePart
<1>8. SubSeq(w, 1, m) \in Seq(S) /\ Len(SubSeq(w, 1, m)) = m /\ \A i \in 1 .. m : SubSeq(w, 1, m)[i] = w[i]
  <2>1. 1 \in 1 .. (Len(w) + 1) /\ m \in (1 - 1) .. Len(w) /\ (m - 1) + 1 = m /\ \A i \in 1 .. m : (1 - 1) + i = i
    BY <1>1, <1>5
  <2>2. SubSeq(w, 1, m) \in Seq(S) /\ Len(SubSeq(w, 1, m)) = (m - 1) + 1
        /\ \A i \in 1 .. ((m - 1) + 1) : SubSeq(w, 1, m)[i] = w[(1 - 1) + i]
    BY <1>5, <2>1, Part
  <2> QED BY <2>1, <2>2
<1>9. SubSeq(w, 1, m) = v
  <2> DEFINE x == SubSeq(w, 1, m)
  <2> HIDE DEF x
  <2>1. x \in Seq(S) /\ Len(x) = m /\ \A i \in 1 .. m : x[i] = w[i]
    BY <1>8 DEF x
  <2>2. x = v
    BY <1>4, <1>6, <2>1, SameSeq
  <2> QED BY <2>2 DEF x
<1> QED BY <1>1, <1>4, <1>5, <1>7, <1>9 DEF IsSuffix, IsPrefix, v, w

\* The invariant says that each completed response is reported once, none before it has
\* arrived and all at the end, and that the chunks do not matter (transport.ts).
LEMMA ObserverInvHolds ==
  ASSUME ObserverIInv
  PROVE  ObserverInv
<1>1. /\ NullApart /\ body \in Seq(Token) /\ Len(body) \in Nat /\ Len(rest) \in Nat /\ Arrived \in 0 .. Len(body)
      /\ Received = SubSeq(body, 1, Arrived)
  BY BodyType
<1>2. IsSuffix(rest, body)
  BY <1>1, SuffixIs DEF ObserverIInv
<1>3. IsPrefix(raw, body)
  <2>1. raw \in Seq(Token) /\ raw = SubSeq(body, 1, Len(raw)) /\ Len(raw) <= Arrived
    BY DEF ObserverIInv
  <2>2. SubSeq(raw, 1, Len(raw)) = raw /\ Len(raw) \in Nat
    BY <2>1, WholePart, LenProperties
  <2>3. Len(raw) <= Len(body)
    BY <1>1, <2>1, <2>2
  <2>4. SubSeq(raw, 1, Len(raw)) = SubSeq(body, 1, Len(raw))
    BY <2>1, <2>2, Zenon
  <2> QED BY <2>3, <2>4, Zenon DEF IsPrefix
<1>4. \A i \in DOMAIN reports : reports[i] \in STRING
  BY LenProperties, ElementOfSeq DEF ObserverIInv
<1>5. ObserverTypeOK
  BY <1>2, <1>3, <1>4 DEF ObserverIInv, ObserverTypeOK
<1>6. ReportsAreOnceAndTrue
  BY DEF ReportsAreOnceAndTrue, ObserverIInv
<1>7. ChunksDoNotMatter
  BY DEF ChunksDoNotMatter, ObserverIInv
<1>8. ASSUME ended PROVE ToSet(reports) = CompleteIn(body)
  <2>1. rest = <<>> /\ CompleteIn(body) \subseteq ToSet(reports) /\ ToSet(reports) \subseteq CompleteIn(Received)
    BY <1>8 DEF ObserverIInv
  <2>2. Arrived = Len(body)
    BY <1>1, <2>1 DEF Arrived
  <2>3. Received = body
    BY <1>1, <2>2, WholePart
  <2> QED BY <2>1, <2>3
<1> QED BY <1>5, <1>6, <1>7, <1>8 DEF ObserverInv, AllReportedAtEnd

\* The invariant says that a response is reported as soon as its block is closed: what is left
\* in the buffer holds no delimiter, so the block is in the part that has been read.
LEMMA ReportedWhenClosedHolds ==
  ASSUME ObserverIInv
  PROVE  ReportedWhenClosed
<1> DEFINE t == Received
           A == Arrived
<1>1. /\ NullApart /\ body \in Seq(Token) /\ Len(body) \in Nat /\ Len(rest) \in Nat /\ A \in 0 .. Len(body)
      /\ t = SubSeq(body, 1, A) /\ t \in Seq(Token) /\ Len(t) = A
      /\ DOMAIN t = 1 .. A /\ \A p \in 1 .. A : t[p] = body[p]
  BY BodyType
<1> HIDE DEF t, A
<1>2. SUFFICES ASSUME NEW i \in DOMAIN t, NEW j \in DOMAIN t, NEW k \in DOMAIN t,
                      i < j, j < k, t[i] = DataField, IsDelimiter(t, j, k)
               PROVE  CompleteIn(SubSeq(t, i, j)) \subseteq ToSet(reports)
  BY DEF ReportedWhenClosed, t
<1>3. i \in 1 .. A /\ j \in 1 .. A /\ k \in 1 .. A /\ i \in Nat /\ j \in Nat /\ k \in Nat /\ A \in Nat
  BY <1>1
<1>4. i \in 1 .. (Len(t) + 1) /\ j \in (i - 1) .. Len(t)
  BY <1>1, <1>2, <1>3
<1>5. IsEventStream(body)
  <2>1. body \in Bodies
    BY DEF ObserverIInv
  <2>2. i \in DOMAIN body /\ body[i] = DataField
    <3>1. i \in 1 .. Len(body)
      BY <1>1, <1>3
    <3> QED BY <1>1, <1>2, <1>3, <3>1, LenProperties
  <2>3. ~AreDocumentLines(body)
    BY <2>2 DEF AreDocumentLines
  <2>4. ~IsDocument(body)
    BY <1>1, <2>2, DocumentText
  <2> QED BY <2>1, <2>3, <2>4, ObserverAssumption
<1>6. CASE ended
  <2>1. CompleteIn(body) \subseteq ToSet(reports) /\ rest = <<>>
    BY <1>6 DEF ObserverIInv
  <2>2. A = Len(body)
    BY <1>1, <2>1 DEF A, Arrived
  <2>3. t = body
    BY <1>1, <2>2, WholePart
  <2>4. CompleteIn(SubSeq(t, i, j)) \subseteq CompleteIn(t)
    BY <1>1, <1>4, CompleteInPart
  <2> QED BY <2>1, <2>3, <2>4
<1>7. CASE ~ended
  <2> DEFINE r == [buffer |-> buffer, seen |-> reports]
  <2>1. r = Consume(t, <<>>) /\ r.buffer = buffer /\ r.seen = reports
    BY <1>7 DEF ObserverIInv, t
  <2> HIDE DEF r
  <2>2. PICK l \in 0 .. Len(t) :
          /\ r.buffer = SubSeq(t, l + 1, Len(t)) /\ Boundary(r.buffer) = 0
          /\ AreEvents(t) => CompleteIn(SubSeq(t, 1, l)) \subseteq ToSet(r.seen)
    BY <1>1, <2>1, StartOfBody
  <2>3. AreEvents(t)
    <3> DEFINE end == <<LF, LF>>
               c == SubSeq(body, A + 1, Len(body))
    <3>1. end \in Seq(Token)
      BY DEF Token
    <3>2. c \in Seq(Token)
      BY <1>1, Rest
    <3>3. body = t \o c
      <4>1. Len(body) \in A .. Len(body)
        BY <1>1
      <4>2. SubSeq(body, 1, Len(body)) = SubSeq(body, 1, A) \o SubSeq(body, A + 1, Len(body))
        BY <1>1, <4>1, PartsJoin
      <4> QED BY <1>1, <4>2, WholePart
    <3>4. AreEvents(body \o end)
      BY <1>5 DEF IsEventStream
    <3> HIDE DEF end, c
    <3>5. AreEvents(body)
      BY <1>1, <3>1, <3>4, EventsInPrefix
    <3>6. AreEvents(t \o c)
      BY <3>3, <3>5
    <3> QED BY <1>1, <3>2, <3>6, EventsInPrefix
  <2>4. j <= l
    <3>1. SUFFICES ASSUME l < j PROVE FALSE
      BY <1>3
    <3> DEFINE u == SubSeq(t, l + 1, Len(t))
               p == j - l
               q == k - l
               n == Len(t) - l
    <3> DEFINE L == Len(t)
    <3>0. L \in Nat /\ l \in 0 .. L /\ j \in 1 .. L /\ k \in 1 .. L /\ l < j /\ j < k
      BY <1>1, <1>2, <1>3, <3>1
    <3> HIDE DEF L
    <3>2a. l \in Nat /\ l + p = j /\ l + q = k /\ k \in j .. L
      BY <3>0
    <3>2b. p \in 1 .. (L - l) /\ q \in p .. (L - l)
      BY <3>0
    <3>2. l \in Nat /\ p \in 1 .. n /\ q \in p .. n /\ l + p = j /\ l + q = k /\ k \in j .. Len(t)
      BY <3>2a, <3>2b DEF L
    <3> HIDE DEF p, q
    <3>3. DelimiterAt(t, j, k)
      BY <1>1, <1>2, <1>3, <3>2, DelimiterIs
    <3>4. DelimiterAt(u, p, q)
      BY <1>1, <3>2, <3>3, DelimiterInRest
    <3>5. u \in Seq(Token) /\ Len(u) = n
      BY <1>1, Rest
    <3> HIDE DEF u, n
    <3>6. Boundary(u) = 0
      BY <2>2 DEF u
    <3> QED BY <3>2, <3>4, <3>5, <3>6, BoundaryIs
  <2>5. CompleteIn(SubSeq(t, 1, l)) \subseteq ToSet(reports)
    BY <2>1, <2>2, <2>3
  <2>0. t \in Seq(Token)
    BY <1>1
  <2>6. 1 \in 1 .. (Len(t) + 1) /\ l \in (1 - 1) .. Len(t)
    BY <1>1
  <2>7. DocumentsIn(SubSeq(t, 1, l)) = {t[p].document : p \in 1 .. l} \ {Null}
    BY <2>0, <2>6, DocumentsOfPart
  <2>8. DocumentsIn(SubSeq(t, i, j)) = {t[p].document : p \in i .. j} \ {Null}
    BY <1>4, <2>0, DocumentsOfPart
  <2>9. \A p \in i .. j : p \in 1 .. l
    BY <1>1, <1>3, <2>4
  <2>10. DocumentsIn(SubSeq(t, i, j)) \subseteq DocumentsIn(SubSeq(t, 1, l))
    BY <2>7, <2>8, <2>9
  <2>11. CompleteIn(SubSeq(t, i, j)) \subseteq CompleteIn(SubSeq(t, 1, l))
    BY <2>10, CompleteInGrows
  <2> QED BY <2>5, <2>11
<1>8. ended \in BOOLEAN
  BY DEF ObserverIInv
<1> QED BY <1>6, <1>7, <1>8

\* From the first chunk to finish(), the observer keeps its invariant (transport.ts).
LEMMA ObserverInvariance == ObserverSpec => []ObserverIInv
<1>1. ObserverInit => ObserverIInv
  BY ObserverStarts
<1>2. ObserverIInv /\ [ObserverNext]_observerVars => ObserverIInv'
  BY ObserverStep
<1> QED BY <1>1, <1>2, PTL DEF ObserverSpec

\* The observer of a response reports each completed response of the body once, none before
\* it has arrived, all of them at the end, and the same wherever the network cuts the body
\* (createResponseObserver in transport.ts).
THEOREM ObserverIsSafe == ObserverSpec => []ObserverInv
<1>1. ObserverIInv => ObserverInv
  BY ObserverInvHolds
<1> QED BY <1>1, ObserverInvariance, PTL

\* It reports a response as soon as its block is closed, before the next chunk is forwarded
\* (push in transport.ts).
THEOREM ObserverReportsAtOnce == ObserverSpec => []ReportedWhenClosed
<1>1. ObserverIInv => ReportedWhenClosed
  BY ReportedWhenClosedHolds
<1> QED BY <1>1, ObserverInvariance, PTL

=============================================================================
