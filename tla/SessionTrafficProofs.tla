------------------------ MODULE SessionTrafficProofs ------------------------
(***************************************************************************)
(* Proofs that the router sends the requests of one conversation to one    *)
(* run, for every set of payloads, ids and prompts, every idle window and  *)
(* however many requests, restarts and ticks of the clock there are.       *)
(***************************************************************************)
EXTENDS SessionTraffic, SequenceTheorems, TLAPS

-----------------------------------------------------------------------------
(***************************************************************************)
(* The types of the router, which this module's steps use through its      *)
(* operations alone.                                                       *)
(***************************************************************************)

\* A Map whose keys and values are typed stays so after set(key, value).
LEMMA PutType ==
  ASSUME NEW K, NEW V, NEW map, NEW k \in K, NEW v \in V,
         \E D \in SUBSET K : map \in [D -> V]
  PROVE  \E D \in SUBSET K : Put(map, k, v) \in [D -> V]
<1>1. PICK D \in SUBSET K : map \in [D -> V]
  OBVIOUS
<1>2. Put(map, k, v) \in [D \cup {k} -> V]
  BY <1>1 DEF Put
<1>3. D \cup {k} \in SUBSET K
  BY <1>1
<1> QED
  BY <1>2, <1>3

\* An empty Map has any type.
LEMMA EmptyMapType ==
  ASSUME NEW K, NEW V
  PROVE  \E D \in SUBSET K : EmptyMap \in [D -> V]
<1>1. EmptyMap \in [{} -> V]
  BY DEF EmptyMap
<1> QED
  BY <1>1

\* Routing a request keeps the router's types (session-router.ts, resolve).
LEMMA ResolveType ==
  ASSUME RouterTypeOK, NEW p \in Payload, NEW s \in SessionIds, Resolve(p, s)
  PROVE  RouterTypeOK'
<1> USE RouterAssumption
<1>1. UNCHANGED <<responseSessions, now>> /\ profilers' \in SUBSET SessionIds
  BY DEF Resolve, RouterTypeOK
<1>2. minted' \in SUBSET Generated
  BY DEF Resolve, ResolveStated, ResolveContinuation, ResolveFingerprint, ResolveNew,
         RouterTypeOK
<1>3. [sessionId |-> s, lastSeenAt |-> now] \in FingerprintSession
  BY DEF RouterTypeOK, FingerprintSession
<1>4. p.fingerprint \in Fingerprints \cup {None}
  BY DEF Payload
<1>5. \E seen \in SUBSET Fingerprints :
        fingerprintSessions' \in [seen -> FingerprintSession]
  <2>1. CASE UNCHANGED fingerprintSessions
    BY <2>1 DEF RouterTypeOK
  <2>2. CASE /\ p.fingerprint \in Fingerprints
             /\ fingerprintSessions' = Put(fingerprintSessions, p.fingerprint,
                                           [sessionId |-> s, lastSeenAt |-> now])
    BY <1>3, <2>2, PutType DEF RouterTypeOK
  <2>3. ASSUME ResolveFingerprint(p, s) PROVE p.fingerprint \in Fingerprints
    BY <2>3 DEF ResolveFingerprint, IsRecent, RouterTypeOK
  <2> QED
    BY <1>4, <2>1, <2>2, <2>3
    DEF Resolve, ResolveStated, ResolveContinuation, ResolveFingerprint, ResolveNew
<1> QED
  BY <1>1, <1>2, <1>5 DEF RouterTypeOK

\* So does registering a response (registerResponse).
LEMMA RegisterType ==
  ASSUME RouterTypeOK, NEW rid \in ResponseIds, NEW s \in SessionIds \cup {None},
         RegisterResponse(rid, s)
  PROVE  RouterTypeOK'
<1>1. UNCHANGED <<fingerprintSessions, profilers, now>>
  BY DEF RegisterResponse
<1>2. minted' \in SUBSET Generated
  BY DEF RegisterResponse, RouterTypeOK
<1>3. \E known_ \in SUBSET ResponseIds : responseSessions' \in [known_ -> SessionIds]
  <2>1. PICK v \in SessionIds : responseSessions' = Put(responseSessions, rid, v)
    BY DEF RegisterResponse, SessionIds
  <2> QED
    BY <2>1, PutType DEF RouterTypeOK
<1> QED
  BY <1>1, <1>2, <1>3 DEF RouterTypeOK

\* What every step does to the router is a routing, a registration, a new router,
\* a tick of the clock, or nothing.
LEMMA RouterStepType ==
  ASSUME RouterTypeOK,
         \/ \E p \in Payload, s \in SessionIds : Resolve(p, s)
         \/ \E rid \in ResponseIds, s \in SessionIds \cup {None} : RegisterResponse(rid, s)
         \/ NewRouter
         \/ UNCHANGED <<responseSessions, fingerprintSessions, profilers, minted>> /\ now' \in Nat
  PROVE  RouterTypeOK'
<1>1. CASE NewRouter
  <2>1. \E D \in SUBSET ResponseIds : EmptyMap \in [D -> SessionIds]
    BY EmptyMapType
  <2>2. \E D \in SUBSET Fingerprints : EmptyMap \in [D -> FingerprintSession]
    BY EmptyMapType
  <2> QED
    BY <1>1, <2>1, <2>2 DEF NewRouter, RouterTypeOK
<1>2. CASE UNCHANGED <<responseSessions, fingerprintSessions, profilers, minted>> /\ now' \in Nat
  BY <1>2 DEF RouterTypeOK
<1> QED
  BY <1>1, <1>2, ResolveType, RegisterType

-----------------------------------------------------------------------------
(***************************************************************************)
(* Routing by stated ids.                                                  *)
(***************************************************************************)

\* A request with a Codex session and no header goes to the run of that session.
LEMMA CodexSession ==
  ASSUME NEW p \in Payload, p.header = None, p.codexRoute # None
  PROVE  IsStated(p) /\ StatedSession(p) = Safe[p.codexRoute]
<1>1. Stated(p)[1] = None /\ Stated(p)[2] = p.codexRoute
  BY DEF Stated
<1>2. IsStated(p)
  BY <1>1 DEF IsStated
<1>3. \A i \in 1..4 :
        (Stated(p)[i] # None /\ \A j \in 1..(i - 1) : Stated(p)[j] = None) <=> i = 2
  BY <1>1
<1>4. (CHOOSE i \in 1..4 : /\ Stated(p)[i] # None
                           /\ \A j \in 1..(i - 1) : Stated(p)[j] = None) = 2
  BY <1>3
<1> QED
  BY <1>1, <1>2, <1>4 DEF StatedSession

\* A request that states an id goes to a run with a name, never to a minted one.
LEMMA StatedIsNamed ==
  ASSUME NEW p \in Payload, IsStated(p)
  PROVE  StatedSession(p) \in Named
<1> DEFINE first == CHOOSE i \in 1..4 : /\ Stated(p)[i] # None
                                        /\ \A j \in 1..(i - 1) : Stated(p)[j] = None
<1>1. \E i \in 1..4 : Stated(p)[i] # None /\ \A j \in 1..(i - 1) : Stated(p)[j] = None
  <2>1. PICK i \in 1..4 : Stated(p)[i] # None
    BY DEF IsStated
  <2>2. CASE Stated(p)[1] # None
    BY <2>2
  <2>3. CASE Stated(p)[1] = None /\ Stated(p)[2] # None
    <3>1. \A j \in 1..(2 - 1) : Stated(p)[j] = None
      BY <2>3
    <3> QED
      BY <2>3, <3>1
  <2>4. CASE Stated(p)[1] = None /\ Stated(p)[2] = None /\ Stated(p)[3] # None
    <3>1. \A j \in 1..(3 - 1) : Stated(p)[j] = None
      BY <2>4
    <3> QED
      BY <2>4, <3>1
  <2>5. CASE Stated(p)[1] = None /\ Stated(p)[2] = None /\ Stated(p)[3] = None
    <3>1. Stated(p)[4] # None /\ \A j \in 1..(4 - 1) : Stated(p)[j] = None
      BY <2>1, <2>5
    <3> QED
      BY <3>1
  <2> QED
    BY <2>2, <2>3, <2>4, <2>5
<1>2. first \in 1..4 /\ Stated(p)[first] # None
  BY <1>1
<1> HIDE DEF first
<1>3. \A i \in 1..4 : Stated(p)[i] \in RawIds \cup {None}
  BY DEF Stated, Payload
<1>4. Safe[Stated(p)[first]] \in Named
  BY <1>2, <1>3, RouterAssumption
<1> QED
  BY <1>4 DEF StatedSession, first

-----------------------------------------------------------------------------
(***************************************************************************)
(* Type correctness.                                                       *)
(***************************************************************************)

\* A proxy that has not routed anything is typed, and everything agrees.
LEMMA InitInv == Init => IInv
<1> SUFFICES ASSUME Init PROVE IInv
  OBVIOUS
<1>1. RouterTypeOK
  BY EmptyMapType DEF Init, RouterInit, RouterTypeOK
<1>2. routed = <<>> /\ routed \in Seq(Routed) /\ DOMAIN routed = {} /\ epoch = 0
  BY EmptySeq DEF Init
<1>3. TypeOK
  BY <1>1, <1>2, TrafficAssumption DEF TypeOK
<1>4. DOMAIN responseSessions = {} /\ DOMAIN fingerprintSessions = {}
  BY DEF Init, RouterInit, EmptyMap
<1> QED
  BY <1>2, <1>3, <1>4
  DEF IInv, RequestsAreRouted, UsesAreRemembered, EntriesOwnTheirRuns, AnswersAreMinted,
      ActiveFingerprintKeepsRun, MintedRunIsOneConversation

\* Every step keeps the variables typed.
LEMMA NextType == TypeOK /\ [Next]_vars => TypeOK'
<1> SUFFICES ASSUME TypeOK, [Next]_vars PROVE TypeOK'
  OBVIOUS
<1> USE TrafficAssumption
<1>1. ASSUME NEW p \in Payloads, NEW s \in SessionIds, Route(p, s) PROVE TypeOK'
  <2>1. RouterTypeOK'
    BY <1>1, ResolveType DEF TypeOK, Route
  <2>2. [payload |-> p, session |-> s, at |-> now, epoch |-> epoch, answer |-> None]
          \in Routed
    BY DEF Routed, TypeOK, RouterTypeOK
  <2>3. routed' \in Seq(Routed)
    BY <1>1, <2>2, AppendProperties DEF Route, TypeOK
  <2> QED
    BY <1>1, <2>1, <2>3 DEF Route, TypeOK
<1>2. ASSUME NEW i \in DOMAIN routed, NEW rid \in ResponseIds, Answer(i, rid)
      PROVE  TypeOK'
  <2>1. routed[i] \in Routed
    BY ElementOfSeq DEF TypeOK
  <2>2. RouterTypeOK'
    <3>1. routed[i].session \in SessionIds \cup {None}
      BY <2>1 DEF Routed
    <3> QED
      BY <1>2, <3>1, RegisterType DEF Answer, TypeOK
  <2>3. [routed[i] EXCEPT !.answer = rid] \in Routed
    BY <2>1 DEF Routed
  <2>4. routed' \in Seq(Routed)
    BY <1>2, <2>3, ExceptSeq DEF Answer, TypeOK
  <2> QED
    BY <1>2, <2>2, <2>4 DEF Answer, TypeOK
<1>3. ASSUME Tick PROVE TypeOK'
  BY <1>3, RouterStepType DEF Tick, TypeOK, RouterTypeOK
<1>4. ASSUME Restart PROVE TypeOK'
  BY <1>4, RouterStepType DEF Restart, TypeOK
<1>5. ASSUME UNCHANGED vars PROVE TypeOK'
  BY <1>5 DEF vars, routerVars, TypeOK, RouterTypeOK
<1> QED
  BY <1>1, <1>2, <1>3, <1>4, <1>5 DEF Next

\* Variables hold values of their types, in every state of every run of the traffic.
THEOREM TypeCorrect == Spec => []TypeOK
<1>1. Init => TypeOK
  BY InitInv DEF IInv
<1> QED
  BY <1>1, NextType, PTL DEF Spec

-----------------------------------------------------------------------------
(***************************************************************************)
(* The router's memory agrees with the requests it has routed.             *)
(***************************************************************************)

\* What a routed request is, as record fields.
LEMMA RoutedFields ==
  ASSUME TypeOK
  PROVE  \A i \in DOMAIN routed :
           /\ i \in Nat \ {0}
           /\ routed[i].payload \in Payload
           /\ routed[i].session \in SessionIds
           /\ routed[i].at \in Nat
           /\ routed[i].epoch \in Nat
<1> TAKE i \in DOMAIN routed
<1>1. DOMAIN routed = 1..Len(routed) /\ Len(routed) \in Nat
  BY LenProperties DEF TypeOK
<1>2. routed[i] \in Routed
  BY <1>1, ElementOfSeq DEF TypeOK
<1> QED
  BY <1>1, <1>2, TrafficAssumption DEF Routed

\* Routing adds one request at the end and leaves the others.
LEMMA RouteAppends ==
  ASSUME TypeOK, NEW p \in Payloads, NEW s \in SessionIds, Route(p, s)
  PROVE  LET n == Len(routed) + 1
         IN  /\ DOMAIN routed' = DOMAIN routed \cup {n}
             /\ n \in Nat
             /\ \A i \in DOMAIN routed : i < n /\ routed'[i] = routed[i]
             /\ routed'[n].payload = p
             /\ routed'[n].session = s
             /\ routed'[n].at = now
             /\ routed'[n].epoch = epoch
<1> DEFINE new == [payload |-> p, session |-> s, at |-> now, epoch |-> epoch,
                   answer |-> None]
<1>1. new \in Routed
  BY TrafficAssumption DEF Routed, TypeOK, RouterTypeOK
<1>2. routed' = Append(routed, new)
  BY DEF Route
<1>3. DOMAIN routed = 1..Len(routed) /\ Len(routed) \in Nat
  BY LenProperties DEF TypeOK
<1>4. routed' \in Seq(Routed) /\ Len(routed') = Len(routed) + 1
  BY <1>1, <1>2, AppendProperties DEF TypeOK
<1>5. DOMAIN routed' = 1..(Len(routed) + 1)
  BY <1>4, LenProperties
<1>6. \A i \in 1..Len(routed) : routed'[i] = routed[i]
  BY <1>1, <1>2, AppendProperties DEF TypeOK
<1>7. routed'[Len(routed) + 1] = new
  BY <1>1, <1>2, AppendProperties DEF TypeOK
<1> QED
  BY <1>3, <1>5, <1>6, <1>7

\* An answer changes no more of the requests than the answer of one of them.
LEMMA AnswerKeeps ==
  ASSUME TypeOK, NEW i \in DOMAIN routed, NEW rid \in ResponseIds, Answer(i, rid)
  PROVE  /\ DOMAIN routed' = DOMAIN routed
         /\ \A j \in DOMAIN routed : /\ routed'[j].payload = routed[j].payload
                                     /\ routed'[j].session = routed[j].session
                                     /\ routed'[j].at = routed[j].at
                                     /\ routed'[j].epoch = routed[j].epoch
<1>1. routed' = [routed EXCEPT ![i].answer = rid]
  BY DEF Answer
<1>2. DOMAIN routed' = DOMAIN routed
  BY <1>1
<1>3. DOMAIN routed = 1..Len(routed)
  BY LenProperties DEF TypeOK
<1>4. \A j \in DOMAIN routed : routed[j] \in Routed
  BY <1>3, ElementOfSeq DEF TypeOK
<1>5. ASSUME NEW j \in DOMAIN routed
      PROVE  /\ routed'[j].payload = routed[j].payload
             /\ routed'[j].session = routed[j].session
             /\ routed'[j].at = routed[j].at
             /\ routed'[j].epoch = routed[j].epoch
  BY <1>1, <1>4 DEF Routed
<1> QED
  BY <1>2, <1>5

\* The type of the router's maps, as facts about their values.
LEMMA RouterFields ==
  ASSUME TypeOK
  PROVE  /\ now \in Nat /\ epoch \in Nat
         /\ None \notin DOMAIN fingerprintSessions
         /\ \A f \in DOMAIN fingerprintSessions :
              /\ fingerprintSessions[f].sessionId \in SessionIds
              /\ fingerprintSessions[f].lastSeenAt \in Nat
         /\ None \notin DOMAIN responseSessions
         /\ \A rid \in DOMAIN responseSessions : responseSessions[rid] \in SessionIds
<1> USE RouterAssumption, TrafficAssumption
<1>1. PICK seen \in SUBSET Fingerprints :
        fingerprintSessions \in [seen -> FingerprintSession]
  BY DEF TypeOK, RouterTypeOK
<1>2. PICK answered \in SUBSET ResponseIds : responseSessions \in [answered -> SessionIds]
  BY DEF TypeOK, RouterTypeOK
<1>3. now \in Nat /\ epoch \in Nat
  BY DEF TypeOK, RouterTypeOK
<1>4. \A f \in DOMAIN fingerprintSessions : fingerprintSessions[f] \in FingerprintSession
  BY <1>1
<1> QED
  BY <1>1, <1>2, <1>3, <1>4 DEF FingerprintSession

\* What routing a request does, in the four ways there are.
Stays(p, s) ==
  /\ IsStated(p) /\ s = StatedSession(p)
  /\ UNCHANGED <<fingerprintSessions, minted>>

Continues(p, s) ==
  /\ ~IsStated(p) /\ p.previous # None
  /\ s \in Generated => s \in minted
  /\ UNCHANGED <<fingerprintSessions, minted>>

Remembers(p, s) ==
  LET f == p.fingerprint
  IN  /\ ~IsStated(p) /\ f # None
      /\ f \in DOMAIN fingerprintSessions
      /\ now - fingerprintSessions[f].lastSeenAt <= IdleMs
      /\ s = fingerprintSessions[f].sessionId
      /\ DOMAIN fingerprintSessions' = DOMAIN fingerprintSessions
      /\ fingerprintSessions'[f].sessionId = s /\ fingerprintSessions'[f].lastSeenAt = now
      /\ \A g \in DOMAIN fingerprintSessions \ {f} :
           fingerprintSessions'[g] = fingerprintSessions[g]
      /\ UNCHANGED minted

Mints(p, s) ==
  LET f == p.fingerprint
  IN  /\ ~IsStated(p)
      /\ f \in DOMAIN fingerprintSessions
         => now - fingerprintSessions[f].lastSeenAt > IdleMs
      /\ s \in Generated => s \notin minted
      /\ minted' = IF s \in Generated THEN minted \cup {s} ELSE minted
      /\ f = None => UNCHANGED fingerprintSessions
      /\ f # None =>
           /\ DOMAIN fingerprintSessions' = DOMAIN fingerprintSessions \cup {f}
           /\ fingerprintSessions'[f].sessionId = s /\ fingerprintSessions'[f].lastSeenAt = now
           /\ \A g \in DOMAIN fingerprintSessions \ {f} :
                fingerprintSessions'[g] = fingerprintSessions[g]

\* Each way of resolving is one of them (session-router.ts, resolve).
LEMMA ResolveCases ==
  ASSUME TypeOK, AnswersAreMinted, NEW p \in Payload, NEW s \in SessionIds, Resolve(p, s)
  PROVE  /\ Stays(p, s) \/ Continues(p, s) \/ Remembers(p, s) \/ Mints(p, s)
         /\ UNCHANGED <<responseSessions, now>>
<1> USE RouterAssumption, RouterFields
<1>1. UNCHANGED <<responseSessions, now>>
  BY DEF Resolve
<1>2. ASSUME ResolveStated(p, s) PROVE Stays(p, s)
  BY <1>2 DEF ResolveStated, Stays
<1>3. ASSUME ResolveContinuation(p, s) PROVE Continues(p, s)
  BY <1>3 DEF ResolveContinuation, IsContinuation, Continues, AnswersAreMinted
<1>4. ASSUME ResolveFingerprint(p, s) PROVE Remembers(p, s)
  <2>1. p.fingerprint \in DOMAIN fingerprintSessions
    BY <1>4 DEF ResolveFingerprint, IsRecent
  <2> QED
    BY <1>4, <2>1 DEF ResolveFingerprint, IsRecent, Put, Remembers
<1>5. ASSUME ResolveNew(p, s) PROVE Mints(p, s)
  <2>1. /\ p.fingerprint \in DOMAIN fingerprintSessions
           => now - fingerprintSessions[p.fingerprint].lastSeenAt > IdleMs
        /\ ~IsStated(p)
    BY <1>5 DEF ResolveNew, IsRecent
  <2>2. /\ s \in Generated => s \notin minted
        /\ minted' = IF s \in Generated THEN minted \cup {s} ELSE minted
    BY <1>5 DEF ResolveNew
  <2>3. p.fingerprint = None => UNCHANGED fingerprintSessions
    BY <1>5 DEF ResolveNew
  <2>4. ASSUME p.fingerprint # None
        PROVE  fingerprintSessions' = Put(fingerprintSessions, p.fingerprint,
                                          [sessionId |-> s, lastSeenAt |-> now])
    BY <1>5, <2>4 DEF ResolveNew
  <2> QED
    BY <2>1, <2>2, <2>3, <2>4 DEF Put, Mints
<1> QED
  BY <1>1, <1>2, <1>3, <1>4, <1>5 DEF Resolve

\* Only a prompt that was not stated reaches a run by its fingerprint, and only the
\* new request can be of a kind the old ones were not.
LEMMA RouteKeepsKinds ==
  ASSUME TypeOK, NEW p \in Payloads, NEW s \in SessionIds, Route(p, s),
         NEW n, n = Len(routed) + 1
  PROVE  /\ \A i \in DOMAIN routed : ByFingerprint(i)' <=> ByFingerprint(i)
         /\ ByFingerprint(n)' <=> (~IsStated(p) /\ p.previous = None)
<1>1. \A i \in DOMAIN routed : routed'[i] = routed[i]
  BY RouteAppends
<1>2. routed'[n].payload = p
  BY RouteAppends
<1> QED
  BY <1>1, <1>2 DEF ByFingerprint, IsStated, Stated

\* Routing a request keeps the requests in the past and their runs minted.
LEMMA RouteRequests ==
  ASSUME IInv, NEW p \in Payloads, NEW s \in SessionIds, Route(p, s)
  PROVE  RequestsAreRouted'
<1> USE RouterFields, RoutedFields, TrafficAssumption, RouterAssumption
<1>0. PICK n : n = Len(routed) + 1
  OBVIOUS
<1>1. TypeOK /\ p \in Payload /\ Resolve(p, s) /\ epoch' = epoch
  BY DEF IInv, Route
<1>2. now' = now /\ minted \subseteq minted' /\ (s \in Generated => s \in minted')
      /\ (IsStated(p) => s = StatedSession(p))
  <2>1. CASE Stays(p, s)
    BY <1>1, <2>1, StatedIsNamed, ResolveCases DEF Stays, IInv
  <2>2. CASE Continues(p, s)
    BY <1>1, <2>2, ResolveCases DEF Continues, IInv
  <2>3. CASE Remembers(p, s)
    BY <1>1, <2>3, ResolveCases DEF Remembers, IInv, EntriesOwnTheirRuns
  <2>4. CASE Mints(p, s)
    BY <1>1, <2>4, ResolveCases DEF Mints, IInv
  <2> QED
    BY <1>1, <2>1, <2>2, <2>3, <2>4, ResolveCases DEF IInv
<1>3. ASSUME NEW i \in DOMAIN routed'
      PROVE  /\ routed'[i].at <= now' /\ routed'[i].epoch <= epoch'
             /\ IsStated(routed'[i].payload)
                => routed'[i].session = StatedSession(routed'[i].payload)
             /\ routed'[i].session \in Generated => routed'[i].session \in minted'
  <2>1. CASE i \in DOMAIN routed
    BY <1>1, <1>2, <2>1, <1>0, RouteAppends DEF IInv, RequestsAreRouted
  <2>2. CASE i = n
    BY <1>1, <1>2, <2>2, <1>0, RouteAppends
  <2> QED
    BY <1>1, <2>1, <2>2, <1>0, RouteAppends
<1> QED
  BY <1>3 DEF RequestsAreRouted, IsStated, Stated, StatedSession

\* A recent use of a prompt is remembered after any request is routed.
LEMMA RouteUses ==
  ASSUME IInv, NEW p \in Payloads, NEW s \in SessionIds, Route(p, s)
  PROVE  UsesAreRemembered'
<1> DEFINE fs == fingerprintSessions
<1> USE RouterFields, RoutedFields, TrafficAssumption, RouterAssumption
<1>0. PICK n : n = Len(routed) + 1
  OBVIOUS
<1>1. TypeOK /\ p \in Payload /\ Resolve(p, s) /\ epoch' = epoch
  BY DEF IInv, Route
<1>2. now' = now
  BY <1>1, ResolveCases DEF IInv
<1>3. ASSUME NEW i \in DOMAIN routed, ByFingerprint(i), routed[i].epoch = epoch,
             routed[i].payload.fingerprint # None
      PROVE  LET f == routed[i].payload.fingerprint
             IN  /\ f \in DOMAIN fs'
                 /\ routed[i].at <= fs'[f].lastSeenAt
                 /\ now - routed[i].at <= IdleMs => fs'[f].sessionId = routed[i].session
  <2> DEFINE f == routed[i].payload.fingerprint
  <2>1. /\ f \in DOMAIN fs
        /\ routed[i].at <= fs[f].lastSeenAt
        /\ now - routed[i].at <= IdleMs => fs[f].sessionId = routed[i].session
        /\ routed[i].at <= now
    BY <1>3 DEF IInv, UsesAreRemembered, RequestsAreRouted
  <2>2. CASE UNCHANGED fs
    BY <2>1, <2>2
  <2>3. CASE Remembers(p, s)
    BY <1>1, <2>1, <2>3 DEF Remembers
  <2>4. CASE Mints(p, s) /\ p.fingerprint # None
    BY <1>1, <2>1, <2>4 DEF Mints
  <2> QED
    BY <1>1, <2>2, <2>3, <2>4, ResolveCases DEF IInv, Stays, Continues, Mints
<1>4. ASSUME ~IsStated(p), p.previous = None, p.fingerprint # None
      PROVE  LET f == p.fingerprint
             IN  f \in DOMAIN fs' /\ fs'[f].lastSeenAt = now /\ fs'[f].sessionId = s
  <2>1. ~Stays(p, s) /\ ~Continues(p, s)
    BY <1>4 DEF Stays, Continues
  <2>2. Remembers(p, s) \/ Mints(p, s)
    BY <1>1, <2>1, ResolveCases DEF IInv
  <2>3. CASE Remembers(p, s)
    BY <2>3 DEF Remembers
  <2>4. CASE Mints(p, s)
    BY <1>4, <2>4 DEF Mints
  <2> QED
    BY <2>2, <2>3, <2>4
<1>5. ASSUME NEW i \in DOMAIN routed', ByFingerprint(i)', routed'[i].epoch = epoch',
             routed'[i].payload.fingerprint # None
      PROVE  LET f == routed'[i].payload.fingerprint
             IN  /\ f \in DOMAIN fs'
                 /\ routed'[i].at <= fs'[f].lastSeenAt
                 /\ now' - routed'[i].at <= IdleMs => fs'[f].sessionId = routed'[i].session
  <2>1. CASE i \in DOMAIN routed
    <3>1. routed'[i] = routed[i] /\ ByFingerprint(i)
      BY <1>1, <1>5, <2>1, <1>0, RouteAppends, RouteKeepsKinds
    <3> QED
      BY <1>1, <1>2, <1>3, <1>5, <2>1, <3>1
  <2>2. CASE i = n
    <3>1. /\ routed'[i].payload = p /\ routed'[i].session = s /\ routed'[i].at = now
          /\ ~IsStated(p) /\ p.previous = None
      BY <1>1, <1>5, <2>2, <1>0, RouteAppends, RouteKeepsKinds
    <3> QED
      BY <1>1, <1>2, <1>4, <1>5, <3>1
  <2> QED
    BY <1>1, <2>1, <2>2, <1>0, RouteAppends
<1> QED
  BY <1>5 DEF UsesAreRemembered

\* A minted run stays with its entry after any request is routed.
LEMMA RouteEntries ==
  ASSUME IInv, NEW p \in Payloads, NEW s \in SessionIds, Route(p, s)
  PROVE  EntriesOwnTheirRuns'
<1> DEFINE fs == fingerprintSessions
           h == p.fingerprint
           Owned(f) == LET r == fs[f].sessionId
                       IN  /\ r \in minted
                           /\ \A g \in DOMAIN fs : fs[g].sessionId = r => g = f
                           /\ \A i \in DOMAIN routed :
                                ByFingerprint(i) /\ routed[i].session = r
                                => routed[i].payload.fingerprint = f /\ routed[i].epoch = epoch
                           /\ \E i \in DOMAIN routed :
                                routed[i].session = r /\ routed[i].at = fs[f].lastSeenAt
<1> USE RouterFields, RoutedFields, TrafficAssumption, RouterAssumption
<1>0. PICK n : n = Len(routed) + 1
  OBVIOUS
<1>1. TypeOK /\ p \in Payload /\ Resolve(p, s) /\ epoch' = epoch
  BY DEF IInv, Route
<1>2. /\ DOMAIN routed' = DOMAIN routed \cup {n} /\ n \notin DOMAIN routed
      /\ \A i \in DOMAIN routed : routed'[i] = routed[i]
      /\ routed'[n].payload = p /\ routed'[n].session = s
      /\ routed'[n].at = now /\ routed'[n].epoch = epoch
      /\ \A i \in DOMAIN routed : ByFingerprint(i)' <=> ByFingerprint(i)
      /\ ByFingerprint(n)' <=> (~IsStated(p) /\ p.previous = None)
  <2>1. /\ DOMAIN routed' = DOMAIN routed \cup {n}
        /\ \A i \in DOMAIN routed : i < n /\ routed'[i] = routed[i]
        /\ n \in Nat
    BY <1>0, <1>1, RouteAppends
  <2>2. n \notin DOMAIN routed
    BY <2>1
  <2>3. /\ routed'[n].payload = p /\ routed'[n].session = s
        /\ routed'[n].at = now /\ routed'[n].epoch = epoch
    BY <1>0, <1>1, RouteAppends
  <2> QED
    BY <1>0, <1>1, <2>1, <2>2, <2>3, RouteKeepsKinds
<1>3. \A f \in DOMAIN fs : fs[f].sessionId \in Generated => Owned(f)
  BY DEF IInv, EntriesOwnTheirRuns
<1>4. \A i \in DOMAIN routed : routed[i].session \in Generated => routed[i].session \in minted
  BY DEF IInv, RequestsAreRouted
<1> SUFFICES ASSUME NEW f \in DOMAIN fs', fs'[f].sessionId \in Generated
             PROVE  LET r == fs'[f].sessionId
                    IN  /\ r \in minted'
                        /\ \A g \in DOMAIN fs' : fs'[g].sessionId = r => g = f
                        /\ \A i \in DOMAIN routed' :
                             ByFingerprint(i)' /\ routed'[i].session = r
                             => /\ routed'[i].payload.fingerprint = f
                                /\ routed'[i].epoch = epoch'
                        /\ \E i \in DOMAIN routed' :
                             routed'[i].session = r /\ routed'[i].at = fs'[f].lastSeenAt
  BY DEF EntriesOwnTheirRuns
<1> DEFINE r == fs'[f].sessionId
<1>5. CASE Stays(p, s) \/ Continues(p, s)
  <2>1. fs' = fs /\ minted' = minted /\ ~ByFingerprint(n)'
    BY <1>2, <1>5 DEF Stays, Continues
  <2>2. Owned(f) /\ fs'[f] = fs[f]
    BY <1>3, <2>1
  <2>3. ASSUME NEW i \in DOMAIN routed', ByFingerprint(i)', routed'[i].session = r
        PROVE  routed'[i].payload.fingerprint = f /\ routed'[i].epoch = epoch'
    BY <1>1, <1>2, <2>1, <2>2, <2>3
  <2> QED
    BY <1>2, <2>1, <2>2, <2>3
<1>6. CASE Remembers(p, s)
  <2>1. /\ DOMAIN fs' = DOMAIN fs /\ minted' = minted /\ h \in DOMAIN fs
        /\ \A g \in DOMAIN fs : fs'[g].sessionId = fs[g].sessionId
        /\ fs[h].sessionId = s /\ fs'[h].lastSeenAt = now
        /\ \A g \in DOMAIN fs \ {h} : fs'[g] = fs[g]
    BY <1>6 DEF Remembers
  <2>2. Owned(f) /\ r = fs[f].sessionId
    BY <1>3, <2>1
  <2>3. r \in minted' /\ \A g \in DOMAIN fs' : fs'[g].sessionId = r => g = f
    BY <2>1, <2>2
  <2>4. ASSUME NEW i \in DOMAIN routed', ByFingerprint(i)', routed'[i].session = r
        PROVE  routed'[i].payload.fingerprint = f /\ routed'[i].epoch = epoch'
    <3>1. CASE i \in DOMAIN routed
      BY <1>1, <1>2, <2>2, <2>4, <3>1
    <3>2. CASE i = n
      BY <1>1, <1>2, <2>1, <2>2, <2>4, <3>2
    <3> QED
      BY <1>2, <3>1, <3>2
  <2>5. \E i \in DOMAIN routed' :
          routed'[i].session = r /\ routed'[i].at = fs'[f].lastSeenAt
    <3>1. CASE f = h
      BY <1>2, <2>1, <2>2, <3>1
    <3>2. CASE f # h
      BY <1>2, <2>1, <2>2, <3>2
    <3> QED
      BY <3>1, <3>2
  <2> QED
    BY <2>3, <2>4, <2>5
<1>7. CASE Mints(p, s)
  <2>1. /\ s \in Generated => s \notin minted /\ s \in minted'
        /\ minted \subseteq minted'
    BY <1>7 DEF Mints
  <2>2. ASSUME f \in DOMAIN fs, f # h \/ h = None PROVE fs'[f] = fs[f] /\ Owned(f)
    <3>1. fs'[f] = fs[f]
      BY <1>1, <1>7, <2>2 DEF Mints
    <3> QED
      BY <1>3, <2>2, <3>1
  <2>3. CASE f = h /\ h # None
    <3>1. r = s /\ fs'[f].lastSeenAt = now /\ r \notin minted /\ r \in minted'
      BY <1>7, <2>1, <2>3 DEF Mints
    <3>2. ASSUME NEW g \in DOMAIN fs', fs'[g].sessionId = r PROVE g = f
      <4>1. CASE g # f
        <5>1. g \in DOMAIN fs /\ fs'[g] = fs[g]
          BY <1>7, <2>3, <4>1 DEF Mints
        <5> QED
          BY <1>3, <3>1, <3>2, <5>1
      <4> QED
        BY <4>1
    <3>3. ASSUME NEW i \in DOMAIN routed', ByFingerprint(i)', routed'[i].session = r
          PROVE  routed'[i].payload.fingerprint = f /\ routed'[i].epoch = epoch'
      BY <1>1, <1>2, <1>4, <2>3, <3>1, <3>3
    <3>4. routed'[n].session = r /\ routed'[n].at = fs'[f].lastSeenAt
      BY <1>2, <3>1
    <3> QED
      BY <1>2, <3>1, <3>2, <3>3, <3>4
  <2>4. CASE f # h \/ h = None
    <3>1. f \in DOMAIN fs
      BY <1>7, <2>4 DEF Mints
    <3>2. fs'[f] = fs[f] /\ Owned(f) /\ r \in minted /\ r # s
      BY <2>1, <2>2, <2>4, <3>1
    <3>3. ASSUME NEW g \in DOMAIN fs', fs'[g].sessionId = r PROVE g = f
      <4>1. g # h \/ h = None
        BY <1>7, <3>2, <3>3 DEF Mints
      <4>2. g \in DOMAIN fs /\ fs'[g] = fs[g]
        BY <1>7, <4>1 DEF Mints
      <4> QED
        BY <3>2, <3>3, <4>2
    <3>4. ASSUME NEW i \in DOMAIN routed', ByFingerprint(i)', routed'[i].session = r
          PROVE  routed'[i].payload.fingerprint = f /\ routed'[i].epoch = epoch'
      BY <1>1, <1>2, <3>2, <3>4
    <3>5. \E i \in DOMAIN routed' :
            routed'[i].session = r /\ routed'[i].at = fs'[f].lastSeenAt
      BY <1>2, <3>2
    <3> QED
      BY <2>1, <3>2, <3>3, <3>4, <3>5
  <2> QED
    BY <2>3, <2>4
<1> QED
  BY <1>1, <1>5, <1>6, <1>7, ResolveCases DEF IInv

\* Routing leaves the runs of the answered responses minted.
LEMMA RouteAnswers ==
  ASSUME IInv, NEW p \in Payloads, NEW s \in SessionIds, Route(p, s)
  PROVE  AnswersAreMinted'
<1>1. p \in Payload /\ Resolve(p, s)
  BY TrafficAssumption DEF Route
<1>2. UNCHANGED responseSessions /\ minted \subseteq minted'
  BY <1>1, ResolveCases DEF IInv, Stays, Continues, Remembers, Mints
<1> QED
  BY <1>2 DEF IInv, AnswersAreMinted

\* Routing keeps the requests of an active prompt together.
LEMMA RouteActive ==
  ASSUME IInv, NEW p \in Payloads, NEW s \in SessionIds, Route(p, s)
  PROVE  ActiveFingerprintKeepsRun'
<1> USE RouterFields, RoutedFields, TrafficAssumption, RouterAssumption
<1>0. PICK n : n = Len(routed) + 1
  OBVIOUS
<1>1. TypeOK /\ p \in Payload /\ Resolve(p, s) /\ epoch' = epoch
  BY DEF IInv, Route
<1>2. /\ DOMAIN routed' = DOMAIN routed \cup {n} /\ n \in Nat
      /\ \A i \in DOMAIN routed : i < n /\ routed'[i] = routed[i]
      /\ routed'[n].payload = p /\ routed'[n].session = s
      /\ routed'[n].at = now /\ routed'[n].epoch = epoch
  BY <1>0, <1>1, RouteAppends
<1>3. /\ \A i \in DOMAIN routed : ByFingerprint(i)' <=> ByFingerprint(i)
      /\ ByFingerprint(n)' <=> (~IsStated(p) /\ p.previous = None)
  BY <1>0, <1>1, RouteKeepsKinds
<1>4. ASSUME NEW i \in DOMAIN routed, ByFingerprint(i), ~IsStated(p), p.previous = None,
             routed[i].payload.fingerprint # None,
             routed[i].payload.fingerprint = p.fingerprint,
             routed[i].epoch = epoch, now - routed[i].at <= IdleMs
      PROVE  routed[i].session = s
  <2> DEFINE f == p.fingerprint
  <2>1. /\ f \in DOMAIN fingerprintSessions
        /\ routed[i].at <= fingerprintSessions[f].lastSeenAt
        /\ fingerprintSessions[f].sessionId = routed[i].session
    BY <1>4 DEF IInv, UsesAreRemembered
  <2>2. now - fingerprintSessions[f].lastSeenAt <= IdleMs
    BY <1>1, <1>4, <2>1
  <2>3. ~Stays(p, s) /\ ~Continues(p, s) /\ ~Mints(p, s)
    BY <1>1, <1>4, <2>1, <2>2 DEF Stays, Continues, Mints
  <2>4. Remembers(p, s)
    BY <1>1, <2>3, ResolveCases DEF IInv
  <2> QED
    BY <2>1, <2>4 DEF Remembers
<1> SUFFICES ASSUME NEW i \in DOMAIN routed', NEW j \in DOMAIN routed',
                    i < j, ByFingerprint(i)', ByFingerprint(j)',
                    routed'[i].payload.fingerprint # None,
                    routed'[i].payload.fingerprint = routed'[j].payload.fingerprint,
                    routed'[i].epoch = routed'[j].epoch,
                    routed'[j].at - routed'[i].at <= IdleMs
             PROVE  routed'[i].session = routed'[j].session
  BY DEF ActiveFingerprintKeepsRun
<1>5. CASE j \in DOMAIN routed
  <2>1. i \in DOMAIN routed
    BY <1>1, <1>2, <1>5
  <2>2. routed'[i] = routed[i] /\ routed'[j] = routed[j]
    BY <1>2, <1>5, <2>1
  <2>3. ByFingerprint(i) /\ ByFingerprint(j)
    BY <1>3, <1>5, <2>1
  <2> QED
    BY <1>5, <2>1, <2>2, <2>3 DEF IInv, ActiveFingerprintKeepsRun
<1>6. CASE j = n
  <2>1. i \in DOMAIN routed
    BY <1>2, <1>6
  <2>2. routed'[i] = routed[i] /\ ByFingerprint(i) /\ ~IsStated(p) /\ p.previous = None
    BY <1>2, <1>3, <1>6, <2>1
  <2> QED
    BY <1>2, <1>4, <1>6, <2>1, <2>2
<1> QED
  BY <1>2, <1>5, <1>6

\* Routing keeps a minted run one conversation.
LEMMA RouteMinted ==
  ASSUME IInv, NEW p \in Payloads, NEW s \in SessionIds, Route(p, s)
  PROVE  MintedRunIsOneConversation'
<1> USE RouterFields, RoutedFields, TrafficAssumption, RouterAssumption
<1>0. PICK n : n = Len(routed) + 1
  OBVIOUS
<1>1. TypeOK /\ p \in Payload /\ Resolve(p, s) /\ epoch' = epoch
  BY DEF IInv, Route
<1>2. /\ DOMAIN routed' = DOMAIN routed \cup {n} /\ n \in Nat
      /\ \A i \in DOMAIN routed : i < n /\ routed'[i] = routed[i]
      /\ routed'[n].payload = p /\ routed'[n].session = s
      /\ routed'[n].at = now /\ routed'[n].epoch = epoch
      /\ DOMAIN routed = 1..(n - 1)
  <2>1. DOMAIN routed = 1..Len(routed) /\ Len(routed) \in Nat
    BY <1>1, LenProperties DEF TypeOK
  <2>2. DOMAIN routed = 1..(n - 1) /\ n \in Nat
    BY <1>0, <2>1
  <2>3. /\ DOMAIN routed' = DOMAIN routed \cup {n}
        /\ \A i \in DOMAIN routed : i < n /\ routed'[i] = routed[i]
        /\ routed'[n].payload = p /\ routed'[n].session = s
        /\ routed'[n].at = now /\ routed'[n].epoch = epoch
    BY <1>0, <1>1, RouteAppends
  <2> QED
    BY <2>2, <2>3
<1>3. /\ \A i \in DOMAIN routed : ByFingerprint(i)' <=> ByFingerprint(i)
      /\ ByFingerprint(n)' <=> (~IsStated(p) /\ p.previous = None)
  BY <1>0, <1>1, RouteKeepsKinds
<1>4. ASSUME NEW i \in DOMAIN routed, ByFingerprint(i), ~IsStated(p), p.previous = None,
             routed[i].session = s, s \in Generated
      PROVE  /\ routed[i].payload.fingerprint = p.fingerprint
             /\ p.fingerprint # None
             /\ routed[i].epoch = epoch
             /\ \E k \in 1..(n - 1) : routed[k].session = s /\ now - routed[k].at <= IdleMs
  <2>1. s \in minted
    BY <1>4 DEF IInv, RequestsAreRouted
  <2>2. ~Stays(p, s) /\ ~Continues(p, s) /\ ~Mints(p, s)
    BY <1>4, <2>1 DEF Stays, Continues, Mints
  <2>3. Remembers(p, s)
    BY <1>1, <2>2, ResolveCases DEF IInv
  <2> DEFINE f == p.fingerprint
  <2>4. /\ f \in DOMAIN fingerprintSessions /\ f # None
        /\ fingerprintSessions[f].sessionId = s
        /\ now - fingerprintSessions[f].lastSeenAt <= IdleMs
    BY <2>3 DEF Remembers
  <2>5. /\ routed[i].payload.fingerprint = f /\ routed[i].epoch = epoch
        /\ \E k \in DOMAIN routed :
             /\ routed[k].session = s
             /\ routed[k].at = fingerprintSessions[f].lastSeenAt
    BY <1>4, <2>4 DEF IInv, EntriesOwnTheirRuns
  <2> QED
    BY <1>2, <2>4, <2>5
<1> SUFFICES ASSUME NEW i \in DOMAIN routed', NEW j \in DOMAIN routed',
                    i < j, ByFingerprint(i)', ByFingerprint(j)',
                    routed'[i].session = routed'[j].session,
                    routed'[i].session \in Generated
             PROVE  /\ routed'[i].payload.fingerprint = routed'[j].payload.fingerprint
                    /\ routed'[i].payload.fingerprint # None
                    /\ routed'[i].epoch = routed'[j].epoch
                    /\ \E k \in 1..(j - 1) :
                         /\ routed'[k].session = routed'[j].session
                         /\ routed'[j].at - routed'[k].at <= IdleMs
  BY DEF MintedRunIsOneConversation
<1>5. CASE j \in DOMAIN routed
  <2>1. i \in DOMAIN routed
    BY <1>1, <1>2, <1>5
  <2>2. routed'[i] = routed[i] /\ routed'[j] = routed[j]
    BY <1>2, <1>5, <2>1
  <2>3. ByFingerprint(i) /\ ByFingerprint(j)
    BY <1>3, <1>5, <2>1
  <2>4. /\ routed[i].payload.fingerprint = routed[j].payload.fingerprint
        /\ routed[i].payload.fingerprint # None
        /\ routed[i].epoch = routed[j].epoch
        /\ \E k \in 1..(j - 1) : /\ routed[k].session = routed[j].session
                                 /\ routed[j].at - routed[k].at <= IdleMs
    BY <1>5, <2>1, <2>2, <2>3 DEF IInv, MintedRunIsOneConversation
  <2>5. PICK k \in 1..(j - 1) : /\ routed[k].session = routed[j].session
                                /\ routed[j].at - routed[k].at <= IdleMs
    BY <2>4
  <2>6. k \in DOMAIN routed /\ routed'[k] = routed[k]
    BY <1>2, <1>5, <2>5
  <2> QED
    BY <2>2, <2>4, <2>5, <2>6
<1>6. CASE j = n
  <2>1. i \in DOMAIN routed
    BY <1>2, <1>6
  <2>2. routed'[i] = routed[i] /\ ByFingerprint(i) /\ ~IsStated(p) /\ p.previous = None
    BY <1>2, <1>3, <1>6, <2>1
  <2>3. /\ routed[i].payload.fingerprint = p.fingerprint /\ p.fingerprint # None
        /\ routed[i].epoch = epoch
        /\ \E k \in 1..(n - 1) : routed[k].session = s /\ now - routed[k].at <= IdleMs
    BY <1>2, <1>4, <1>6, <2>1, <2>2
  <2> QED
    BY <1>2, <1>6, <2>2, <2>3
<1> QED
  BY <1>2, <1>5, <1>6

-----------------------------------------------------------------------------
(***************************************************************************)
(* The steps that route nothing.                                           *)
(***************************************************************************)

\* Requests stay as they were routed while time passes and processes start.
LEMMA RequestsStay ==
  ASSUME IInv, DOMAIN routed' = DOMAIN routed,
         \A j \in DOMAIN routed : /\ routed'[j].payload = routed[j].payload
                                  /\ routed'[j].session = routed[j].session
                                  /\ routed'[j].at = routed[j].at
                                  /\ routed'[j].epoch = routed[j].epoch,
         now' \in Nat, now <= now', epoch' \in Nat, epoch <= epoch', UNCHANGED minted
  PROVE  RequestsAreRouted'
<1>1. TypeOK
  BY DEF IInv
<1>2. ASSUME NEW j \in DOMAIN routed'
      PROVE  /\ routed'[j].at <= now' /\ routed'[j].epoch <= epoch'
             /\ IsStated(routed'[j].payload)
                => routed'[j].session = StatedSession(routed'[j].payload)
             /\ routed'[j].session \in Generated => routed'[j].session \in minted'
  BY <1>1, RoutedFields, RouterFields DEF IInv, RequestsAreRouted
<1> QED
  BY <1>2 DEF RequestsAreRouted, IsStated, Stated, StatedSession

\* A response that completes adds its request's run to the router's memory.
LEMMA AnswerInv ==
  ASSUME IInv, NEW i \in DOMAIN routed, NEW rid \in ResponseIds, Answer(i, rid)
  PROVE  IInv'
<1> USE RoutedFields, RouterAssumption
<1>1. TypeOK /\ TypeOK'
  BY NextType DEF IInv, Next
<1>2. /\ DOMAIN routed' = DOMAIN routed
      /\ \A j \in DOMAIN routed : /\ routed'[j].payload = routed[j].payload
                                  /\ routed'[j].session = routed[j].session
                                  /\ routed'[j].at = routed[j].at
                                  /\ routed'[j].epoch = routed[j].epoch
  BY <1>1, AnswerKeeps
<1>3. \A j \in DOMAIN routed : ByFingerprint(j)' <=> ByFingerprint(j)
  BY <1>2 DEF ByFingerprint, IsStated, Stated
<1>4. routed[i].session # None
  BY <1>1 DEF SessionIds
<1>5. /\ UNCHANGED <<fingerprintSessions, minted, now, epoch>>
      /\ responseSessions' = Put(responseSessions, rid, routed[i].session)
  BY <1>4 DEF Answer, RegisterResponse
<1>6. RequestsAreRouted'
  BY <1>1, <1>2, <1>5, RequestsStay, RouterFields
<1>7. UsesAreRemembered'
  BY <1>2, <1>3, <1>5 DEF IInv, UsesAreRemembered
<1>8. EntriesOwnTheirRuns'
  BY <1>2, <1>3, <1>5 DEF IInv, EntriesOwnTheirRuns
<1>9. AnswersAreMinted'
  BY <1>5 DEF IInv, AnswersAreMinted, RequestsAreRouted, Put
<1>10. ActiveFingerprintKeepsRun'
  BY <1>2, <1>3, <1>5 DEF IInv, ActiveFingerprintKeepsRun
<1>11. MintedRunIsOneConversation'
  <2>1. \A j \in DOMAIN routed : \A k \in 1..(j - 1) : k \in DOMAIN routed
    BY <1>1, LenProperties DEF TypeOK
  <2> QED
    BY <1>2, <1>3, <2>1 DEF IInv, MintedRunIsOneConversation
<1> QED
  BY <1>1, <1>6, <1>7, <1>8, <1>9, <1>10, <1>11 DEF IInv

\* Time may pass at any moment.
LEMMA TickInv == ASSUME IInv, Tick PROVE IInv'
<1> USE RouterFields, RoutedFields, RouterAssumption
<1>1. TypeOK /\ TypeOK'
  BY NextType DEF IInv, Next
<1>2. /\ UNCHANGED <<fingerprintSessions, responseSessions, minted, routed, epoch>>
      /\ now' = now + 1
  BY DEF Tick
<1>3. \A j \in DOMAIN routed : ByFingerprint(j)' <=> ByFingerprint(j)
  BY <1>2 DEF ByFingerprint, IsStated, Stated
<1>4. RequestsAreRouted'
  BY <1>1, <1>2, RequestsStay
<1>5. UsesAreRemembered'
  BY <1>1, <1>2, <1>3 DEF IInv, UsesAreRemembered
<1>6. EntriesOwnTheirRuns' /\ AnswersAreMinted'
  BY <1>2, <1>3 DEF IInv, EntriesOwnTheirRuns, AnswersAreMinted
<1>7. ActiveFingerprintKeepsRun' /\ MintedRunIsOneConversation'
  BY <1>2, <1>3 DEF IInv, ActiveFingerprintKeepsRun, MintedRunIsOneConversation
<1> QED
  BY <1>1, <1>4, <1>5, <1>6, <1>7 DEF IInv

\* A proxy that starts again has forgotten every prompt and response.
LEMMA RestartInv == ASSUME IInv, Restart PROVE IInv'
<1> USE RouterFields, RoutedFields, RouterAssumption
<1>1. TypeOK /\ TypeOK'
  BY NextType DEF IInv, Next
<1>2. /\ UNCHANGED <<minted, routed, now>>
      /\ epoch' = epoch + 1
      /\ DOMAIN fingerprintSessions' = {} /\ DOMAIN responseSessions' = {}
  BY DEF Restart, NewRouter, EmptyMap
<1>3. \A j \in DOMAIN routed : ByFingerprint(j)' <=> ByFingerprint(j)
  BY <1>2 DEF ByFingerprint, IsStated, Stated
<1>4. RequestsAreRouted'
  BY <1>1, <1>2, RequestsStay
<1>5. UsesAreRemembered'
  BY <1>1, <1>2 DEF IInv, UsesAreRemembered, RequestsAreRouted
<1>6. EntriesOwnTheirRuns' /\ AnswersAreMinted'
  BY <1>2 DEF EntriesOwnTheirRuns, AnswersAreMinted
<1>7. ActiveFingerprintKeepsRun' /\ MintedRunIsOneConversation'
  BY <1>2, <1>3 DEF IInv, ActiveFingerprintKeepsRun, MintedRunIsOneConversation
<1> QED
  BY <1>1, <1>4, <1>5, <1>6, <1>7 DEF IInv

-----------------------------------------------------------------------------
(***************************************************************************)
(* The theorems.                                                           *)
(***************************************************************************)

\* Every step keeps the router's memory and its requests in agreement.
LEMMA NextInv == IInv /\ [Next]_vars => IInv'
<1> SUFFICES ASSUME IInv, [Next]_vars PROVE IInv'
  OBVIOUS
<1>1. ASSUME NEW p \in Payloads, NEW s \in SessionIds, Route(p, s) PROVE IInv'
  <2>1. TypeOK'
    BY <1>1, NextType DEF IInv, Next
  <2> QED
    BY <1>1, <2>1, RouteRequests, RouteUses, RouteEntries, RouteAnswers, RouteActive,
       RouteMinted DEF IInv
<1>2. CASE UNCHANGED vars
  <2>1. TypeOK'
    BY <1>2, NextType DEF IInv
  <2>2. UNCHANGED <<fingerprintSessions, responseSessions, minted, now, epoch, routed>>
    BY <1>2 DEF vars, routerVars
  <2>3. \A j \in DOMAIN routed : ByFingerprint(j)' <=> ByFingerprint(j)
    BY <2>2 DEF ByFingerprint, IsStated, Stated
  <2>4. RequestsAreRouted'
    BY <2>2, RequestsStay, RouterFields DEF IInv
  <2>5. UsesAreRemembered' /\ EntriesOwnTheirRuns' /\ AnswersAreMinted'
    BY <2>2, <2>3 DEF IInv, UsesAreRemembered, EntriesOwnTheirRuns, AnswersAreMinted
  <2>6. ActiveFingerprintKeepsRun' /\ MintedRunIsOneConversation'
    BY <2>2, <2>3 DEF IInv, ActiveFingerprintKeepsRun, MintedRunIsOneConversation
  <2> QED
    BY <2>1, <2>4, <2>5, <2>6 DEF IInv
<1> QED
  BY <1>1, <1>2, AnswerInv, TickInv, RestartInv DEF Next

\* The router's memory and the requests it has routed agree in every state: IInv holds
\* the type invariant and the two properties below.
THEOREM RoutingAgrees == Spec => []IInv
<1>1. Init => IInv
  BY InitInv
<1> QED
  BY <1>1, NextInv, PTL DEF Spec

\* Requests of one Codex session are in one run in every state of agreement.
LEMMA StatedRequestsShare == IInv => CodexSessionKeepsRun
<1> SUFFICES ASSUME IInv, NEW i \in DOMAIN routed, NEW j \in DOMAIN routed,
                    routed[i].payload.header = None, routed[j].payload.header = None,
                    routed[i].payload.codexRoute # None,
                    routed[i].payload.codexRoute = routed[j].payload.codexRoute
             PROVE  routed[i].session = routed[j].session
  BY DEF CodexSessionKeepsRun
<1>1. routed[i].payload \in Payload /\ routed[j].payload \in Payload
  BY RoutedFields DEF IInv
<1>2. /\ routed[i].session = Safe[routed[i].payload.codexRoute]
      /\ routed[j].session = Safe[routed[j].payload.codexRoute]
  BY <1>1, CodexSession DEF IInv, RequestsAreRouted
<1> QED
  BY <1>2

\* Requests of one Codex session, and requests of one active prompt, share a run,
\* through restarts and however other requests are routed in between.
THEOREM RunsAreShared == Spec => []RequestsShareRuns
<1>1. IInv => RequestsShareRuns
  BY StatedRequestsShare DEF IInv, RequestsShareRuns
<1> QED
  BY <1>1, RoutingAgrees, PTL

\* A run the router mints is one conversation: one prompt, one process, no idle gap.
THEOREM MintedRuns == Spec => []MintedRunIsOneConversation
<1>1. IInv => MintedRunIsOneConversation
  BY DEF IInv
<1> QED
  BY <1>1, RoutingAgrees, PTL

=============================================================================
