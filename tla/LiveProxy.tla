------------------------------ MODULE LiveProxy ------------------------------
(***************************************************************************)
(* The live capture proxy `token-profiler proxy serve`                     *)
(* (src/adapters/codex/live-proxy/server.ts, recording.ts, transport.ts),  *)
(* composed with its session router and with the runs it writes.           *)
(*                                                                         *)
(* Node runs the handlers of all requests on one thread: an action below   *)
(* is what one callback and the microtasks it queues do before the event   *)
(* loop can run anything else.  A handler that awaits an append gives the  *)
(* loop back, so the appends of all requests interleave.                   *)
(*                                                                         *)
(* The upstream, the clients, the disk and the operator are environment:   *)
(* their steps are bounded by constants, and nothing makes them happen.    *)
(***************************************************************************)
EXTENDS SessionRouter, Sequences

CONSTANTS
  Requests,         \* the HTTP requests clients may send
  Payloads,         \* the payloads they may carry, a subset of Payload
  MaxArtifacts,     \* bound on the artifacts extracted from one payload
  MaxTime,          \* bound on the wall clock
  MaxDiskFailures,  \* bound on appends that fail
  MaxDepartures,    \* bound on clients that close their connection early
  MaxKills,         \* bound on processes killed from outside
  MaxRestarts       \* bound on processes started again

ASSUME ProxyAssumption ==
  /\ Payloads \subseteq Payload
  /\ None \notin Requests \cup Payload
  /\ MaxArtifacts \in Nat
  /\ MaxTime \in Nat
  /\ MaxDiskFailures \in Nat
  /\ MaxDepartures \in Nat
  /\ MaxKills \in Nat
  /\ MaxRestarts \in Nat

VARIABLES
  stage,      \* where the handler of each request is
  client,     \* whether the client of each request holds its connection
  payload,    \* the parsed payload of a profiled request, else None
  session,    \* the run the handler's closure writes to, or None
  artifacts,  \* how many artifacts its payload holds
  written,    \* how many of its recording events are appended
  response,   \* the id of the completed response, once it is observed
  usage,      \* the usage observation of the request
  runs,       \* the events.jsonl of each run
  known,      \* response ids the clients have seen complete
  phase,      \* the life of the proxy process
  awaited,    \* the observations close() waits for
  epoch,      \* the number of the process
  routedBy,   \* the process that routed each request
  mishaps     \* the environment's bounded steps, counted

requestVars == <<payload, session, artifacts, routedBy>>
processVars == <<phase, awaited, epoch>>
vars == <<routerVars, requestVars, processVars, stage, client, written,
          response, usage, runs, known, mishaps>>

(***************************************************************************)
(* A request is in hand from the end of its body to the end of its         *)
(* response.  The stages after "finishing" are final:                      *)
(*   answered   the response was ended after its observations settled      *)
(*   refused    the proxy answered 413 or 502 and forwarded nothing        *)
(*   failed     the upstream broke off                                     *)
(*   destroyed  the proxy cut the response because an observation failed   *)
(*   abandoned  the client left and the upstream request was destroyed     *)
(*   lost       the process ended first                                    *)
(***************************************************************************)
InHand == {"recording", "forwarded", "streaming", "finishing"}
Final == {"answered", "refused", "failed", "destroyed", "abandoned", "lost"}
Stages == {"unsent"} \cup InHand \cup Final

Phases == {"serving", "draining", "closing", "exited", "crashed"}
Alive == phase \in {"serving", "draining", "closing"}

\* The events of a run: index 0 is the turn identity of a request, 1..artifacts
\* are its artifacts in order, and artifacts + 1 is its usage.
Event == [request : Requests, index : Nat]
EventOf(r, i) == [request |-> r, index |-> i]
UsageIndex(r) == artifacts[r] + 1

\* pendingObservations: the queued observations that have not settled.
PendingObservations == {r \in Requests : usage[r] = "writing"}

Init ==
  /\ RouterInit
  /\ stage = [r \in Requests |-> "unsent"]
  /\ client = [r \in Requests |-> "connected"]
  /\ payload = [r \in Requests |-> None]
  /\ session = [r \in Requests |-> None]
  /\ artifacts = [r \in Requests |-> 0]
  /\ written = [r \in Requests |-> 0]
  /\ response = [r \in Requests |-> None]
  /\ usage = [r \in Requests |-> "none"]
  /\ runs = [s \in SessionIds |-> <<>>]
  /\ known = {}
  /\ phase = "serving"
  /\ awaited = {}
  /\ epoch = 0
  /\ routedBy = [r \in Requests |-> 0]
  /\ mishaps = [disk |-> 0, departures |-> 0, kills |-> 0]

-----------------------------------------------------------------------------
(***************************************************************************)
(* The request handler.                                                    *)
(***************************************************************************)

\* New connections are accepted until server.close is called, so also while
\* close() still waits for observations.
Accepting == phase \in {"serving", "draining"}

MoveTo(r, s) == stage' = [stage EXCEPT ![r] = s]

\* The body of a profiled request is complete: it is routed, and its handler
\* waits for the first append.
Receive(r, p, s, n) ==
  /\ Accepting /\ stage[r] = "unsent"
  /\ p.previous \in known \cup {None}
  /\ Resolve(p, s)
  /\ payload' = [payload EXCEPT ![r] = p]
  /\ session' = [session EXCEPT ![r] = s]
  /\ artifacts' = [artifacts EXCEPT ![r] = n]
  /\ routedBy' = [routedBy EXCEPT ![r] = epoch]
  /\ MoveTo(r, "recording")
  /\ UNCHANGED <<processVars, client, written, response, usage, runs, known, mishaps>>

\* A body that is empty, not JSON, or cannot be decoded is forwarded unrecorded.
ReceiveOpaque(r) ==
  /\ Accepting /\ stage[r] = "unsent"
  /\ MoveTo(r, "forwarded")
  /\ routedBy' = [routedBy EXCEPT ![r] = epoch]
  /\ UNCHANGED <<routerVars, processVars, payload, session, artifacts, client,
                 written, response, usage, runs, known, mishaps>>

\* A body over maxBodyBytes, or one whose connection breaks, is refused.
RefuseBody(r) ==
  /\ Accepting /\ stage[r] = "unsent"
  /\ MoveTo(r, "refused")
  /\ UNCHANGED <<routerVars, requestVars, processVars, client, written, response,
                 usage, runs, known, mishaps>>

\* Slip: the loop over the events forgets to await, so the first append forwards.
AppendRecordUnawaited(r) ==
  /\ Alive /\ session[r] # None /\ stage[r] \in InHand
  /\ written[r] <= artifacts[r]
  /\ runs' = [runs EXCEPT ![session[r]] = Append(@, EventOf(r, written[r]))]
  /\ written' = [written EXCEPT ![r] = @ + 1]
  /\ MoveTo(r, IF stage[r] = "recording" THEN "forwarded" ELSE stage[r])
  /\ UNCHANGED <<routerVars, requestVars, processVars, client, response, usage,
                 known, mishaps>>

\* recordPayloadArtifacts: one append settles and the next one is started; after
\* the last one the request goes to the upstream.
AppendRecord(r) ==
  /\ Alive /\ stage[r] = "recording"
  /\ runs' = [runs EXCEPT ![session[r]] = Append(@, EventOf(r, written[r]))]
  /\ written' = [written EXCEPT ![r] = @ + 1]
  /\ MoveTo(r, IF written[r] = artifacts[r] THEN "forwarded" ELSE "recording")
  /\ UNCHANGED <<routerVars, requestVars, processVars, client, response, usage,
                 known, mishaps>>

\* Slip: a failed append starts the recording of the request over.
AppendRecordRetries(r) ==
  /\ Alive /\ stage[r] = "recording"
  /\ mishaps.disk < MaxDiskFailures
  /\ mishaps' = [mishaps EXCEPT !.disk = @ + 1]
  /\ written' = [written EXCEPT ![r] = 0]
  /\ UNCHANGED <<routerVars, requestVars, processVars, stage, client, response,
                 usage, runs, known>>

\* An append that fails takes the handler to its catch block: 502, not forwarded.
AppendRecordFails(r) ==
  /\ Alive /\ stage[r] = "recording"
  /\ mishaps.disk < MaxDiskFailures
  /\ mishaps' = [mishaps EXCEPT !.disk = @ + 1]
  /\ MoveTo(r, "refused")
  /\ UNCHANGED <<routerVars, requestVars, processVars, client, written, response,
                 usage, runs, known>>

-----------------------------------------------------------------------------
(***************************************************************************)
(* forwardRequest and the response observer.                               *)
(***************************************************************************)
UpstreamResponds(r) ==
  /\ Alive /\ stage[r] = "forwarded"
  /\ MoveTo(r, "streaming")
  /\ UNCHANGED <<routerVars, requestVars, processVars, client, written, response,
                 usage, runs, known, mishaps>>

\* Slip: a response that reports no usage is not registered.
CompletedOnlyWithUsage(r, rid, reported) ==
  /\ response[r] = None
  /\ \A q \in Requests : response[q] # rid
  /\ response' = [response EXCEPT ![r] = rid]
  /\ IF reported THEN RegisterResponse(rid, session[r]) ELSE UNCHANGED routerVars
  /\ usage' = [usage EXCEPT ![r] = IF reported /\ session[r] # None
                                   THEN "writing" ELSE @]
  /\ known' = IF client[r] = "connected" THEN known \cup {rid} ELSE known

\* The observer calls onCompleted: the response id is registered in the
\* microtasks of this callback, and only then is the usage append started.
Completed(r, rid, reported) ==
  /\ response[r] = None
  /\ \A q \in Requests : response[q] # rid
  /\ response' = [response EXCEPT ![r] = rid]
  /\ RegisterResponse(rid, session[r])
  /\ usage' = [usage EXCEPT ![r] = IF reported /\ session[r] # None
                                   THEN "writing" ELSE @]
  /\ known' = IF client[r] = "connected" THEN known \cup {rid} ELSE known

\* A chunk of the stream closes the block of response.completed.
ObserveChunk(r, rid, reported) ==
  /\ Alive /\ stage[r] = "streaming"
  /\ Completed(r, rid, reported)
  /\ UNCHANGED <<requestVars, processVars, stage, client, written, runs, mishaps>>

\* finish(): the body was one JSON document, or its last block was not closed.
ObserveAtEnd(r, rid, reported) ==
  /\ Alive /\ stage[r] = "streaming"
  /\ Completed(r, rid, reported)
  /\ MoveTo(r, "finishing")
  /\ UNCHANGED <<requestVars, processVars, client, written, runs, mishaps>>

\* finish() with nothing new to report: it waits for the completions so far.
UpstreamEnds(r) ==
  /\ Alive /\ stage[r] = "streaming"
  /\ MoveTo(r, "finishing")
  /\ UNCHANGED <<routerVars, requestVars, processVars, client, written, response,
                 usage, runs, known, mishaps>>

\* An error before the headers is answered 502; one after them ends or destroys
\* the response half way.
UpstreamFails(r) ==
  /\ Alive /\ stage[r] \in {"forwarded", "streaming"}
  /\ MoveTo(r, "failed")
  /\ UNCHANGED <<routerVars, requestVars, processVars, client, written, response,
                 usage, runs, known, mishaps>>

\* recordUsageEvent settles.
AppendUsage(r) ==
  /\ Alive /\ usage[r] = "writing"
  /\ runs' = [runs EXCEPT ![session[r]] = Append(@, EventOf(r, UsageIndex(r)))]
  /\ usage' = [usage EXCEPT ![r] = "stored"]
  /\ UNCHANGED <<routerVars, requestVars, processVars, stage, client, written,
                 response, known, mishaps>>

\* Slip: the response is ended without waiting for the completions.
EndResponseAtOnce(r) ==
  /\ Alive /\ stage[r] = "finishing"
  /\ MoveTo(r, "answered")
  /\ UNCHANGED <<routerVars, requestVars, processVars, client, written, response,
                 usage, runs, known, mishaps>>

\* Slip: it waits for a usage event that a response without usage never gets.
EndResponseAfterUsage(r) ==
  /\ Alive /\ stage[r] = "finishing"
  /\ usage[r] = "stored"
  /\ MoveTo(r, "answered")
  /\ UNCHANGED <<routerVars, requestVars, processVars, client, written, response,
                 usage, runs, known, mishaps>>

\* All completions have settled: the response is ended.
EndResponse(r) ==
  /\ Alive /\ stage[r] = "finishing"
  /\ usage[r] \in {"none", "stored"}
  /\ MoveTo(r, "answered")
  /\ UNCHANGED <<routerVars, requestVars, processVars, client, written, response,
                 usage, runs, known, mishaps>>

\* Everything the process held in memory is gone with it.
Die(how) ==
  /\ phase' = how
  /\ stage' = [r \in Requests |-> IF stage[r] \in InHand THEN "lost" ELSE stage[r]]
  /\ usage' = [r \in Requests |-> IF usage[r] = "writing" THEN "lost" ELSE usage[r]]
  /\ awaited' = {}

\* The promise of an observation has a rejection handler once finish() has
\* gathered the completions.  close() adds a handler too, but rejects with it,
\* and no one handles the rejection of close().
RejectionHandled(r) == stage[r] = "finishing" /\ ~(phase = "draining" /\ r \in awaited)

\* recordUsageEvent fails: the response is destroyed when the rejection is
\* handled, and the process ends on an unhandled rejection otherwise.
AppendUsageFails(r) ==
  /\ Alive /\ usage[r] = "writing"
  /\ mishaps.disk < MaxDiskFailures
  /\ mishaps' = [mishaps EXCEPT !.disk = @ + 1]
  /\ \/ /\ RejectionHandled(r)
        /\ usage' = [usage EXCEPT ![r] = "failed"]
        /\ MoveTo(r, "destroyed")
        /\ UNCHANGED <<phase, awaited>>
     \/ /\ ~RejectionHandled(r)
        /\ Die("crashed")
  /\ UNCHANGED <<routerVars, requestVars, epoch, client, written, response, runs, known>>

\* The client closes its connection.  A handler that is still recording has no
\* listener for that and goes on; once the request is forwarded, the upstream
\* request is destroyed, unless the upstream has already ended.
ClientCloses(r) ==
  /\ Alive /\ stage[r] \in InHand /\ client[r] = "connected"
  /\ mishaps.departures < MaxDepartures
  /\ mishaps' = [mishaps EXCEPT !.departures = @ + 1]
  /\ client' = [client EXCEPT ![r] = "gone"]
  /\ MoveTo(r, IF stage[r] \in {"forwarded", "streaming"} THEN "abandoned" ELSE stage[r])
  /\ UNCHANGED <<routerVars, requestVars, processVars, written, response, usage,
                 runs, known>>

-----------------------------------------------------------------------------
(***************************************************************************)
(* The process: SIGTERM, an orderly exit, a kill, a restart.               *)
(***************************************************************************)

\* close() waits for the observations that are pending now.
Close ==
  /\ phase = "serving"
  /\ phase' = "draining"
  /\ awaited' = PendingObservations
  /\ UNCHANGED <<routerVars, requestVars, epoch, stage, client, written, response,
                 usage, runs, known, mishaps>>

\* Slip: close() does not wait for the observations.
StopAcceptingAtOnce ==
  /\ phase = "draining"
  /\ phase' = "closing"
  /\ UNCHANGED <<routerVars, requestVars, awaited, epoch, stage, client, written,
                 response, usage, runs, known, mishaps>>

\* Slip: settled observations are never deleted, and close() waits for none to be left.
StopAcceptingWhenEmpty ==
  /\ phase = "draining"
  /\ awaited = {}
  /\ phase' = "closing"
  /\ UNCHANGED <<routerVars, requestVars, awaited, epoch, stage, client, written,
                 response, usage, runs, known, mishaps>>

\* They have settled; flush has nothing queued to wait for, and server.close
\* stops accepting connections.
StopAccepting ==
  /\ phase = "draining"
  /\ awaited \cap PendingObservations = {}
  /\ phase' = "closing"
  /\ UNCHANGED <<routerVars, requestVars, awaited, epoch, stage, client, written,
                 response, usage, runs, known, mishaps>>

\* server.close calls back when every connection has ended; process.exit follows
\* and takes with it the handlers whose client is gone.
Exit ==
  /\ phase = "closing"
  /\ \A r \in Requests : stage[r] \in InHand => client[r] = "gone"
  /\ Die("exited")
  /\ UNCHANGED <<routerVars, requestVars, epoch, client, written, response, runs,
                 known, mishaps>>

Kill ==
  /\ Alive
  /\ mishaps.kills < MaxKills
  /\ mishaps' = [mishaps EXCEPT !.kills = @ + 1]
  /\ Die("crashed")
  /\ UNCHANGED <<routerVars, requestVars, epoch, client, written, response, runs, known>>

Restart ==
  /\ phase \in {"exited", "crashed"}
  /\ epoch < MaxRestarts
  /\ phase' = "serving"
  /\ epoch' = epoch + 1
  /\ NewRouter
  /\ UNCHANGED <<requestVars, awaited, stage, client, written, response, usage,
                 runs, known, mishaps>>

Tick ==
  /\ now < MaxTime
  /\ now' = now + 1
  /\ UNCHANGED <<responseSessions, fingerprintSessions, profilers, minted, requestVars,
                 processVars, stage, client, written, response, usage, runs, known,
                 mishaps>>

-----------------------------------------------------------------------------
Handle(r) ==
  \/ AppendRecord(r) \/ AppendRecordFails(r)
  \/ AppendUsage(r) \/ AppendUsageFails(r)
  \/ EndResponse(r)

Upstream(r) ==
  \/ UpstreamResponds(r) \/ UpstreamEnds(r) \/ UpstreamFails(r)
  \/ \E rid \in ResponseIds, reported \in BOOLEAN :
        ObserveChunk(r, rid, reported) \/ ObserveAtEnd(r, rid, reported)

Arrive(r) ==
  \/ \E p \in Payloads, s \in SessionIds, n \in 0..MaxArtifacts : Receive(r, p, s, n)
  \/ ReceiveOpaque(r) \/ RefuseBody(r)

Next ==
  \/ \E r \in Requests : Arrive(r) \/ Handle(r) \/ Upstream(r) \/ ClientCloses(r)
  \/ Close \/ StopAccepting \/ Exit \/ Kill \/ Restart \/ Tick

Spec == Init /\ [][Next]_vars

(***************************************************************************)
(* The event loop runs every callback that is ready, every append settles  *)
(* one way or the other, and an upstream that was asked ends its response  *)
(* or breaks off.  Nothing makes a client, a signal or the clock move.     *)
(***************************************************************************)
Fairness ==
  /\ \A r \in Requests :
       /\ WF_vars(AppendRecord(r) \/ AppendRecordFails(r))
       /\ WF_vars(AppendUsage(r) \/ AppendUsageFails(r))
       /\ WF_vars(EndResponse(r))
       /\ WF_vars(UpstreamResponds(r) \/ UpstreamFails(r))
       /\ WF_vars(UpstreamEnds(r) \/ UpstreamFails(r))
  /\ WF_vars(StopAccepting)
  /\ WF_vars(Exit)

FairSpec == Spec /\ Fairness

-----------------------------------------------------------------------------
(***************************************************************************)
(* Correctness.                                                            *)
(***************************************************************************)

\* Types of the variables.
TypeOK ==
  /\ RouterTypeOK
  /\ stage \in [Requests -> Stages]
  /\ client \in [Requests -> {"connected", "gone"}]
  /\ payload \in [Requests -> Payloads \cup {None}]
  /\ session \in [Requests -> SessionIds \cup {None}]
  /\ artifacts \in [Requests -> 0..MaxArtifacts]
  /\ written \in [Requests -> 0..(MaxArtifacts + 1)]
  /\ response \in [Requests -> ResponseIds \cup {None}]
  /\ usage \in [Requests -> {"none", "writing", "stored", "failed", "lost"}]
  /\ runs \in [SessionIds -> Seq(Event)]
  /\ known \in SUBSET ResponseIds
  /\ phase \in Phases
  /\ awaited \in SUBSET Requests
  /\ epoch \in 0..MaxRestarts
  /\ routedBy \in [Requests -> 0..MaxRestarts]
  /\ mishaps \in [disk : 0..MaxDiskFailures, departures : 0..MaxDepartures,
                  kills : 0..MaxKills]

IsProfiled(r) == session[r] # None

Holds(s, r, i) == \E k \in DOMAIN runs[s] : runs[s][k] = EventOf(r, i)

\* What reached the upstream was recorded first, completely: the handler awaits
\* every append of recordPayloadArtifacts before it calls forwardRequest.
WasForwarded(r) ==
  stage[r] \in {"forwarded", "streaming", "finishing", "answered", "failed",
               "destroyed", "abandoned"}

ForwardedIsRecorded ==
  \A r \in Requests :
    IsProfiled(r) /\ WasForwarded(r) =>
      \A i \in 0..artifacts[r] : Holds(session[r], r, i)

\* Whatever requests share a run and however their appends interleave, a run
\* holds the events of each of its requests once, in the order turn identity,
\* artifacts, usage, and holds no event of a request routed elsewhere.
RunsInOrder ==
  \A s \in SessionIds : \A k \in DOMAIN runs[s] :
    /\ session[runs[s][k].request] = s
    /\ \A j \in 1..(k - 1) :
          runs[s][j].request = runs[s][k].request => runs[s][j].index < runs[s][k].index

\* A request that continues a response this process has served, and that states
\* no id of its own, joins the run of the request the response answered: the
\* response id is registered before a client can see the response complete.
ContinuationStaysInRun ==
  \A r, q \in Requests :
    /\ payload[r] # None /\ IsProfiled(q)
    /\ response[q] # None /\ routedBy[r] = routedBy[q]
    => (~IsStated(payload[r]) /\ payload[r].previous = response[q]
          => session[r] = session[q])

\* When a client sees its response end, the usage the response reported is in
\* the run of the request: response.end waits for the observations.
AnsweredKeepsUsage ==
  \A r \in Requests :
    stage[r] = "answered" =>
      /\ usage[r] \in {"none", "stored"}
      /\ usage[r] = "stored" => Holds(session[r], r, UsageIndex(r))

\* An orderly exit takes no pending observation with it, unless the connection
\* of the request broke first and close() had already counted its observations.
OrderlyExitKeepsObservations ==
  [][phase = "closing" /\ phase' = "exited" =>
       \A r \in PendingObservations :
         r \notin awaited /\ (client[r] = "gone" \/ stage[r] = "failed")]_vars

\* What specs/002 asks and the code does not do: an append that fails leaves the
\* requests it does not belong to alone.
FailureStaysWithItsRequest ==
  [][mishaps'.disk # mishaps.disk =>
       \A q, r \in Requests :
         stage'[q] # stage[q] /\ stage'[r] # stage[r] => q = r]_vars

\* Every request in hand is brought to an end, whatever happens around it.
EveryRequestSettles ==
  \A r \in Requests : stage[r] \in InHand ~> stage[r] \in Final

\* A proxy told to stop does stop.
CloseFinishes == phase = "draining" ~> phase \in {"exited", "crashed"}

-----------------------------------------------------------------------------
(***************************************************************************)
(* The inductive invariant behind the safety invariants above.             *)
(***************************************************************************)

\* What a handler has done is what its stage says: it appends the recording of a
\* profiled request while it is recording, and all of it before anything later.
HandlerInv(r) ==
  /\ stage[r] = "unsent" => /\ session[r] = None /\ payload[r] = None
                            /\ written[r] = 0 /\ response[r] = None
  /\ stage[r] = "recording" => /\ IsProfiled(r) /\ written[r] <= artifacts[r]
                               /\ usage[r] = "none"
  /\ WasForwarded(r) /\ IsProfiled(r) => written[r] = artifacts[r] + 1
  /\ usage[r] # "none" => /\ IsProfiled(r) /\ response[r] # None
                          /\ written[r] = artifacts[r] + 1
  /\ stage[r] = "answered" => usage[r] \in {"none", "stored"}

HandlersInv == \A r \in Requests : HandlerInv(r)

\* The runs hold exactly the events whose appends have settled.
IsSettled(r, i) ==
  \/ i < written[r]
  \/ usage[r] = "stored" /\ i = UsageIndex(r)

LogInv ==
  /\ \A s \in SessionIds : \A k \in DOMAIN runs[s] :
       IsSettled(runs[s][k].request, runs[s][k].index)
  /\ \A r \in Requests : \A i \in 0..(MaxArtifacts + 1) :
       IsProfiled(r) /\ IsSettled(r, i) => Holds(session[r], r, i)

\* The router of this process remembers every response of a request it routed,
\* and a request continues only a response that some request has had.
RoutesInv ==
  /\ \A r \in Requests : routedBy[r] <= epoch
  /\ \A r \in Requests :
       IsProfiled(r) /\ response[r] # None /\ routedBy[r] = epoch
         => /\ response[r] \in DOMAIN responseSessions
            /\ responseSessions[response[r]] = session[r]
  /\ \A q, r \in Requests : response[q] # None /\ response[q] = response[r] => q = r
  /\ \A rid \in known : \E q \in Requests : response[q] = rid
  /\ \A r \in Requests :
       payload[r] # None =>
         \/ payload[r].previous = None
         \/ \E q \in Requests : response[q] = payload[r].previous

\* Everything above: every step of the proxy preserves it.
IInv ==
  /\ TypeOK
  /\ HandlersInv
  /\ LogInv
  /\ RunsInOrder
  /\ RoutesInv
  /\ ContinuationStaysInRun

-----------------------------------------------------------------------------
(***************************************************************************)
(* The proxy implements Capture: what a client sees is read off the stage  *)
(* of its handler, and the ledger off the runs on disk.                    *)
(***************************************************************************)
OutcomeOf(r) ==
  CASE stage[r] = "unsent" -> "unseen"
    [] stage[r] = "recording" -> "taken"
    [] stage[r] \in {"forwarded", "streaming", "finishing"} -> "sent"
    [] stage[r] = "answered" -> "answered"
    [] OTHER -> "ended"

IsRecorded(r) ==
  IsProfiled(r) /\ \A i \in 0..artifacts[r] : Holds(session[r], r, i)

HasUsage(r) == IsProfiled(r) /\ Holds(session[r], r, UsageIndex(r))

Promise == INSTANCE Capture WITH
  outcome <- [r \in Requests |-> OutcomeOf(r)],
  profiled <- {r \in Requests : IsProfiled(r)},
  reported <- {r \in Requests : usage[r] # "none"},
  ledger <- {<<r, "recording">> : r \in {x \in Requests : IsRecorded(x)}}
              \cup {<<r, "usage">> : r \in {x \in Requests : HasUsage(x)}}

\* Every behaviour of the proxy is one the promise allows.
KeepsPromise == Promise!Spec
=============================================================================
