--------------------------- MODULE SessionTraffic ---------------------------
(***************************************************************************)
(* The session router under the traffic of one proxy: requests are routed  *)
(* one after the other, their responses complete in any order, time        *)
(* passes, and the proxy may be restarted.  What happens between routing   *)
(* a request and completing its response is the subject of LiveProxy.      *)
(***************************************************************************)
EXTENDS SessionRouter, Sequences

CONSTANTS
  Payloads,     \* the payloads clients may send, a subset of Payload
  MaxRequests,  \* bound on the requests routed
  MaxTime,      \* bound on the clock
  MaxRestarts   \* bound on restarts of the proxy

ASSUME TrafficAssumption ==
  /\ Payloads \subseteq Payload
  /\ MaxRequests \in Nat
  /\ MaxTime \in Nat
  /\ MaxRestarts \in Nat

VARIABLES
  epoch,   \* the number of the running process
  routed   \* the requests routed so far, in order, with their outcome

vars == <<routerVars, epoch, routed>>

Routed == [payload : Payloads, session : SessionIds, at : Nat,
           epoch : 0..MaxRestarts, answer : ResponseIds \cup {None}]

TypeOK ==
  /\ RouterTypeOK
  /\ epoch \in 0..MaxRestarts
  /\ routed \in Seq(Routed)

Answers == {routed[i].answer : i \in DOMAIN routed} \ {None}

Init == RouterInit /\ epoch = 0 /\ routed = <<>>

Route(p, s) ==
  /\ Len(routed) < MaxRequests
  /\ p.previous \in Answers \cup {None}
  /\ Resolve(p, s)
  /\ routed' = Append(routed, [payload |-> p, session |-> s, at |-> now,
                               epoch |-> epoch, answer |-> None])
  /\ UNCHANGED epoch

\* The response of a request of this process completes.
Answer(i, rid) ==
  /\ routed[i].answer = None /\ routed[i].epoch = epoch
  /\ rid \notin Answers
  /\ RegisterResponse(rid, routed[i].session)
  /\ routed' = [routed EXCEPT ![i].answer = rid]
  /\ UNCHANGED epoch

Tick ==
  /\ now < MaxTime
  /\ now' = now + 1
  /\ UNCHANGED <<responseSessions, fingerprintSessions, profilers, minted, epoch, routed>>

Restart ==
  /\ epoch < MaxRestarts
  /\ epoch' = epoch + 1
  /\ NewRouter
  /\ UNCHANGED routed

Next ==
  \/ \E p \in Payloads, s \in SessionIds : Route(p, s)
  \/ \E i \in DOMAIN routed, rid \in ResponseIds : Answer(i, rid)
  \/ Tick
  \/ Restart

Spec == Init /\ [][Next]_vars

-----------------------------------------------------------------------------
\* A request that states no id and continues nothing this process has answered
\* is routed by the fingerprint of its first user input.
ByFingerprint(i) ==
  LET p == routed[i].payload
  IN  ~IsStated(p) /\ p.previous = None

\* Two requests of one process that open with the same user input, the later no
\* more than IdleMs after the earlier, share a run: each use of a fingerprint
\* restarts its window, also when other requests came in between.
ActiveFingerprintKeepsRun ==
  \A i, j \in DOMAIN routed :
    /\ i < j /\ ByFingerprint(i) /\ ByFingerprint(j)
    /\ routed[i].payload.fingerprint # None
    /\ routed[i].payload.fingerprint = routed[j].payload.fingerprint
    /\ routed[i].epoch = routed[j].epoch
    /\ routed[j].at - routed[i].at <= IdleMs
    => routed[i].session = routed[j].session

\* A minted run is one conversation: the requests that reached it by their
\* fingerprint share it and their process, and each of them came at most IdleMs
\* after an earlier request of the run, so an idle gap starts a new run.
MintedRunIsOneConversation ==
  \A i, j \in DOMAIN routed :
    /\ i < j /\ ByFingerprint(i) /\ ByFingerprint(j)
    /\ routed[i].session = routed[j].session
    /\ routed[i].session \in Generated
    => /\ routed[i].payload.fingerprint = routed[j].payload.fingerprint
       /\ routed[i].payload.fingerprint # None
       /\ routed[i].epoch = routed[j].epoch
       /\ \E k \in 1..(j - 1) : /\ routed[k].session = routed[j].session
                                /\ routed[j].at - routed[k].at <= IdleMs

\* Requests that state the same Codex session and no header share a run, in
\* whatever process and however other requests of the run were routed; a cache
\* key or a previous response never moves them to another run.
CodexSessionKeepsRun ==
  \A i, j \in DOMAIN routed :
    /\ routed[i].payload.header = None /\ routed[j].payload.header = None
    /\ routed[i].payload.codexRoute # None
    /\ routed[i].payload.codexRoute = routed[j].payload.codexRoute
    => routed[i].session = routed[j].session

\* The requests that must share a run do: those of one prompt while it is active, and
\* those of one Codex session always.
RequestsShareRuns == ActiveFingerprintKeepsRun /\ CodexSessionKeepsRun

-----------------------------------------------------------------------------
(***************************************************************************)
(* The inductive invariant: how the requests routed so far and the memory  *)
(* of the router agree.                                                    *)
(***************************************************************************)

\* Requests lie in the past, those that state an id are in the run it names, and
\* the runs with a random id are minted ones.
RequestsAreRouted ==
  \A i \in DOMAIN routed :
    LET r == routed[i]
    IN  /\ r.at <= now /\ r.epoch <= epoch
        /\ IsStated(r.payload) => r.session = StatedSession(r.payload)
        /\ r.session \in Generated => r.session \in minted

\* A prompt that was used in this process has an entry, at least as young as the
\* use, and while the use is recent the entry names its run.
UsesAreRemembered ==
  \A i \in DOMAIN routed :
    LET r == routed[i]
        f == r.payload.fingerprint
    IN  ByFingerprint(i) /\ r.epoch = epoch /\ f # None
        => /\ f \in DOMAIN fingerprintSessions
           /\ r.at <= fingerprintSessions[f].lastSeenAt
           /\ now - r.at <= IdleMs => fingerprintSessions[f].sessionId = r.session

\* A minted run belongs to one entry, whose time is that of a request of the run,
\* and the requests that reached it by fingerprint have the entry's.
EntriesOwnTheirRuns ==
  \A f \in DOMAIN fingerprintSessions :
    LET s == fingerprintSessions[f].sessionId
    IN  s \in Generated
        => /\ s \in minted
           /\ \A g \in DOMAIN fingerprintSessions :
                 fingerprintSessions[g].sessionId = s => g = f
           /\ \A i \in DOMAIN routed :
                 ByFingerprint(i) /\ routed[i].session = s
                 => routed[i].payload.fingerprint = f /\ routed[i].epoch = epoch
           /\ \E i \in DOMAIN routed :
                 /\ routed[i].session = s
                 /\ routed[i].at = fingerprintSessions[f].lastSeenAt

\* The random run of an answered response is a minted one.
AnswersAreMinted ==
  \A rid \in DOMAIN responseSessions :
    responseSessions[rid] \in Generated => responseSessions[rid] \in minted

\* What routing keeps true at every step, and from which the properties follow: the
\* router's memory agrees with the requests it has routed.
IInv == /\ TypeOK
        /\ RequestsAreRouted
        /\ UsesAreRemembered
        /\ EntriesOwnTheirRuns
        /\ AnswersAreMinted
        /\ ActiveFingerprintKeepsRun
        /\ MintedRunIsOneConversation
=============================================================================
