---------------------------- MODULE SessionRouter ----------------------------
(***************************************************************************)
(* The in-memory session router of the live proxy                          *)
(* (src/adapters/codex/live-proxy/session-router.ts).                      *)
(*                                                                         *)
(* The router gives every profiled request the id of the run that will     *)
(* hold its events.  It looks, in a fixed order, at the ids the request    *)
(* states, at the response the request continues, at the fingerprint of    *)
(* its first user input, and at last mints or falls back to a run id.      *)
(* Everything it remembers lives in maps of the process: none of it is     *)
(* stored, so a restarted proxy starts with empty maps.                    *)
(*                                                                         *)
(* The module has the router's state and its operations as actions; the    *)
(* steps that call them belong to LiveProxy, which extends this module.    *)
(***************************************************************************)
EXTENDS Integers, FiniteSets

CONSTANTS
  RawIds,        \* session ids as requests spell them, with their prefix
  Named,         \* run ids a raw id is sanitized to
  Generated,     \* run ids createSessionId can mint
  Safe,          \* sanitizeSessionId on raw ids: a function RawIds -> Named
  ResponseIds,   \* ids the upstream gives to its responses
  Fingerprints,  \* hashes of the first user input of a request
  Fallback,      \* the fallback run id of `proxy serve --run`, or None
  IdleMs,        \* how long a fingerprint stays usable, in ticks of the clock
  None           \* an absent value

SessionIds == Named \cup Generated

ASSUME RouterAssumption ==
  /\ Safe \in [RawIds -> Named]
  /\ Named \cap Generated = {}
  /\ Fallback \in Named \cup {None}
  /\ IdleMs \in Nat
  /\ None \notin RawIds \cup SessionIds \cup ResponseIds \cup Fingerprints

(***************************************************************************)
(* The part of a parsed request body and its headers that routing reads.   *)
(***************************************************************************)
Payload == [header       : RawIds \cup {None},
            codexRoute   : RawIds \cup {None},
            conversation : RawIds \cup {None},
            cacheKey     : RawIds \cup {None},
            previous     : ResponseIds \cup {None},
            fingerprint  : Fingerprints \cup {None}]

VARIABLES
  responseSessions,     \* response id -> run id of the request it answered
  fingerprintSessions,  \* fingerprint -> run id and time of its last use
  profilers,            \* run ids that have a TokenProfiler
  minted,               \* random ids handed out so far, by any process
  now                   \* the wall clock, in ticks

routerVars == <<responseSessions, fingerprintSessions, profilers, minted, now>>

FingerprintSession == [sessionId : SessionIds, lastSeenAt : Nat]

RouterTypeOK ==
  /\ \E known \in SUBSET ResponseIds : responseSessions \in [known -> SessionIds]
  /\ \E seen \in SUBSET Fingerprints :
        fingerprintSessions \in [seen -> FingerprintSession]
  /\ profilers \in SUBSET SessionIds
  /\ minted \in SUBSET Generated
  /\ now \in Nat

\* A Map with nothing in it, and a Map after set(key, value).
EmptyMap == [k \in {} |-> None]
Put(map, key, value) ==
  [k \in DOMAIN map \cup {key} |-> IF k = key THEN value ELSE map[k]]

RouterInit ==
  /\ responseSessions = EmptyMap
  /\ fingerprintSessions = EmptyMap
  /\ profilers = {}
  /\ minted = {}
  /\ now = 0

-----------------------------------------------------------------------------
(***************************************************************************)
(* resolve: which run a request belongs to.  The ids a request states      *)
(* itself, strongest first; routing by them reads no memory at all.        *)
(***************************************************************************)
Stated(p) == <<p.header, p.codexRoute, p.conversation, p.cacheKey>>

IsStated(p) == \E i \in 1..4 : Stated(p)[i] # None

StatedSession(p) ==
  LET first == CHOOSE i \in 1..4 : /\ Stated(p)[i] # None
                                   /\ \A j \in 1..(i - 1) : Stated(p)[j] = None
  IN  Safe[Stated(p)[first]]

IsContinuation(p) == ~IsStated(p) /\ p.previous \in DOMAIN responseSessions

\* Slip: an entry never grows stale.
IsRemembered(f) == f \in DOMAIN fingerprintSessions

\* The fingerprint entry is usable up to and including IdleMs after its last use.
IsRecent(f) ==
  /\ f \in DOMAIN fingerprintSessions
  /\ now - fingerprintSessions[f].lastSeenAt <= IdleMs

ResolveStated(p, s) ==
  /\ IsStated(p)
  /\ s = StatedSession(p)
  /\ UNCHANGED <<fingerprintSessions, minted>>

ResolveContinuation(p, s) ==
  /\ IsContinuation(p)
  /\ s = responseSessions[p.previous]
  /\ UNCHANGED <<fingerprintSessions, minted>>

\* Slip: using a fingerprint does not restart its window.
ResolveFingerprintUntouched(p, s) ==
  /\ ~IsStated(p) /\ ~IsContinuation(p)
  /\ IsRecent(p.fingerprint)
  /\ s = fingerprintSessions[p.fingerprint].sessionId
  /\ UNCHANGED <<fingerprintSessions, minted>>

ResolveFingerprint(p, s) ==
  /\ ~IsStated(p) /\ ~IsContinuation(p)
  /\ IsRecent(p.fingerprint)
  /\ s = fingerprintSessions[p.fingerprint].sessionId
  /\ fingerprintSessions' = Put(fingerprintSessions, p.fingerprint,
                                [sessionId |-> s, lastSeenAt |-> now])
  /\ UNCHANGED minted

\* Slip: a request with no fingerprint is remembered all the same.
ResolveNewRemembersAll(p, s) ==
  /\ ~IsStated(p) /\ ~IsContinuation(p)
  /\ ~IsRecent(p.fingerprint)
  /\ \/ Fallback # None /\ s = Fallback /\ UNCHANGED minted
     \/ Fallback = None /\ s \in Generated \ minted /\ minted' = minted \cup {s}
  /\ fingerprintSessions' = Put(fingerprintSessions, p.fingerprint,
                                [sessionId |-> s, lastSeenAt |-> now])

\* The fallback run id when there is one, else an id no one has used before.
ResolveNew(p, s) ==
  /\ ~IsStated(p) /\ ~IsContinuation(p)
  /\ ~IsRecent(p.fingerprint)
  /\ \/ Fallback # None /\ s = Fallback /\ UNCHANGED minted
     \/ Fallback = None /\ s \in Generated \ minted /\ minted' = minted \cup {s}
  /\ fingerprintSessions' =
       IF p.fingerprint = None THEN fingerprintSessions
       ELSE Put(fingerprintSessions, p.fingerprint,
                [sessionId |-> s, lastSeenAt |-> now])

\* resolve and the getProfiler call that follows it in the request handler.
Resolve(p, s) ==
  /\ \/ ResolveStated(p, s)
     \/ ResolveContinuation(p, s)
     \/ ResolveFingerprint(p, s)
     \/ ResolveNew(p, s)
  /\ profilers' = profilers \cup {s}
  /\ UNCHANGED <<responseSessions, now>>

(***************************************************************************)
(* registerResponse: remember which run a response answered.  A request    *)
(* that was never routed passes no session, and the default argument of    *)
(* sanitizeSessionId then mints a run id for it.                           *)
(***************************************************************************)
RegisterResponse(rid, s) ==
  /\ \/ /\ s # None
        /\ responseSessions' = Put(responseSessions, rid, s)
        /\ UNCHANGED minted
     \/ /\ s = None
        /\ \E g \in Generated \ minted :
              /\ responseSessions' = Put(responseSessions, rid, g)
              /\ minted' = minted \cup {g}
  /\ UNCHANGED <<fingerprintSessions, profilers, now>>

\* A new process constructs a new router; random ids are never handed out twice.
NewRouter ==
  /\ responseSessions' = EmptyMap
  /\ fingerprintSessions' = EmptyMap
  /\ profilers' = {}
  /\ UNCHANGED <<minted, now>>
=============================================================================
