------------------------------- MODULE Capture -------------------------------
(***************************************************************************)
(* What the live proxy promises to the people at its two ends, with no     *)
(* process, no event loop and no file in sight.  A client sees the outcome *)
(* of its request; an analyst sees the ledger of what was captured.        *)
(*                                                                         *)
(* The promise: a profiled request reaches the upstream only when its      *)
(* recording is in the ledger, and its client gets the end of the answer   *)
(* only when the usage the answer reported is in the ledger too.  Nothing  *)
(* ever leaves the ledger, and nothing enters it for a request that was    *)
(* not taken for profiling.                                                *)
(***************************************************************************)
CONSTANT Requests

VARIABLES
  outcome,   \* what each client sees of its request
  profiled,  \* the requests taken for profiling
  reported,  \* the requests whose response reported usage
  ledger     \* what is captured: pairs of a request and a part of its facts

vars == <<outcome, profiled, reported, ledger>>

TypeOK ==
  /\ outcome \in [Requests -> {"unseen", "taken", "sent", "answered", "ended"}]
  /\ profiled \in SUBSET Requests
  /\ reported \in SUBSET Requests
  /\ ledger \in SUBSET (Requests \X {"recording", "usage"})

Init ==
  /\ outcome = [r \in Requests |-> "unseen"]
  /\ profiled = {}
  /\ reported = {}
  /\ ledger = {}

Take(r) ==
  /\ outcome[r] = "unseen"
  /\ outcome' = [outcome EXCEPT ![r] = "taken"]
  /\ profiled' = profiled \cup {r}
  /\ UNCHANGED <<reported, ledger>>

\* A request there is nothing to record of goes straight on.
Pass(r) ==
  /\ outcome[r] = "unseen"
  /\ outcome' = [outcome EXCEPT ![r] = "sent"]
  /\ UNCHANGED <<profiled, reported, ledger>>

Refuse(r) ==
  /\ outcome[r] = "unseen"
  /\ outcome' = [outcome EXCEPT ![r] = "ended"]
  /\ UNCHANGED <<profiled, reported, ledger>>

Send(r) ==
  /\ outcome[r] = "taken"
  /\ outcome' = [outcome EXCEPT ![r] = "sent"]
  /\ ledger' = ledger \cup {<<r, "recording">>}
  /\ UNCHANGED <<profiled, reported>>

Report(r) ==
  /\ outcome[r] = "sent" /\ r \in profiled
  /\ reported' = reported \cup {r}
  /\ UNCHANGED <<outcome, profiled, ledger>>

StoreUsage(r) ==
  /\ r \in reported
  /\ ledger' = ledger \cup {<<r, "usage">>}
  /\ UNCHANGED <<outcome, profiled, reported>>

Answer(r) ==
  /\ outcome[r] = "sent"
  /\ r \in reported => <<r, "usage">> \in ledger
  /\ outcome' = [outcome EXCEPT ![r] = "answered"]
  /\ UNCHANGED <<profiled, reported, ledger>>

\* Requests may end without an answer, alone or, with their process, together.
End(S) ==
  /\ \A r \in S : outcome[r] \in {"taken", "sent"}
  /\ outcome' = [r \in Requests |-> IF r \in S THEN "ended" ELSE outcome[r]]
  /\ UNCHANGED <<profiled, reported, ledger>>

Next ==
  \/ \E r \in Requests :
        \/ Take(r) \/ Pass(r) \/ Refuse(r) \/ Send(r)
        \/ Report(r) \/ StoreUsage(r) \/ Answer(r)
  \/ \E S \in SUBSET Requests : End(S)

Spec == Init /\ [][Next]_vars
=============================================================================
