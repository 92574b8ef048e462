---------------------------- MODULE MCLiveProxy -----------------------------
(***************************************************************************)
(* Instances of LiveProxy for TLC: the payloads the clients of each run    *)
(* may send, and the symmetries of the instance.                           *)
(***************************************************************************)
EXTENDS LiveProxy, TLC

CONSTANTS hdr, cdx   \* two raw session ids

Silent == [header |-> None, codexRoute |-> None, conversation |-> None,
           cacheKey |-> None, previous |-> None, fingerprint |-> None]

Prompts == {[Silent EXCEPT !.fingerprint = f, !.previous = p] :
              f \in Fingerprints, p \in ResponseIds \cup {None}}

\* One prompt that states no id and continues nothing.
OnePrompt == {[Silent EXCEPT !.fingerprint = CHOOSE f \in Fingerprints : TRUE]}

MixedPayloads ==
  Prompts \cup {[p EXCEPT !.codexRoute = cdx] : p \in Prompts}

\* A separator that sanitizing folds makes two raw ids one run id.
OneSafeId == [i \in RawIds |-> CHOOSE n \in Named : TRUE]

Symmetry == Permutations(Requests) \cup Permutations(Generated)
              \cup Permutations(ResponseIds)
=============================================================================
