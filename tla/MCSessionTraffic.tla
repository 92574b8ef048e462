-------------------------- MODULE MCSessionTraffic --------------------------
(***************************************************************************)
(* Instances of SessionTraffic for TLC.                                    *)
(***************************************************************************)
EXTENDS SessionTraffic, TLC

CONSTANTS hdr, cdx, key, n1, n2   \* raw ids, and the run ids they become

Silent == [header |-> None, codexRoute |-> None, conversation |-> None,
           cacheKey |-> None, previous |-> None, fingerprint |-> None]

Prompts == {[Silent EXCEPT !.fingerprint = f, !.previous = p] :
              f \in Fingerprints \cup {None}, p \in ResponseIds \cup {None}}

\* A few requests that state ids: a Codex session, alone and over a cache key or
\* a previous response, a cache key alone, a header over a Codex session.
Stating ==
  {[Silent EXCEPT !.codexRoute = cdx],
   [Silent EXCEPT !.codexRoute = cdx, !.cacheKey = key],
   [Silent EXCEPT !.cacheKey = key],
   [Silent EXCEPT !.header = hdr, !.codexRoute = cdx]}
  \cup {[Silent EXCEPT !.codexRoute = cdx, !.previous = p] : p \in ResponseIds}

MixedPayloads == Prompts \cup Stating

\* The header and the Codex id sanitize to one run id, the cache key to another.
SafeId == [i \in RawIds |-> IF i = key THEN n2 ELSE n1]

Symmetry == Permutations(Generated) \cup Permutations(ResponseIds)
              \cup Permutations(Fingerprints)
=============================================================================
