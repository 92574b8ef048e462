-------------------------- MODULE MCSessionCatalog --------------------------
(***************************************************************************)
(* An instance of SessionCatalog for TLC: a run of two requests, the first *)
(* of which has an artifact after those of the second, and which becomes   *)
(* large while it grows; and a run whose only line is never ended.         *)
(***************************************************************************)
EXTENDS SessionCatalog

CONSTANTS r1, r2

Written(q, kind, ends) == [request |-> q, kind |-> kind, ends |-> ends]

RunLog == [r \in Runs |->
  IF r = r1
  THEN <<Written(1, "artifact", TRUE), Written(2, "artifact", TRUE),
         Written(1, "artifact", TRUE)>>
  ELSE <<Written(1, "usage", FALSE)>>]

Pages == {[run |-> r1, request |-> None], [run |-> r1, request |-> 1]}
=============================================================================
