-------------------------- MODULE MCDashboardHooks --------------------------
(* Two plain runs and two large ones on two pages of the session list. *)
EXTENDS DashboardHooks

CONSTANTS a, b, L, M

ListPages == <<<<a, L>>, <<b, M>>>>
IdsOf == [r \in Runs |-> IF r = a THEN {"x", "y"} ELSE {"x"}]
=============================================================================
