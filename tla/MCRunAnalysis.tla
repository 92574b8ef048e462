---------------------------- MODULE MCRunAnalysis ----------------------------
EXTENDS RunAnalysis
CONSTANTS p1, p2, t1, t2, a1, c1, c2
TwoPrompts == <<p1, p2>>
TwoTurns == <<t1, t2>>
TwoCalls == <<c1, c2>>
TokensOf(content) == IF content = p1 THEN 3 ELSE 1
OutputOfTool(tool) == "TOOL_OUTPUT"
SomeUsages == {[input |-> 2, cached |-> 1, output |-> 1], [input |-> 3, cached |-> 4, output |-> 1]}

\* A plain conversation in the mode that keeps texts has room for two calls with their
\* outputs and for two usages; what else may happen, for what it can break.
LimitsOf ==
  [preview    |-> [events |-> 8, history |-> 5], metadata |-> [events |-> 5, history |-> 3],
   compaction |-> [events |-> 6, history |-> 3], retry    |-> [events |-> 6, history |-> 2],
   hand       |-> [events |-> 5, history |-> 2], restart  |-> [events |-> 5, history |-> 3],
   unseen     |-> [events |-> 6, history |-> 3]] @@ ("no turn" :> [events |-> 5, history |-> 2])
=============================================================================
