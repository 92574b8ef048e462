--------------------------- MODULE MCCodexRouting ---------------------------
(***************************************************************************)
(* Instances of CodexRouting for TLC: every document of at most three user *)
(* lines, with at most one provider line for each table.                   *)
(***************************************************************************)
EXTENDS CodexRouting

CONSTANT MaxLines

ExtraLine == Line("other", "extra")

UserDocuments ==
  BoundedSeq({Provider(v) : v \in Providers} \cup {Line("table", None), Line("other", None)},
             MaxLines)
=============================================================================
