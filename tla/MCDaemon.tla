------------------------------- MODULE MCDaemon -------------------------------
(***************************************************************************)
(* Instances of Daemon for TLC, with one short document.                *)
(***************************************************************************)
EXTENDS Daemon, TLC

UserLine(kind, value) == [kind |-> kind, value |-> value]

ExtraLine == UserLine("other", "extra")

UserDocuments ==
  {<<UserLine("provider", v)>> : v \in Providers}

Symmetry == Permutations(Pids) \cup Permutations(DashboardPids)
=============================================================================
