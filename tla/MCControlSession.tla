-------------------------- MODULE MCControlSession --------------------------
(* Small instances of ControlSession: calls, sessions and workspaces are *)
(* interchangeable.                                                      *)
EXTENDS ControlSession, TLC

Symmetry == Permutations(Calls) \cup Permutations(Sessions) \cup Permutations(Workspaces)
=============================================================================
