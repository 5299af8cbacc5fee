------------------------ MODULE MCRemoteSessionState ------------------------
(* A small instance of RemoteSessionState: no definition or property tells *)
(* two items, two values or two runs apart.                                *)
EXTENDS RemoteSessionState

Symmetry == Permutations(Item) \cup Permutations(Value) \cup Permutations(Run)
=============================================================================
