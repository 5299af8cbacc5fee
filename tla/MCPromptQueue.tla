---------------------------- MODULE MCPromptQueue ----------------------------
(* A small instance of PromptQueue: one account has all the sessions, the    *)
(* other has none.                                                           *)
EXTENDS PromptQueue, TLC

CONSTANT Owner

OneOwner == [a \in Account |-> IF a = Owner THEN Scope ELSE {}]

Symmetry == Permutations(Key) \cup Permutations(Scope) \cup Permutations(Call)
=============================================================================
