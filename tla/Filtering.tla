------------------------------ MODULE Filtering ------------------------------
(***************************************************************************)
(* Array.prototype.filter, which the page's lists are reduced with: the    *)
(* elements that stay are picked by position, so that what is left can be  *)
(* reasoned about.                                                         *)
(***************************************************************************)
EXTENDS Naturals, Sequences, FiniteSets

\* The n-th of the positions P.
Nth(P, n) == CHOOSE i \in P : Cardinality({j \in P : j <= i}) = n

\* What s holds at the positions P, in its order.
Pick(s, P) == [n \in 1 .. Cardinality(P) |-> s[Nth(P, n)]]

\* s without the element e, wherever it is.
Without(s, e) == Pick(s, {i \in DOMAIN s : s[i] # e})
=============================================================================
