---------------------------- MODULE Notifications ----------------------------
(***************************************************************************)
(* What the page tells the user through the browser                        *)
(* (remote-notifications.js): which transitions of the event stream and of *)
(* the selected device give a notification, and the controller, which      *)
(* shows one once.                                                         *)
(*                                                                         *)
(* A candidate is a set with a signal or, for null, none.  What is shown   *)
(* is remembered by identity, the oldest first.                            *)
(***************************************************************************)
EXTENDS Naturals, SequencesExt

CONSTANT MaxRemembered  \* identities remembered (2048 in the code)

ASSUME RememberedAssumption == MaxRemembered \in Nat \ {0}

Signal(category, identity) == {[category |-> category, identity |-> <<category, identity>>]}

\* epoch is the page's remoteConnectionEpoch.
StreamTransition(previous, next, closed, epoch) ==
    IF next = "CLOSED" /\ closed THEN Signal("session_closed", 0)
    ELSE IF previous \in {"LIVE", "POLLING"} /\ next = "RECONNECTING"
         THEN Signal("session_disconnected", epoch)
    ELSE {}

\* The controller shows what it does not remember.
Shows(seen, candidate) == {c \in candidate : c.identity \notin ToSet(seen)}

RememberShown(seen, shown) ==
    LET longer == seen \o SetToSeq({c.identity : c \in shown})
    IN  IF Len(longer) > MaxRemembered THEN Tail(longer) ELSE longer
=============================================================================
