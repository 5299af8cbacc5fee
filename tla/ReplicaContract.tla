--------------------------- MODULE ReplicaContract ---------------------------
(***************************************************************************)
(* What selecting a session promises to the one who looks at the page:     *)
(* until the session is opened anew, the page shows states the session has *)
(* really been in, each of them after the ones it showed before.  Nothing  *)
(* is said of snapshots, buffers or streams.                               *)
(***************************************************************************)
EXTENDS Naturals, Sequences

CONSTANT Blank  \* what an empty page shows

VARIABLES
    history,  \* the states of the session since it was opened
    shown,    \* which of them the page shows, or 0
    view      \* what the page shows

vars == <<history, shown, view>>

Init == history = << >> /\ shown = 0 /\ view = Blank

\* Something happens to the session.
Happens ==
    /\ Len(history') = Len(history) + 1
    /\ SubSeq(history', 1, Len(history)) = history
    /\ UNCHANGED <<shown, view>>

\* The page catches up with some later state.
CatchesUp ==
    /\ \E i \in DOMAIN history : i >= shown /\ shown' = i /\ view' = history[i]
    /\ UNCHANGED history

\* The page opens the session anew.
Reopens == history' = << >> /\ shown' = 0 /\ view' = Blank

Next == Happens \/ CatchesUp \/ Reopens

Spec == Init /\ [][Next]_vars
=============================================================================
