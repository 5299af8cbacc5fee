--------------------------- MODULE CreationContract ---------------------------
(***************************************************************************)
(* What session creation promises, without the machinery of attempts,      *)
(* control sessions and polling.  The page works on one key at a time.     *)
(* Desktop may create the session of a key from the moment the page uses   *)
(* the key until the page gives it up as never executed; after that the    *)
(* session must never appear, or the retry with a new key makes a second.  *)
(***************************************************************************)
CONSTANT Key

VARIABLES
    verdict,   \* what the page concluded about a key
    created    \* keys whose session exists on Desktop

Verdicts == {"unused", "open", "succeeded", "released", "abandoned"}

Init == verdict = [k \in Key |-> "unused"] /\ created = {}

\* A key is used only when no other key is being worked on.
Open(k) ==
    /\ verdict[k] = "unused"
    /\ \A j \in Key : verdict[j] # "open"
    /\ verdict' = [verdict EXCEPT ![k] = "open"]
    /\ UNCHANGED created

\* Desktop creates the session; logout does not call back a command.
Create(k) ==
    /\ verdict[k] \in {"open", "abandoned"}
    /\ created' = created \cup {k}
    /\ UNCHANGED verdict

Conclude(k, conclusion) ==
    /\ verdict[k] = "open"
    /\ verdict' = [verdict EXCEPT ![k] = conclusion]
    /\ UNCHANGED created

Succeed(k) == k \in created /\ Conclude(k, "succeeded")
Release(k) == k \notin created /\ Conclude(k, "released")
Abandon(k) == Conclude(k, "abandoned")

Next == \E k \in Key : Open(k) \/ Create(k) \/ Succeed(k) \/ Release(k) \/ Abandon(k)

Spec == Init /\ [][Next]_<<verdict, created>>
=============================================================================
