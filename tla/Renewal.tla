------------------------------- MODULE Renewal -------------------------------
(***************************************************************************)
(* The renewal of a control session, as control-session-renewal.js decides *)
(* it: what the answers to commands and renewals mean for the session, and *)
(* whether a request for renewal is sent.                                  *)
(*                                                                         *)
(* Of an operation only matters whether there is one to retry.             *)
(***************************************************************************)
EXTENDS Naturals

Renewal == [phase : {"idle", "renew_required", "renewing", "retry_required", "renew_failed",
                     "recreating"},
            operation : BOOLEAN, attempts : 0..1]

\* "closed" stands for both errors of CLOSED_SESSION_ERRORS, "plain" for any
\* other than these three.
ErrorCodes == {"plain", "reauth", "closed"}

NoRenewal == [phase |-> "idle", operation |-> FALSE, attempts |-> 0]

\* command_failed, of a mutation.
CommandFailed(renewal, code) ==
    CASE code = "closed" -> [renewal EXCEPT !.phase = "recreating", !.operation = TRUE]
      [] code = "reauth" -> [phase |-> "renew_required", operation |-> TRUE, attempts |-> 0]
      [] code = "plain" -> renewal

\* The effect renew_session of renew_requested.
Renews(renewal) == renewal.phase # "renewing" /\ renewal.attempts = 0

RenewRequested(renewal) ==
    IF Renews(renewal) THEN [renewal EXCEPT !.phase = "renewing", !.attempts = 1] ELSE renewal

\* Mutant: a success counts as a further attempt.
CountsSuccess(renewal) ==
    IF renewal.operation THEN [renewal EXCEPT !.phase = "retry_required", !.attempts = @ + 1]
    ELSE NoRenewal

RenewSucceeded(renewal) ==
    IF renewal.operation THEN [renewal EXCEPT !.phase = "retry_required", !.attempts = 1]
    ELSE NoRenewal

RenewFailed(renewal, code) ==
    [renewal EXCEPT !.phase = IF code = "closed" THEN "recreating" ELSE "renew_failed"]

\* Mutant: a renewal that failed lets mutations through.
BlocksOpenOnes(renewal) == renewal.phase \in {"renew_required", "renewing", "recreating"}

\* Mutant: a renewal under way lets them through.
BlocksSettledOnes(renewal) == renewal.phase \in {"renew_required", "renew_failed", "recreating"}

\* The buttons of mutations are disabled.
Blocks(renewal) ==
    renewal.phase \in {"renew_required", "renewing", "renew_failed", "recreating"}
=============================================================================
