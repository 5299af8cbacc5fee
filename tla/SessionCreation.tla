--------------------------- MODULE SessionCreation ---------------------------
(***************************************************************************)
(* SessionCreationMachine (session-creation.js) together with the code of  *)
(* app.js it awaits and the events of the page that overtake it.           *)
(*                                                                         *)
(* A call of submit() or reconcile() is a coroutine: between two awaits it *)
(* runs alone, so one action is the code from one await to the next.  The  *)
(* call started for idempotency key k is at pc[k]; a call acts on          *)
(* whatever this.attempt is when it resumes, which is why pc is per key.   *)
(* The control session, the command and the Desktop session obtained under *)
(* key k are all named k.  Cloud and Desktop are external: they receive,   *)
(* deduplicate by key, refuse or execute what the page posted.             *)
(***************************************************************************)
EXTENDS Naturals, FiniteSets

CONSTANTS
    Key,             \* idempotency keys createKey() can return
    Device,          \* Desktop devices
    Workspace,       \* workspaces
    Login,           \* signed-in identities: an account with its organization
    NONE,            \* null
    TerminalFaults,  \* what can be wrong with the terminal of a created session
    MaxGeneration    \* bound of state.controlGeneration

FaultNames == {"undecryptable", "wrong_operation"}

ASSUME ConstantsAssumption ==
    /\ NONE \notin Key \cup Device \cup Workspace \cup Login
    /\ TerminalFaults \subseteq FaultNames
    /\ MaxGeneration \in Nat

VARIABLES
    attempt,     \* this.attempt: the retained attempt, or NONE
    running,     \* this.running
    pc,          \* where the call working for a key is suspended
    ctx,         \* what currentContext() reads
    sessions,    \* state.sessions: the keys whose session is in the list
    encryption,  \* the entry of state.encryptedSessions for a control session
    net,         \* keys whose POST of session.create is under way
    command,     \* Cloud's and Desktop's record of the command of a key
    outcome      \* history: what the page concluded about a key

vars == <<attempt, running, pc, ctx, sessions, encryption, net, command, outcome>>
call == <<attempt, running, pc, encryption, outcome>>
cloud == <<net, command>>

-----------------------------------------------------------------------------
InProgress == {"submitting", "polling", "reconciling"}
Reconcilable == {"ambiguous", "reconciliation_required"}
Status == InProgress \cup Reconcilable \cup {"reauthentication_required"}
Suspended == {"open", "renew", "encrypt", "post", "wait", "list", "baseline",
              "resume", "listUnknown"}
PC == Suspended \cup {"idle", "dispose"}

Context == [login : Login \cup {NONE}, device : Device \cup {NONE},
            workspace : Workspace \cup {NONE}, generation : Nat]
Attempt == [key : Key, context : Context, binding : Key \cup {NONE},
            controlSession : Key \cup {NONE}, commandId : Key \cup {NONE},
            sessionId : Key \cup {NONE}, mayHaveCommitted : BOOLEAN, status : Status]

\* update(patch): the patches the calls apply to the attempt.
WithStatus(a, status) == [a EXCEPT !.status = status]
WithCommand(a, k) == [a EXCEPT !.commandId = k]
WithControlSession(a, k, binding) == [a EXCEPT !.controlSession = k, !.binding = binding]
Committed(a, id, status) ==
    [a EXCEPT !.mayHaveCommitted = TRUE, !.sessionId = id, !.status = status]

\* immutableEncryptionBinding of the retained control session: one per control
\* session that has encryption state, null for the others.
CurrentBinding ==
    IF attempt = NONE \/ attempt.controlSession = NONE THEN NONE
    ELSE IF encryption[attempt.controlSession] = "off" THEN NONE
    ELSE attempt.controlSession

\* Mutant: the control generation is left out of the comparison.
AnyGeneration ==
    /\ [attempt.context EXCEPT !.generation = 0] = [ctx EXCEPT !.generation = 0]
    /\ attempt.binding = NONE \/ attempt.binding = CurrentBinding

SameContext ==
    /\ attempt.context = ctx
    /\ attempt.binding = NONE \/ attempt.binding = CurrentBinding

\* The test of assertCurrent.
Current == attempt # NONE /\ SameContext

\* Mutants: a fence that leaves the status alone, one that writes the reason into it.
ForgetfulFence(a) == a
ReasonFence(a) == IF a = NONE THEN NONE ELSE WithStatus(a, "context_changed")

\* fence(), and what assertCurrent does to the attempt before it throws.
Fenced(a) == IF a = NONE THEN NONE ELSE WithStatus(a, "reconciliation_required")

\* Mutant: a call may start while another is suspended.
AlwaysReady == TRUE

\* The test both submit and reconcile start with.
Ready == ~running

Goto(k, step) == pc' = [pc EXCEPT ![k] = step] /\ UNCHANGED running

\* Mutant: a call that ends without its finally.
EndsSilently(k) == pc' = [pc EXCEPT ![k] = "idle"] /\ UNCHANGED running

End(k) == pc' = [pc EXCEPT ![k] = "idle"] /\ running' = FALSE

\* The call returns or throws; a and e are the attempt and the encryption it leaves.
EndWith(k, a, e) == attempt' = a /\ encryption' = e /\ End(k) /\ UNCHANGED outcome

\* disposeAndClear: forget attempt a, then await the DELETE of its control session.
DisposeAndClear(k, a, e, verdict) ==
    /\ attempt' = NONE
    /\ outcome' = [outcome EXCEPT ![a.key] = verdict]
    /\ IF a.controlSession = NONE
       THEN End(k) /\ encryption' = e
       ELSE Goto(k, "dispose") /\ encryption' = [e EXCEPT ![a.controlSession] = "off"]

\* Mutants of the two tests of retainFailure below.
SafeWhateverCommitted(a, error) == error = "safe"
IgnoresAmbiguity(a, error, fallback) ==
    a.mayHaveCommitted \/ a.commandId # NONE \/ fallback # NONE
IgnoresCommand(a, error, fallback) ==
    a.mayHaveCommitted \/ error = "ambiguous" \/ fallback # NONE

\* An error is "reauthentication" (its code), "safe" (safeTerminal), "ambiguous"
\* (ambiguousMutation) or "plain".
SafeToRelease(a, error) == error = "safe" /\ ~a.mayHaveCommitted
MayHaveEffect(a, error, fallback) ==
    a.mayHaveCommitted \/ a.commandId # NONE \/ error = "ambiguous" \/ fallback # NONE

\* The decision of retainFailure about attempt a: the status it keeps, or "released".
Verdict(a, error, fallback) ==
    IF a.status = "reconciliation_required" THEN a.status
    ELSE IF error = "reauthentication" THEN "reauthentication_required"
    ELSE IF SafeToRelease(a, error) \/ ~MayHaveEffect(a, error, fallback) THEN "released"
    ELSE IF fallback # NONE THEN fallback ELSE "ambiguous"

RetainFailure(k, a, e, error, fallback) ==
    IF a = NONE THEN EndWith(k, NONE, e)
    ELSE IF Verdict(a, error, fallback) = "released"
    THEN DisposeAndClear(k, a, e, "released")
    ELSE EndWith(k, WithStatus(a, Verdict(a, error, fallback)), e)

Fail(k, error, fallback) == RetainFailure(k, attempt, encryption, error, fallback)

\* assertCurrent throws: the caller's retainFailure then finds the fenced attempt.
Reject(k, e) == EndWith(k, Fenced(attempt), e)

ASSUME NoneAssumption == NONE \notin Attempt /\ NONE \notin Status

-----------------------------------------------------------------------------
Init ==
    /\ attempt = NONE
    /\ running = FALSE
    /\ pc = [k \in Key |-> "idle"]
    /\ ctx = [login |-> NONE, device |-> NONE, workspace |-> NONE, generation |-> 0]
    /\ sessions = {}
    /\ encryption = [k \in Key |-> "off"]
    /\ net = {}
    /\ command = [k \in Key |-> "none"]
    /\ outcome = [k \in Key |-> "unused"]

CanBump == ctx.generation < MaxGeneration
Bumped(b) == [ctx EXCEPT !.generation = IF b THEN @ + 1 ELSE @]

(***************************************************************************)
(* submit() for a new attempt.  createRemoteSession first closes a selected *)
(* control session, if there is one: that is the bump.                     *)
(***************************************************************************)
SubmitNew(k, bump) ==
    /\ Ready /\ attempt = NONE /\ outcome[k] = "unused"
    /\ ctx.login # NONE /\ ctx.device # NONE /\ ctx.workspace # NONE
    /\ bump => CanBump
    /\ ctx' = Bumped(bump)
    /\ attempt' = [key |-> k, context |-> ctx', binding |-> NONE, controlSession |-> NONE,
                   commandId |-> NONE, sessionId |-> NONE, mayHaveCommitted |-> FALSE,
                   status |-> "submitting"]
    /\ outcome' = [outcome EXCEPT ![k] = "open"]
    /\ running' = TRUE
    /\ pc' = [pc EXCEPT ![k] = "open"]
    /\ UNCHANGED <<sessions, encryption, cloud>>

\* submit() of the retained attempt after a reauthentication error.
SubmitRetry ==
    /\ Ready /\ Current /\ ctx.workspace # NONE
    /\ attempt.status = "reauthentication_required"
    /\ running' = TRUE
    /\ pc' = [pc EXCEPT ![attempt.key] = IF attempt.controlSession = NONE THEN "open" ELSE "renew"]
    /\ UNCHANGED <<attempt, ctx, sessions, encryption, cloud, outcome>>

(***************************************************************************)
(* executeAndReconcile up to its first await, entered with attempt a and   *)
(* encryption e.  With end-to-end encryption the payload is encrypted      *)
(* before the POST unless an earlier POST left it cached ("sealed").  If    *)
(* another remote operation holds controlBusy nothing is sent.             *)
(***************************************************************************)
Execute(k, a, e, busy) ==
    LET polling == WithStatus(a, "polling") IN
    IF busy THEN RetainFailure(k, polling, e, "plain", NONE) /\ UNCHANGED net
    ELSE /\ attempt' = polling
         /\ encryption' = e
         /\ UNCHANGED outcome
         /\ IF e[k] = "keyed"
            THEN Goto(k, "encrypt") /\ UNCHANGED net
            ELSE Goto(k, "post") /\ net' = net \cup {k}

\* openControlSession answers, with or without end-to-end encryption, or fails.
OpenReturns(k, mode, busy) ==
    /\ pc[k] = "open"
    /\ LET e == [encryption EXCEPT ![k] = mode] IN
       IF Current
       THEN Execute(k, WithControlSession(attempt, k, CurrentBinding), e, busy)
       ELSE Reject(k, e) /\ UNCHANGED net
    /\ UNCHANGED <<ctx, sessions, command>>

\* renewControlSession answers.
RenewReturns(k, busy) ==
    /\ pc[k] = "renew"
    /\ IF Current THEN Execute(k, attempt, encryption, busy)
                  ELSE Reject(k, encryption) /\ UNCHANGED net
    /\ UNCHANGED <<ctx, sessions, command>>

\* Either of them fails before anything was sent.
OpenFails(k, error) ==
    /\ pc[k] \in {"open", "renew"}
    /\ Fail(k, error, NONE)
    /\ UNCHANGED <<ctx, sessions, cloud>>

\* encryptRemoteControlPayload answers: the POST leaves, whatever happened meanwhile.
EncryptReturns(k) ==
    /\ pc[k] = "encrypt"
    /\ encryption' = [encryption EXCEPT ![k] = IF @ = "keyed" THEN "sealed" ELSE @]
    /\ net' = net \cup {k}
    /\ Goto(k, "post")
    /\ UNCHANGED <<attempt, ctx, sessions, command, outcome>>

\* A local failure carries no HTTP status, so it counts as ambiguous.
EncryptFails(k) ==
    /\ pc[k] = "encrypt"
    /\ Fail(k, "ambiguous", NONE)
    /\ UNCHANGED <<ctx, sessions, cloud>>

-----------------------------------------------------------------------------
\* The POST is answered: Cloud has recorded a command, new or deduplicated.
PostAccepted(k) ==
    /\ pc[k] = "post" /\ command[k] # "none"
    /\ attempt' = IF attempt = NONE THEN NONE ELSE WithCommand(attempt, k)
    /\ Goto(k, "wait")
    /\ UNCHANGED <<ctx, sessions, encryption, cloud, outcome>>

\* A 4xx other than idempotency_conflict: this POST enqueues nothing.
PostRejected(k, error) ==
    /\ pc[k] = "post" /\ k \in net
    /\ error \in {"plain", "reauthentication"}
    /\ net' = net \ {k}
    /\ Fail(k, error, NONE)
    /\ UNCHANGED <<ctx, sessions, command>>

\* A timeout, a 5xx or a malformed answer; the POST may still be under way.
PostUncertain(k) ==
    /\ pc[k] = "post"
    /\ Fail(k, "ambiguous", NONE)
    /\ UNCHANGED <<ctx, sessions, cloud>>

\* The deadline of waitForCommand, a failed poll, or a new control generation.
WaitFails(k, error) ==
    /\ pc[k] = "wait"
    /\ error \in {"ambiguous", "reauthentication"}
    /\ Fail(k, error, NONE)
    /\ UNCHANGED <<ctx, sessions, cloud>>

\* The terminal says the command was refused; its error code may ask to reauthenticate.
WaitRefused(k, error) ==
    /\ pc[k] = "wait" /\ command[k] = "refused"
    /\ error \in {"safe", "reauthentication"}
    /\ Fail(k, error, NONE)
    /\ UNCHANGED <<ctx, sessions, cloud>>

\* The terminal says the command succeeded, and completeRemoteCommand rejects it.
WaitFaulty(k) ==
    /\ pc[k] = "wait" /\ command[k] = "created"
    /\ \/ "undecryptable" \in TerminalFaults /\ encryption[k] # "off"
       \/ "wrong_operation" \in TerminalFaults
    /\ Fail(k, "safe", NONE)
    /\ UNCHANGED <<ctx, sessions, cloud>>

\* A result names the session it created; reconcileKnownResult then lists the sessions.
TakeResult(k, valid) ==
    IF valid
    THEN /\ attempt' = Committed(attempt, k, "reconciling")
         /\ Goto(k, "list")
         /\ UNCHANGED <<encryption, outcome>>
    ELSE EndWith(k, Committed(attempt, attempt.sessionId, "reconciliation_required"), encryption)

WaitSucceeds(k, valid) ==
    /\ pc[k] = "wait" /\ command[k] = "created"
    /\ IF Current THEN TakeResult(k, valid) ELSE Reject(k, encryption)
    /\ UNCHANGED <<ctx, sessions, cloud>>

-----------------------------------------------------------------------------
\* Desktop answers session.list with some of the created sessions.
Listed(found) == found \subseteq {k \in Key : command[k] = "created"}

\* Mutant: any listed session will do.
SelectsAny(found) == found # {}

\* selectCreatedSession: exactly the session of the attempt.
SelectsCreated(found) == attempt.sessionId \in found

(***************************************************************************)
(* session.list answers reconcileKnownResult.  If it holds the exact       *)
(* session, establishBaseline selects it; selecting first closes a control *)
(* session another selection installed meanwhile, which is the bump.       *)
(***************************************************************************)
ListReturns(k, found, bump) ==
    /\ pc[k] = "list" /\ Listed(found)
    /\ bump => CanBump
    /\ sessions' = IF attempt # NONE /\ ctx.workspace = attempt.context.workspace
                   THEN found ELSE sessions
    /\ IF ~Current THEN Reject(k, encryption) /\ UNCHANGED ctx
       ELSE IF ~SelectsCreated(found)
       THEN Fail(k, "plain", "reconciliation_required") /\ UNCHANGED ctx
       ELSE /\ Goto(k, "baseline")
            /\ ctx' = Bumped(bump)
            /\ UNCHANGED <<attempt, encryption, outcome>>
    /\ UNCHANGED cloud

BaselineReturns(k) ==
    /\ pc[k] = "baseline"
    /\ IF Current THEN DisposeAndClear(k, attempt, encryption, "succeeded")
                  ELSE Reject(k, encryption)
    /\ UNCHANGED <<ctx, sessions, cloud>>

ReconcileFails(k, error) ==
    /\ pc[k] \in {"list", "baseline"}
    /\ error \in {"plain", "reauthentication"}
    /\ Fail(k, error, "reconciliation_required")
    /\ UNCHANGED <<ctx, sessions, cloud>>

\* The DELETE of the control session is answered, or fails: both end the call.
DisposeReturns(k) ==
    /\ pc[k] = "dispose"
    /\ End(k)
    /\ UNCHANGED <<attempt, ctx, sessions, encryption, cloud, outcome>>

-----------------------------------------------------------------------------
\* Mutant: the command is never resumed.
SkipsResume == IF attempt.sessionId # NONE THEN "list" ELSE "listUnknown"

\* What reconcile() awaits first.
ResumePoint ==
    CASE attempt.sessionId # NONE -> "list"
      [] attempt.sessionId = NONE /\ attempt.commandId # NONE -> "resume"
      [] OTHER -> "listUnknown"

\* reconcile(), from the session.list button.
Reconcile ==
    /\ Ready /\ attempt # NONE /\ attempt.status \in Reconcilable
    /\ ctx.workspace # NONE
    /\ IF Current
       THEN /\ running' = TRUE
            /\ pc' = [pc EXCEPT ![attempt.key] = ResumePoint]
            /\ attempt' = IF ResumePoint = "list"
                          THEN WithStatus(attempt, "reconciling") ELSE attempt
       ELSE attempt' = Fenced(attempt) /\ UNCHANGED <<running, pc>>
    /\ UNCHANGED <<ctx, sessions, encryption, cloud, outcome>>

\* resumeCommand answers with the result of the succeeded command.
ResumeReturns(k, valid) ==
    /\ pc[k] = "resume" /\ command[k] = "created"
    /\ IF Current THEN TakeResult(k, valid) ELSE Reject(k, encryption)
    /\ UNCHANGED <<ctx, sessions, cloud>>

\* resumeCommand throws (timeout, refused command, busy): no handler, the attempt stays.
ResumeFails(k) ==
    /\ pc[k] = "resume"
    /\ EndWith(k, attempt, encryption)
    /\ UNCHANGED <<ctx, sessions, cloud>>

\* Without a session ID the list only refreshes the page; the attempt stays blocked.
ListUnknownReturns(k, found) ==
    /\ pc[k] = "listUnknown" /\ Listed(found)
    /\ sessions' = IF attempt # NONE /\ ctx.workspace = attempt.context.workspace
                   THEN found ELSE sessions
    /\ IF Current THEN Fail(k, "plain", "reconciliation_required")
                  ELSE Reject(k, encryption)
    /\ UNCHANGED <<ctx, cloud>>

ListUnknownFails(k) ==
    /\ pc[k] = "listUnknown"
    /\ EndWith(k, attempt, encryption)
    /\ UNCHANGED <<ctx, sessions, cloud>>

-----------------------------------------------------------------------------
(* Cloud and Desktop (external). *)

\* Cloud receives a POST; a key it knows names the recorded command.
CloudReceive(k) ==
    /\ k \in net
    /\ net' = net \ {k}
    /\ command' = [command EXCEPT ![k] = IF @ = "none" THEN "queued" ELSE @]
    /\ UNCHANGED <<call, ctx, sessions>>

\* Desktop executes a queued command, or it fails, is rejected, cancelled or expires.
DesktopExecute(k, result) ==
    /\ command[k] = "queued" /\ result \in {"created", "refused"}
    /\ command' = [command EXCEPT ![k] = result]
    /\ UNCHANGED <<call, ctx, sessions, net>>

-----------------------------------------------------------------------------
(* Events of the page that overtake a call. *)

\* resetRemoteBrowser with attempt a, when identity and device are to be l and d.
Reset(a, l, d) ==
    /\ CanBump
    /\ attempt' = Fenced(a)
    /\ ctx' = [login |-> l, device |-> d, workspace |-> NONE, generation |-> ctx.generation + 1]
    /\ sessions' = {}
    /\ encryption' = [k \in Key |-> "off"]

\* "Back to devices".
ShowDeviceList ==
    /\ ctx.login # NONE
    /\ Reset(attempt, ctx.login, ctx.device)
    /\ UNCHANGED <<running, pc, cloud, outcome>>

\* closeSelectedControlSession: the close button, or a stream that ended.
CloseSelected ==
    /\ CanBump
    /\ ctx.workspace # NONE
    /\ ctx' = Bumped(TRUE)
    /\ UNCHANGED <<call, sessions, cloud>>

\* loadDevices: the devices Cloud answers with decide the selected device; a
\* selected control session of another device resets the browser.
RefreshDevices(found, reset) ==
    /\ ctx.login # NONE
    /\ \E d \in Device \cup {NONE} :
         LET fenced == IF attempt # NONE /\ attempt.context.device \notin found
                       THEN Fenced(attempt) ELSE attempt
         IN  /\ CASE ctx.device \in found -> d = ctx.device
                  [] ctx.device \notin found /\ found # {} -> d \in found
                  [] OTHER -> d = NONE
             /\ IF reset
                THEN d # ctx.device /\ Reset(fenced, ctx.login, d)
                ELSE /\ attempt' = fenced
                     /\ ctx' = [ctx EXCEPT !.device = d]
                     /\ UNCHANGED <<sessions, encryption>>
    /\ UNCHANGED <<running, pc, cloud, outcome>>

\* loadDevices fails: no device is selected any more.
RefreshDevicesFails ==
    /\ ctx.login # NONE
    /\ ctx' = [ctx EXCEPT !.device = NONE]
    /\ UNCHANGED <<call, sessions, cloud>>

\* openDeviceDetail, or the workspace.list button; both are disabled while there is an
\* attempt.  Listing the workspaces first closes a selected control session (the bump).
OpenDevice(d, bump) ==
    /\ attempt = NONE /\ ctx.login # NONE
    /\ IF d # ctx.device
       THEN Reset(NONE, ctx.login, d)
       ELSE /\ bump => CanBump
            /\ ctx' = [Bumped(bump) EXCEPT !.workspace = NONE]
            /\ sessions' = {}
            /\ UNCHANGED <<attempt, encryption>>
    /\ UNCHANGED <<running, pc, cloud, outcome>>

\* A workspace row collapses the selected workspace or selects another; the rows are
\* disabled while there is an attempt.
ActivateWorkspace(w) ==
    /\ attempt = NONE /\ ctx.login # NONE /\ ctx.device # NONE
    /\ CanBump
    /\ ctx' = [Bumped(TRUE) EXCEPT !.workspace = IF w = @ THEN NONE ELSE w]
    /\ sessions' = {}
    /\ UNCHANGED <<call, cloud>>

\* selectOrganization, when Cloud has answered.
SwitchOrganization(l) ==
    /\ ctx.login # NONE /\ l # ctx.login
    /\ Reset(attempt, l, NONE)
    /\ UNCHANGED <<running, pc, cloud, outcome>>

\* logout drops the attempt, whatever its state; a suspended call stays suspended.
Logout ==
    /\ ctx.login # NONE
    /\ Reset(NONE, NONE, NONE)
    /\ outcome' = IF attempt = NONE THEN outcome
                  ELSE [outcome EXCEPT ![attempt.key] = "abandoned"]
    /\ UNCHANGED <<running, pc, cloud>>

\* login and loadOrganizations.
SignIn(l) ==
    /\ ctx.login = NONE
    /\ ctx' = [ctx EXCEPT !.login = l]
    /\ UNCHANGED <<call, sessions, cloud>>

-----------------------------------------------------------------------------
\* What a suspended call does next.
CallStep(k) ==
    \/ \E mode \in {"off", "keyed"}, busy \in BOOLEAN : OpenReturns(k, mode, busy)
    \/ \E busy \in BOOLEAN : RenewReturns(k, busy)
    \/ \E error \in {"plain", "reauthentication"} : OpenFails(k, error)
    \/ EncryptReturns(k)
    \/ EncryptFails(k)
    \/ PostAccepted(k)
    \/ \E error \in {"plain", "reauthentication"} : PostRejected(k, error)
    \/ PostUncertain(k)
    \/ \E error \in {"ambiguous", "reauthentication"} : WaitFails(k, error)
    \/ \E error \in {"safe", "reauthentication"} : WaitRefused(k, error)
    \/ WaitFaulty(k)
    \/ \E valid \in BOOLEAN : WaitSucceeds(k, valid)
    \/ \E found \in SUBSET Key, bump \in BOOLEAN : ListReturns(k, found, bump)
    \/ BaselineReturns(k)
    \/ \E error \in {"plain", "reauthentication"} : ReconcileFails(k, error)
    \/ DisposeReturns(k)
    \/ \E valid \in BOOLEAN : ResumeReturns(k, valid)
    \/ ResumeFails(k)
    \/ \E found \in SUBSET Key : ListUnknownReturns(k, found)
    \/ ListUnknownFails(k)

Submit == (\E k \in Key, bump \in BOOLEAN : SubmitNew(k, bump)) \/ SubmitRetry

External(k) == CloudReceive(k) \/ \E result \in {"created", "refused"} : DesktopExecute(k, result)

Page ==
    \/ ShowDeviceList
    \/ CloseSelected
    \/ \E found \in SUBSET Device, reset \in BOOLEAN : RefreshDevices(found, reset)
    \/ RefreshDevicesFails
    \/ \E d \in Device, bump \in BOOLEAN : OpenDevice(d, bump)
    \/ \E w \in Workspace : ActivateWorkspace(w)
    \/ \E l \in Login : SwitchOrganization(l)
    \/ Logout
    \/ \E l \in Login : SignIn(l)

Next ==
    \/ Submit
    \/ Reconcile
    \/ \E k \in Key : CallStep(k) \/ External(k)
    \/ Page

Spec == Init /\ [][Next]_vars

-----------------------------------------------------------------------------
(* Properties *)

TypeOK ==
    /\ attempt \in Attempt \cup {NONE}
    /\ running \in BOOLEAN
    /\ pc \in [Key -> PC]
    /\ ctx \in Context
    /\ sessions \subseteq Key
    /\ encryption \in [Key -> {"off", "keyed", "sealed"}]
    /\ net \subseteq Key
    /\ command \in [Key -> {"none", "queued", "created", "refused"}]
    /\ outcome \in [Key -> {"unused", "open", "succeeded", "released", "abandoned"}]

(***************************************************************************)
(* An attempt whose status says "in progress" has a call working for it:   *)
(* submit and reconcile both refuse such an attempt, so one left behind    *)
(* without a call would lock the page until logout (app.js:865).           *)
(***************************************************************************)
InProgressIsRunning ==
    attempt # NONE /\ attempt.status \in InProgress => pc[attempt.key] \in Suspended

(***************************************************************************)
(* A suspended call resumes on the attempt it was started for, or on none: *)
(* logout can drop the attempt under a call, and nothing the late call     *)
(* does may reach an attempt submitted after it.                           *)
(***************************************************************************)
OwnCompletion ==
    \A k \in Key : pc[k] \in Suspended => attempt = NONE \/ attempt.key = k

(***************************************************************************)
(* An attempt given up as never executed (its key is thrown away, and the  *)
(* next submit uses a new one) has no session, no queued command and no    *)
(* POST under way: the retry cannot create a second session.               *)
(***************************************************************************)
ReleasedNeverCreated ==
    \A k \in Key : outcome[k] = "released" =>
        command[k] = "refused" \/ (command[k] = "none" /\ k \notin net)

(***************************************************************************)
(* Creation is reported complete only for a session Desktop created, when  *)
(* exactly that session is in the refreshed list.                          *)
(***************************************************************************)
SucceededIsListed ==
    [][\A k \in Key : outcome[k] # "succeeded" /\ outcome'[k] = "succeeded" =>
           k \in sessions /\ command[k] = "created"]_vars

(***************************************************************************)
(* While device, workspace, identity or control generation differ from the *)
(* ones the attempt was made in, no completion concludes the attempt and   *)
(* no result is taken over.                                                *)
(***************************************************************************)
FencedNeverCompletes ==
    [][attempt # NONE /\ attempt.context # ctx =>
           /\ outcome'[attempt.key] # "succeeded"
           /\ attempt' # NONE => attempt'.sessionId = attempt.sessionId]_vars

(***************************************************************************)
(* An attempt known to have committed leaves the page only by success or   *)
(* by logout, whatever the terminal of a retried command looks like.       *)
(***************************************************************************)
CommittedAttemptKept ==
    [][attempt # NONE /\ attempt.mayHaveCommitted /\ attempt' = NONE =>
           outcome'[attempt.key] \in {"succeeded", "abandoned"}]_vars

\* What the page promises about keys and sessions, without the machinery.
Contract == INSTANCE CreationContract WITH
                verdict <- outcome, created <- {k \in Key : command[k] = "created"}
ImplementsContract == Contract!Spec

(***************************************************************************)
(* Every await of a call answers or times out (request: 12 s, the command: *)
(* 35 s, the boundary of the baseline: 5 s), hence weak fairness of calls. *)
(***************************************************************************)
FairCalls == \A k \in Key : WF_vars(CallStep(k))
FairSpec == Spec /\ FairCalls

\* The page is released from "in progress" again: no call stays suspended for ever.
CallsEnd == running ~> ~running

(***************************************************************************)
(* A user who keeps using the button the page offers, a Cloud that answers *)
(* now and then, and a Desktop whose list shows what it created.           *)
(***************************************************************************)
Persistence ==
    /\ FairCalls
    /\ SF_vars(SubmitRetry) /\ SF_vars(Reconcile)
    /\ \A k \in Key :
         /\ WF_vars(External(k))
         /\ SF_vars(RenewReturns(k, FALSE))
         /\ SF_vars(PostAccepted(k))
         /\ SF_vars(WaitSucceeds(k, TRUE))
         /\ SF_vars(ResumeReturns(k, TRUE))
         /\ SF_vars(ListReturns(k, {j \in Key : command[j] = "created"}, FALSE))
         /\ SF_vars(BaselineReturns(k))
PersistentSpec == Spec /\ Persistence

(***************************************************************************)
(* An attempt whose command is known and whose session exists can be       *)
(* finished: as long as the page stays in its context, retrying leads to   *)
(* completion.                                                             *)
(***************************************************************************)
CreatedAttemptResolves ==
    \A k \in Key :
        (/\ attempt # NONE /\ attempt.key = k
         /\ attempt.commandId # NONE /\ command[k] = "created")
            ~> (attempt = NONE \/ attempt.context # ctx)

=============================================================================
