----------------------------- MODULE PromptQueue -----------------------------
(***************************************************************************)
(* Prompts for the queue of a busy session: sendRemotePrompt and           *)
(* cancelPendingRemoteOperation (app.js), over the store of                *)
(* busy-session-state.js, with everything of the page that overtakes them: *)
(* snapshots, other selections, reset, another account, a reload.          *)
(*                                                                         *)
(* A prompt is sent under an idempotency key.  As long as its outcome is   *)
(* open, the page retains the key and every further click of the send      *)
(* button repeats it, so that the Desktop queues the prompt once.          *)
(*                                                                         *)
(* Calls are coroutines; one action is the code between two awaits.  A     *)
(* call goes on in a later generation than its own: the store takes its    *)
(* answer for one about the attempt it retains by then.  Cloud and Desktop *)
(* are external: a key is recorded once, and a POST of it from another     *)
(* control session is a conflict.                                          *)
(***************************************************************************)
EXTENDS EnqueueStore

CONSTANTS
    Key,            \* idempotency keys; they also name the command and the pending operation
    Scope,          \* sessions the page can select, with device and organization
    Account,        \* accounts, with server and organization
    SessionsOf,     \* the sessions of each account
    Call,           \* names for concurrent calls
    Faults,         \* what may go wrong, a subset of FaultNames
    MaxGeneration   \* bound of controlGeneration

FaultNames == {
    "reject",         \* Cloud refuses the only POST of a key (4xx)
    "rejectRetry",    \* Cloud refuses a POST of a key another POST of which is about
    "undecryptable"}  \* a terminal cannot be decrypted or names another operation

ASSUME PromptQueueAssumption ==
    /\ Faults \subseteq FaultNames
    /\ SessionsOf \in [Account -> SUBSET Scope]
    /\ MaxGeneration \in Nat \ {0}
    /\ NONE \notin Key \cup Scope \cup Account

Status == {"queued", "enqueued", "started", "failed"}
Attempts == [key : Key, command : Key \cup {NONE}]
Commands == [status : Status, scope : Scope \cup {NONE}, gen : Nat]

ASSUME NoneAssumption == NONE \notin Attempts \cup Commands \cup {"accepted", "conflict", "rejected"}

VARIABLES
    user,      \* the account signed in, or NONE
    selected,  \* state.selectedSessionId, or NONE
    opening,   \* selectRemoteSession awaits openControlSession
    open,      \* state.controlSession is not null
    gen,       \* state.controlGeneration; it names the control session
    busy,      \* state.controlBusy
    store,     \* state.pendingEnqueues
    snap,      \* the snapshot on its way, with the pending operations in it
    call,      \* where each call is suspended
    cmd,       \* external: the command recorded under each key
    posts,     \* external: POSTs the page has given up that may still arrive
    queue,     \* external: the Desktop's pending operations
    outcome,   \* history: what the page has concluded about each key, see Outcomes
    stray      \* history: handles entered by a late answer, or by that to another's command

page == <<user, selected, opening, open, gen, busy>>
world == <<cmd, posts, queue>>
history == <<outcome, stray>>
vars == <<page, store, snap, call, world, history>>

-----------------------------------------------------------------------------
\* key is that of the prompt or the operation to cancel, command the one awaited.
Idle == [pc |-> "idle", key |-> NONE, command |-> NONE, scope |-> NONE, gen |-> 0, reply |-> NONE]
NoSnapshot == [pc |-> "none", ids |-> << >>]

HasAttempt(e, k) == e.attempt # NONE /\ e.attempt.key = k

Init ==
    /\ user = NONE /\ selected = NONE /\ opening = FALSE /\ open = FALSE
    /\ gen = 1 /\ busy = FALSE
    /\ store = EmptyStore
    /\ snap = NoSnapshot
    /\ call = [c \in Call |-> Idle]
    /\ cmd = [k \in Key |-> NONE] /\ posts = {} /\ queue = [s \in Scope |-> << >>]
    /\ outcome = [k \in Key |-> "unused"] /\ stray = {}

\* What becomes of the key of a prompt: the page concludes that it was accepted, or
\* refused; or drops the attempt while it is open.
Outcomes == {
    "unused", "open",
    "done", "refused",
    "left",        \* the page goes to another session, device or account
    "forgotten",   \* the devices cannot be loaded, or session.prompt is not advertised
    "crossed"}     \* the answer was to a call of an earlier generation, or to the
                   \* command of another prompt

Late(c) == call[c].gen # gen

\* A late call puts its command into whatever attempt there is, which then awaits it.
Foreign(c) == call[c].command \notin {NONE, call[c].key}

\* An answer to c that ends the attempt, whosever it is.
Concludes(c, o) ==
    /\ outcome' = [k \in Key |->
          CASE outcome[k] # "open" -> outcome[k]
            [] k = call[c].key /\ (call[c].command = k \/ ~(Late(c) \/ Foreign(c))) -> o
            [] HasAttempt(store, k) /\ (Late(c) \/ Foreign(c)) -> "crossed"
            [] OTHER -> "open"]

\* An attempt is dropped without an answer.
Drops(o) ==
    /\ outcome' = [k \in Key |->
          IF outcome[k] = "open" /\ HasAttempt(store, k) /\ ~HasAttempt(store', k)
          THEN o ELSE outcome[k]]
    /\ UNCHANGED stray

Leaves == Drops("left")

\* The end of runRemoteOperation: controlBusy is released in its own generation only.
Release(c) == busy' = (busy /\ call[c].gen # gen)

Ends(c) == call' = [call EXCEPT ![c] = Idle]

\* requestSelectedRecovery: there is one at a time.
WantSnapshot == IF snap.pc = "none" /\ open THEN [NoSnapshot EXCEPT !.pc = "wanted"] ELSE snap

-----------------------------------------------------------------------------
(* Selecting, closing, resetting *)

\* Mutant: installing a snapshot goes on in the next generation.
InstallsLate ==
    /\ gen < MaxGeneration
    /\ gen' = gen + 1
    /\ open' = FALSE
    /\ snap' = IF snap.pc = "boundary" THEN snap ELSE NoSnapshot

\* closeSelectedControlSession and resetRemoteBrowser up to pendingEnqueues: what
\* awaits a snapshot finds its generation gone.
NewGeneration ==
    /\ gen < MaxGeneration
    /\ gen' = gen + 1
    /\ open' = FALSE
    /\ snap' = NoSnapshot

Select(s) ==
    /\ user # NONE /\ s \in SessionsOf[user]
    /\ selected # s \/ (~open /\ ~opening)
    /\ selected' = s /\ opening' = TRUE
    /\ store' = IF selected \in {NONE, s} THEN store ELSE Clear(store)
    /\ Leaves
    /\ \/ open /\ NewGeneration
       \/ ~open /\ UNCHANGED <<gen, open, snap>>
    /\ UNCHANGED <<user, busy, call, world>>

\* The control session opens; its snapshot is requested unless controlBusy is set.
OpenReturns ==
    /\ opening
    /\ opening' = FALSE /\ open' = TRUE /\ busy' = TRUE
    /\ store' = EnterScope(store, selected)
    /\ Leaves
    /\ snap' = IF busy THEN snap ELSE [NoSnapshot EXCEPT !.pc = "running"]
    /\ UNCHANGED <<user, selected, gen, call, world>>

OpenFails ==
    /\ opening
    /\ opening' = FALSE
    /\ UNCHANGED <<user, selected, open, gen, busy, store, snap, call, world, history>>

\* The close button and collapsing the workspace keep what is pending; selecting
\* another workspace, which a busy page ignores, drops it.
CloseSession ==
    /\ selected # NONE
    /\ NewGeneration
    /\ selected' = NONE /\ opening' = FALSE
    /\ store' = LeaveScope(store) \/ (~busy /\ store' = Clear(store))
    /\ Leaves
    /\ UNCHANGED <<user, busy, call, world>>

\* resetRemoteBrowser
Resets ==
    /\ NewGeneration
    /\ selected' = NONE /\ opening' = FALSE /\ busy' = FALSE

\* Back to the devices, and perhaps to another one.
ShowDeviceList ==
    /\ user # NONE
    /\ Resets
    /\ store' \in {LeaveScope(store), Clear(store)}
    /\ Leaves
    /\ UNCHANGED <<user, call, world>>

Logout ==
    /\ user # NONE
    /\ Resets
    /\ user' = NONE
    /\ store' = Clear(store)
    /\ Leaves
    /\ UNCHANGED <<call, world>>

SwitchOrganization(a) ==
    /\ user \notin {NONE, a}
    /\ Resets
    /\ user' = a
    /\ store' = Fence(LeaveScope(store), SessionsOf[a])
    /\ Leaves
    /\ UNCHANGED <<call, world>>

SignIn(a) ==
    /\ user = NONE
    /\ user' = a
    /\ store' = Fence(store, SessionsOf[a])
    /\ Leaves
    /\ UNCHANGED <<selected, opening, open, gen, busy, snap, call, world>>

\* The page forgets everything but local storage; a POST may be on its way.
Reload ==
    /\ Resets
    /\ user' = NONE
    /\ store' = Load(store.disk)
    /\ call' = [c \in Call |-> Idle]
    /\ posts' = posts \cup {[key |-> call[c].key, scope |-> call[c].scope, gen |-> call[c].gen] :
                            c \in {d \in Call : call[d].pc = "posting" /\ call[d].reply = NONE}}
    /\ UNCHANGED <<cmd, queue, history>>

\* The selected device is no longer listed; or the list cannot be loaded, which
\* clears the store under the control session, and is the same the next time.
LoadDevices ==
    /\ user # NONE
    /\ store' = Clear(store)
    /\ \/ /\ open /\ Resets
          /\ Leaves
       \/ /\ ~open /\ UNCHANGED <<selected, opening, open, gen, busy, snap>>
          /\ Leaves
       \/ /\ UNCHANGED <<selected, opening, open, gen, busy, snap>>
          /\ Drops("forgotten")
    /\ UNCHANGED <<user, call, world>>

-----------------------------------------------------------------------------
(* Snapshots *)

RecoveryStarts ==
    /\ open /\ snap.pc = "none"
    /\ snap' = WantSnapshot
    /\ UNCHANGED <<page, store, call, world, history>>

SnapshotStarts ==
    /\ snap.pc = "wanted" /\ ~busy
    /\ snap' = [snap EXCEPT !.pc = "running"]
    /\ busy' = TRUE
    /\ UNCHANGED <<user, selected, opening, open, gen, store, call, world, history>>

SnapshotReturns ==
    /\ snap.pc = "running"
    /\ snap' = [pc |-> "boundary", ids |-> queue[selected]]
    /\ busy' = FALSE
    /\ UNCHANGED <<user, selected, opening, open, gen, store, call, world, history>>

SnapshotInstalled ==
    /\ snap.pc = "boundary"
    /\ snap' = NoSnapshot
    /\ store' = ReplaceIds(store, snap.ids)
    /\ stray' = IF store.scope = NONE THEN stray ELSE {}
    /\ UNCHANGED <<page, call, world, outcome>>

\* A selection gives up, a recovery recreates the control session.
SnapshotFails ==
    /\ snap.pc \in {"running", "boundary"}
    /\ busy' = (busy /\ snap.pc # "running")
    /\ \/ snap' = NoSnapshot /\ UNCHANGED <<opening, open, gen, store>>
       \/ NewGeneration /\ opening' = TRUE /\ store' = LeaveScope(store)
    /\ UNCHANGED <<user, selected, call, world, history>>

-----------------------------------------------------------------------------
(* sendRemotePrompt with "enqueue" *)

Starts(c, pc, k, command) ==
    /\ open /\ ~busy
    /\ call[c] = Idle
    /\ call' = [call EXCEPT ![c] = [pc |-> pc, key |-> k, command |-> command,
                                    scope |-> selected, gen |-> gen, reply |-> NONE]]
    /\ busy' = TRUE
    /\ UNCHANGED <<user, selected, opening, open, gen, snap, world, stray>>

\* Nothing is retained: a new key, itself retained unless a failed refresh of the
\* devices has left the store without a session.
SendNew(c, k) ==
    /\ Attempt(store) = NONE /\ outcome[k] = "unused"
    /\ Starts(c, "posting", k, NONE)
    /\ store' = BeginAttempt(store, k)
    /\ outcome' = [outcome EXCEPT ![k] = IF store.scope = NONE THEN "forgotten" ELSE "open"]

\* A key is retained, but no command.
SendAgain(c) ==
    /\ Attempt(store) # NONE /\ Attempt(store).command = NONE
    /\ Starts(c, "posting", Attempt(store).key, NONE)
    /\ UNCHANGED <<store, outcome>>

\* The same, but the device does not advertise session.prompt: the click fails before
\* its POST, and the attempt of the earlier POST is given up.
SendUnadvertised ==
    /\ open /\ ~busy
    /\ Attempt(store) # NONE /\ Attempt(store).command = NONE
    /\ store' = ClearAttempt(store)
    /\ Drops("forgotten")
    /\ UNCHANGED <<page, snap, call, world>>

\* A command is retained: its terminal is awaited.
Resume(c) ==
    /\ Attempt(store) # NONE /\ Attempt(store).command # NONE
    /\ Starts(c, "waiting", Attempt(store).key, Attempt(store).command)
    /\ UNCHANGED <<store, outcome>>

\* executeRemoteCommand: the command is known, and retained with the attempt there
\* is; waitForCommand gives up at once if the generation has ended.
PostAccepted(c) ==
    /\ call[c].pc = "posting" /\ call[c].reply = "accepted"
    /\ store' = SetCommand(store, call[c].key)
    /\ IF Late(c) THEN Ends(c)
       ELSE call' = [call EXCEPT ![c].pc = "waiting", ![c].command = call[c].key, ![c].reply = NONE]
    /\ UNCHANGED <<page, snap, world, history>>

\* definitiveNonEnqueued: the attempt is given up.
PostRejected(c) ==
    /\ call[c].pc = "posting" /\ call[c].reply = "rejected"
    /\ store' = ClearAttempt(store)
    /\ Concludes(c, "refused")
    /\ Ends(c) /\ Release(c)
    /\ UNCHANGED <<user, selected, opening, open, gen, snap, world, stray>>

\* idempotency_conflict: the prompt has been accepted before, a snapshot will show it.
PostConflicts(c) ==
    /\ call[c].pc = "posting" /\ call[c].reply = "conflict"
    /\ store' = ClearAttempt(store)
    /\ Concludes(c, "done")
    /\ snap' = WantSnapshot
    /\ Ends(c) /\ Release(c)
    /\ UNCHANGED <<user, selected, opening, open, gen, world, stray>>

GivesUp(c) ==
    posts' = IF call[c].reply # NONE THEN posts
             ELSE posts \cup {[key |-> call[c].key, scope |-> call[c].scope, gen |-> call[c].gen]}

\* Mutant: without a command the attempt is given up.
ForgetsUncertain(c) ==
    /\ call[c].pc = "posting"
    /\ GivesUp(c)
    /\ Ends(c) /\ Release(c)
    /\ store' = ClearAttempt(store)
    /\ UNCHANGED <<user, selected, opening, open, gen, snap, cmd, queue, history>>

\* ambiguousMutation: no answer, or none that can be used.
PostUncertain(c) ==
    /\ call[c].pc = "posting"
    /\ GivesUp(c)
    /\ Ends(c) /\ Release(c)
    /\ UNCHANGED <<user, selected, opening, open, gen, store, snap, cmd, queue, history>>

\* A request of waitForCommand returns a terminal; nothing is compared after it.
Terminal(c, statuses) ==
    /\ call[c].pc = "waiting"
    /\ cmd[call[c].command].status \in statuses
    /\ Ends(c) /\ Release(c)
    /\ UNCHANGED <<user, selected, opening, open, gen, world>>

WaitSucceeds(c) ==
    /\ Terminal(c, {"enqueued", "started"})
    /\ LET queued == cmd[call[c].command].status = "enqueued"
       IN  /\ store' = IF queued THEN AddId(ClearAttempt(store), call[c].command)
                       ELSE ClearAttempt(store)
           /\ stray' = IF queued /\ (Late(c) \/ Foreign(c)) THEN stray \cup {call[c].command}
                       ELSE stray
    /\ Concludes(c, "done")
    /\ UNCHANGED snap

\* The keys of an earlier control session are gone: a snapshot will show the outcome.
WaitReconciles(c) ==
    /\ Terminal(c, {"enqueued", "started"})
    /\ cmd[call[c].command].gen # gen
    /\ store' = ClearAttempt(store)
    /\ Concludes(c, "done")
    /\ snap' = WantSnapshot
    /\ UNCHANGED stray

\* safeTerminal: the command has failed, or so the page thinks.
WaitRefused(c) ==
    /\ Terminal(c, IF "undecryptable" \in Faults THEN {"failed", "enqueued", "started"} ELSE {"failed"})
    /\ store' = ClearAttempt(store)
    /\ Concludes(c, "refused")
    /\ UNCHANGED <<snap, stray>>

\* Mutant: a deadline is taken for a failure of the command.
FailsForGood(c) ==
    /\ call[c].pc = "waiting"
    /\ Ends(c) /\ Release(c)
    /\ store' = ClearAttempt(store)
    /\ Concludes(c, "refused")
    /\ UNCHANGED <<user, selected, opening, open, gen, snap, world, stray>>

\* The deadline, a failed request, or the end of the generation.
WaitFails(c) ==
    /\ call[c].pc = "waiting"
    /\ Ends(c) /\ Release(c)
    /\ UNCHANGED <<user, selected, opening, open, gen, store, snap, world, history>>

-----------------------------------------------------------------------------
(* cancelPendingRemoteOperation *)

Cancel(c, id) ==
    /\ id \in Listed(store)
    /\ Starts(c, "cancelling", id, NONE)
    /\ UNCHANGED <<store, outcome>>

Cancelled(c) == queue' = [queue EXCEPT ![call[c].scope] = Without(@, call[c].key)]

CancelReturns(c) ==
    /\ call[c].pc = "cancelling"
    /\ Cancelled(c)
    /\ store' = RemoveId(store, call[c].key)
    /\ Ends(c) /\ Release(c)
    /\ UNCHANGED <<user, selected, opening, open, gen, snap, cmd, posts, history>>

CancelFails(c) ==
    /\ call[c].pc = "cancelling"
    /\ Cancelled(c) \/ UNCHANGED queue
    /\ Ends(c) /\ Release(c)
    /\ UNCHANGED <<user, selected, opening, open, gen, store, snap, cmd, posts, history>>

-----------------------------------------------------------------------------
(* Cloud and Desktop *)

Records(k, s, g) == cmd' = [cmd EXCEPT ![k] = [status |-> "queued", scope |-> s, gen |-> g]]

Replies(c, reply) ==
    /\ call[c].pc = "posting" /\ call[c].reply = NONE
    /\ call' = [call EXCEPT ![c].reply = reply]
    /\ UNCHANGED <<page, store, snap, posts, queue, history>>

CloudAccepts(c) ==
    /\ Replies(c, "accepted")
    /\ \/ cmd[call[c].key] = NONE /\ Records(call[c].key, call[c].scope, call[c].gen)
       \/ cmd[call[c].key] # NONE /\ cmd[call[c].key].gen = call[c].gen /\ UNCHANGED cmd

CloudConflicts(c) ==
    /\ Replies(c, "conflict")
    /\ cmd[call[c].key] # NONE /\ cmd[call[c].key].gen # call[c].gen
    /\ UNCHANGED cmd

OnlyPost(c) ==
    /\ cmd[call[c].key] = NONE
    /\ \A p \in posts : p.key # call[c].key
    /\ \A d \in Call \ {c} : call[d].key # call[c].key

CloudRejects(c) ==
    /\ Replies(c, "rejected")
    /\ \/ "reject" \in Faults /\ OnlyPost(c)
       \/ "rejectRetry" \in Faults /\ ~OnlyPost(c)
    /\ UNCHANGED cmd

PostArrives(p) ==
    /\ posts' = posts \ {p}
    /\ \/ cmd[p.key] = NONE /\ Records(p.key, p.scope, p.gen)
       \/ cmd[p.key] # NONE /\ UNCHANGED cmd
    /\ UNCHANGED <<page, store, snap, call, queue, history>>

DesktopDecides(k) ==
    /\ cmd[k] # NONE /\ cmd[k].status = "queued"
    /\ \E status \in {"enqueued", "started", "failed"} :
        /\ cmd' = [cmd EXCEPT ![k].status = status]
        /\ queue' = IF status = "enqueued"
                    THEN [queue EXCEPT ![cmd[k].scope] = Append(@, k)] ELSE queue
    /\ UNCHANGED <<page, store, snap, call, posts, history>>

\* The oldest pending operation of a session starts.
DesktopStarts(s) ==
    /\ queue[s] # << >>
    /\ queue' = [queue EXCEPT ![s] = Tail(@)]
    /\ UNCHANGED <<page, store, snap, call, cmd, posts, history>>

-----------------------------------------------------------------------------
Next ==
    \/ \E s \in Scope : Select(s) \/ DesktopStarts(s)
    \/ OpenReturns \/ OpenFails \/ CloseSession \/ ShowDeviceList \/ Logout \/ Reload
    \/ LoadDevices \/ SendUnadvertised
    \/ \E a \in Account : SwitchOrganization(a) \/ SignIn(a)
    \/ RecoveryStarts \/ SnapshotStarts \/ SnapshotReturns \/ SnapshotInstalled \/ SnapshotFails
    \/ \E c \in Call :
        \/ \E k \in Key : SendNew(c, k) \/ Cancel(c, k)
        \/ SendAgain(c) \/ Resume(c)
        \/ PostAccepted(c) \/ PostRejected(c) \/ PostConflicts(c) \/ PostUncertain(c)
        \/ WaitSucceeds(c) \/ WaitReconciles(c) \/ WaitRefused(c) \/ WaitFails(c)
        \/ CancelReturns(c) \/ CancelFails(c)
        \/ CloudAccepts(c) \/ CloudConflicts(c) \/ CloudRejects(c)
    \/ \E p \in posts : PostArrives(p)
    \/ \E k \in Key : DesktopDecides(k)

Spec == Init /\ [][Next]_vars

-----------------------------------------------------------------------------
(* Properties *)

TypeOK ==
    /\ user \in Account \cup {NONE} /\ selected \in Scope \cup {NONE}
    /\ {opening, open, busy} \subseteq BOOLEAN /\ gen \in 1..MaxGeneration
    /\ store.scope \in Scope \cup {NONE} /\ store.persisted \in Scope \cup {NONE}
    /\ store.attempt # NONE => store.attempt.key \in Key /\ store.attempt.command \in Key \cup {NONE}
    /\ ToSet(store.ids) \subseteq Key /\ Len(store.ids) <= Limit
    /\ snap.pc \in {"none", "wanted", "running", "boundary"}
    /\ \A c \in Call : call[c].pc \in {"idle", "posting", "waiting", "cancelling"}
    /\ outcome \in [Key -> Outcomes] /\ stray \subseteq Key

\* A reload at any moment finds in local storage the attempt and the pending
\* operations the page has in memory, and finds them in the same session.
ReloadLosesNothing ==
    LET found == Load(store.disk)
    IN  /\ found.attempt = store.attempt /\ found.ids = store.ids
        /\ store.attempt # NONE \/ store.ids # << >> => found.persisted = store.persisted

\* A prompt whose outcome is open is retained, so that sending it again repeats its
\* key, whatever is lost, refused or reloaded.  Without an outcome the page gives it
\* up in these cases only: it goes to another session, device or account; the
\* devices cannot be loaded (app.js 413-416), or session.prompt is not advertised
\* (756, 1024); the store takes for it the answer to a call of an earlier
\* generation, or to a command such a call has put into it (992-1025).
OpenIsRetained == \A k \in Key : outcome[k] = "open" => HasAttempt(store, k)

\* As long as Cloud refuses no retry and terminals can be read: a prompt the page
\* takes for refused, by an answer to a POST of the present generation or by the
\* terminal of its own command, is never queued or started, however late its POSTs
\* arrive, and the user may safely send it under a new key.
RefusedNeverRuns ==
    \A k \in Key : outcome[k] = "refused" /\ cmd[k] # NONE => cmd[k].status = "failed"

\* Every pending operation on the page is one the Desktop has queued, and queued for
\* the session the page shows, unless a late answer, or that to another prompt's
\* command, has entered it (app.js 1004 compares no generation) and no snapshot has
\* replaced it since.
HandlesOfScope ==
    \A id \in Listed(store) :
        /\ cmd[id] # NONE /\ cmd[id].status = "enqueued"
        /\ cmd[id].scope = store.scope \/ id \in stray
=============================================================================
