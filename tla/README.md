# A TLA+ model of the web controller

The repository is a browser page (`app.js` and the modules it imports) that lets
a signed-in user look at, and steer, agent sessions on a Desktop device. The page
talks to Cloud over HTTP and server-sent events; Cloud queues commands for the
Desktop. Nothing of this is transactional: a command is posted under an
idempotency key, its result is polled, and everything the user, a timer, a stream
or another device does in between overtakes the code that waits.

This directory holds a model of that program: TLA+ modules, TLC configurations
that check them on small instances, and TLAPS proofs of the main results for every
instance. `PROJECT.json` lists runs, mutants, the source lines behind every
definition, findings, hazards and theorems.

## The parts of the system

| part | state it keeps | operations | hard because |
|---|---|---|---|
| session creation (`session-creation.js`, `app.js` 93-132, 711-742, 872-911) | the retained attempt, `running` | `submit`, `reconcile`, `fence`, `disposeAndClear` | nine awaits per call, each overtaken by page events; a lost answer must not become a second session |
| selected control session (`app.js` 542-604, 752-787, 913-957, 1059-1075, 1132-1274) | `controlGeneration`, `controlBusy`, `controlSession`, selection, `remoteRecovery` | select, close, reset, recover, recreate, run an operation | generations fence completions; one busy flag shared by all of it |
| remote session state (`remote-session-state.js`) | cursor, sequence, seen events, messages, todos, interactions, runs | install a baseline, apply an event | snapshot and stream race; duplicates, gaps, replays |
| remote session stream (`remote-session-stream.js`) | cursor, failures, timers, `stopped`, `generation` | start, stop, connect, poll | reconnect with a cursor, polling beside reconnecting, late callbacks |
| pending enqueues (`busy-session-state.js`, `app.js` 959-1057) | queue handles, one retained attempt, local storage, scope | begin, resume, settle an attempt; add, remove, replace handles | reload of the page between two steps; another tab |
| renewal (`control-session-renewal.js`, `app.js` 1077-1124) | phase | `transitionRenewal` | mutations racing a renewal |
| notifications (`remote-notifications.js`) | delivered keys, permission | `notify` | the same transition seen twice |
| SSE parser (`sse.js`) | buffer, current record | parse a chunk | chunk borders anywhere |
| end-to-end encryption (`remote-e2ee*.js`, `e2ee-negotiation.js`) | keys per control session, sealed attempts | negotiate, seal, open | a terminal that cannot be opened |
| sign-in, organizations, policy, devices (`app.js` 301-422, 1669-1692) | token, organization, gates, devices | login, switch, refresh, logout | all of them reset what calls rely on |
| workspace selection (`workspace-selection.js`) | none | decide what a click on a row does | |
| rendering, static server, `index.html`, `styles.css` | none worth modelling | | |

Interaction: `app.js` owns one `state` object. `SessionCreationMachine` is given
functions of `app.js` to await and is called by it (`submit` from the form,
`reconcile` from the `session.list` button, `fence` from `resetRemoteBrowser` and
`loadDevices`, `disposeAndClear` from `logout`). The selected control session owns
one stream and one replica (remote session state); stream callbacks and recovery
carry the control generation they were started in and do nothing in a later one.

## Modules

| module | models | status |
|---|---|---|
| `CreationContract` | what creation promises, without machinery (abstract specification) | done |
| `SessionCreation` | `SessionCreationMachine`, what it awaits, and the page events that overtake it | done |
| `SessionCreationProofs` | inductive invariant, theorems, refinement | done |
| `Filtering` | `Array.prototype.filter`, by positions | done |
| `SequenceLemmas` | lemmas about sequences and filtering, and induction | done |
| `DesktopSession` | what a session holds and what each event of its stream means for it (`Effect`) | done |
| `EventEnvelope` | which events a copy takes: scope, duplicates, order, the memory of events | done |
| `RemoteSessionState`, `MCRemoteSessionState` | the reducer of `remote-session-state.js`, case by case, against `Effect` | done |
| `RemoteSessionStateProofs` | inductive invariant of the reducer and theorems | done |
| `ReplicaContract` | what the page shows of a session, without machinery (abstract specification) | done |
| `RemoteReplica`, `MCRemoteReplica` | snapshots, boundary, buffer, recovery, polling, recreation over the stream | core done |
| `RemoteReplicaProofs` | inductive invariant and theorem | done |
| `ReplicaContractProofs` | the refinement of `ReplicaContract` by `RemoteReplica`, and why the copy misses no record | done |
| `EnqueueStore` | the store of pending enqueues, in memory and in local storage | done |
| `PromptQueue`, `MCPromptQueue` | prompts for the queue of a session, cancelling them, and what overtakes both | done |
| `PromptQueueProofs` | inductive invariants and theorems | done |
| `SSEParser` | `sse.js`: chunks, lines, fields, records, limits | done |
| `Notifications` | which transitions of the stream are told to the user, each once | stream only |
| `RemoteStream`, `MCRemoteStream` | the stream of a control session with the parser below it and the page above it | done |
| `Renewal` | `transitionRenewal`: what answers mean for the renewal of a control session | done |
| `ControlSession`, `MCControlSession` | browsing, selecting, closing, operations, renewal and recreation over generations | done |
| `ControlSessionProofs` | two inductive invariants and theorems | done |
| `RemoteStreamProofs` | inductive invariants of the stream, what the parser makes of Cloud's bytes, theorems | done |

`RemoteStream` composes `SSEParser` and `Notifications`, `ControlSession` builds on
`Renewal`; these three are pure operators. `ControlSession` is the frame in which
`RemoteReplica` and `RemoteStream` look closer at one control session and
`PromptQueue` and `SessionCreation` at one kind of operation. `RemoteReplica` composes `DesktopSession` and `EventEnvelope`; `RemoteSessionState`
is checked against the same two, which is what lets `RemoteReplica` use `Effect`
where the code runs the reducer. `PromptQueue` is built on the operators of
`EnqueueStore`, which has no state of its own.

### SessionCreation

JavaScript runs to the next `await` without interruption, so one action is the
code between two awaits, retainFailure and disposeAndClear included. A call is a
coroutine: `pc[k]` is where the call started for idempotency key `k` is suspended
(`open`, `renew`, `encrypt`, `post`, `wait`, `list`, `baseline`, `resume`,
`listUnknown`, `dispose`). It is per key and not one variable because `logout`
drops `this.attempt` under a suspended call, which later resumes on whatever
`this.attempt` is then.

| variable | code |
|---|---|
| `attempt` | `this.attempt`, also `state.sessionCreationAttempt` |
| `running` | `this.running` |
| `ctx` | what `currentContext()` reads: user with organization, device, workspace, `controlGeneration` |
| `sessions` | `state.sessions` |
| `encryption` | per control session: no entry in `encryptedSessions`, an entry, an entry and a cached sealed payload |
| `net`, `command` | external: a POST under way; what Cloud and Desktop recorded under the key |
| `outcome` | history: what the page concluded about a key |

`SubmitNew`/`SubmitRetry` are the two ways into `submit`, `Reconcile` is
`reconcile`. `OpenReturns`/`RenewReturns` continue to the encryption of the
payload or to the POST; `PostAccepted`, `PostRejected` and `PostUncertain` are the
three classes of answers of `executeRemoteCommand`; `WaitSucceeds`, `WaitRefused`,
`WaitFails` and `WaitFaulty` are the ends of `waitForCommand` with
`completeRemoteCommand`; `ListReturns` and `BaselineReturns` are
`reconcileKnownResult`. A failure carries one of four errors (`plain`, `safe`,
`ambiguous`, `reauthentication`) because `retainFailure` tells no others apart.
`ShowDeviceList`, `CloseSelected`, `RefreshDevices`, `RefreshDevicesFails`,
`OpenDevice`, `ActivateWorkspace`, `SwitchOrganization`, `Logout` and `SignIn` are
the events of the page; they are guarded by the buttons that are disabled while
there is an attempt. Cloud and Desktop are external and deduplicate by key; a POST
that timed out may arrive at any time later.

Abstractions: title, organization and user are folded into the identity of the
attempt and `Login`; the control session, command and session obtained under key
`k` are all named `k`; whether another operation holds `controlBusy` is a
nondeterministic choice; waiting for the baseline is one await. A list requested
by an earlier selection and answered later than the reset that followed it is not
modelled here (it can overwrite `state.sessions`; see the hazards).

### RemoteSessionState

The code keeps the messages and interactions as a map with a separate list that
gives their order, and the active run beside them. The module keeps that split
(`OrderListsItems` relates the two) and carries, as history, the session that the
accepted envelopes describe (`FollowsSession` compares). Its inputs are any
baselines and envelopes, in scope or not and in any order, as `app.js` may hand them on.
One kind of item stands for messages and interactions, one value for everything in
an item. The format checks of snapshots and the effects the reducer returns for
rendering are left out.

### RemoteReplica

`task` holds three coroutines that fetch snapshots: `select` (`selectRemoteSession`),
`recovery` (`requestSelectedRecovery`, one at a time) and `poll` (`onPoll`). Their
places are the awaits: `opening` (`openControlSession`), `waiting` (for `controlBusy`),
`operation` (the terminal of `session.snapshot`), `boundary` (the record that ends
the command, five seconds) and `applying` (records buffered behind it).

| variable | code |
|---|---|
| `session`, `open` | `controlGeneration`, `state.controlSession` |
| `busy`, `other` | `state.controlBusy`; an operation other than a snapshot is in flight |
| `model` | `state.remoteModel`: scope, `installed`, cursor, sequence, seen events, content |
| `buffer`, `recovery` | `state.remoteEventBuffer`, `state.remoteRecovery` |
| `link`, `cursor`, `failures`, `poll`, `handler` | the stream: its connection, cursor, failures, polling timer, and the `onRecord` it awaits |
| `stale` | records an `onRecord` of an earlier control session is still decrypting |
| `doc`, `log`, `commands` | external: the session, Cloud's log of the control session, the snapshot commands |

| action | code |
|---|---|
| `OpenReturns`, `OpenFails`, `SelectAgain`, `ManualRefresh` | `selectRemoteSession` |
| `WaitEnds`, `OperationReturns`, `OperationFails` | `refreshSelectedSnapshot`, `runRemoteOperation` |
| `Establish`, `BoundaryTimesOut` | `installSelectedSnapshot` finds the boundary in the buffer, or gives up |
| `ApplyBuffered`, `TaskEnds` | the rest of `installSelectedSnapshot` |
| `Connect`, `Disconnect`, `PollTick`, `ControlSessionCloses` | `createRemoteSessionStream` |
| `Deliver`, `DeliverGarbled`, `Repeat`, `Skip` | Cloud sends the next record, an unreadable one, an old one, or none |
| `RecordGarbled`, `RecordOverflows`, `RecordBuffered`, `RecordApplied`, `RecoveryAwaited` | `onRecord` after decryption |
| `StaleRecord` | the same, in an earlier control session: it does not compare generations |

Details that matter. Applying the buffered records and ending the task is several
actions, with nothing of another task between them (`Turn`): their awaits yield
only to one another, in one turn of the event loop. After `Recreate` the tasks of
the old control session only unwind, because every continuation compares the
generation first; but `controlBusy` keeps the value an old operation gave it. The
Desktop takes a snapshot and logs its boundary in one step: this is the assumption
the page's protocol stands on, since nothing else relates a snapshot to the log.

Not modelled here: permanent 401 and 403 answers, `propagateFailure`, two clicks that
open two control sessions in one generation, `remoteStreamState` (display),
renewal, lifecycle records of a command that has not ended, format checks.

### PromptQueue

A prompt for the queue of a busy session is sent under an idempotency key. While its
outcome is open the page retains the key (`attempt`, also in local storage), and a
further click on the send button repeats it or, when the command is known, resumes
waiting for it. `store` is the closure of `createPendingEnqueueState` and the two
items in local storage; every operation of it is an operator of `EnqueueStore`.

| variable | code |
|---|---|
| `user`, `selected` | `state.user` with organization, `state.selectedSessionId` with device and workspace |
| `opening`, `open`, `gen` | `selectRemoteSession` at its first await, `state.controlSession`, `controlGeneration` |
| `busy` | `state.controlBusy` |
| `store` | `state.pendingEnqueues` |
| `snap` | a snapshot on its way: wanted, command running, boundary awaited |
| `call` | where each call of `sendRemotePrompt` or `cancelPendingRemoteOperation` is suspended |
| `cmd`, `posts`, `queue` | external: commands by key, POSTs the page gave up, pending operations of the Desktop |
| `outcome` | history: what the page concluded about a key (`done`, `refused`), or how it gave up one whose outcome was open (`left`, `forgotten`, `crossed`) |
| `stray` | history: pending operations on the page that a late answer has entered, or one to the command of another prompt |

| action | code |
|---|---|
| `SendNew`, `SendAgain`, `Resume` | `sendRemotePrompt` up to the first await, with `prepareEnqueueSubmission` |
| `SendUnadvertised` | the same, when `runRemoteOperation` throws because `session.prompt` is not advertised |
| `PostAccepted`, `PostRejected`, `PostConflicts`, `PostUncertain` | the answers `executeRemoteCommand` tells apart, with what `sendRemotePrompt` makes of them |
| `WaitSucceeds`, `WaitReconciles`, `WaitRefused`, `WaitFails` | `waitForCommand`, `completeRemoteCommand`, and again the rest of `sendRemotePrompt` |
| `Cancel`, `CancelReturns`, `CancelFails` | `cancelPendingRemoteOperation` |
| `Select`, `OpenReturns`, `OpenFails`, `CloseSession`, `ShowDeviceList`, `SwitchOrganization`, `SignIn`, `Logout`, `LoadDevices` | the functions of the page that set, keep or clear the scope of the store |
| `RecoveryStarts`, `SnapshotStarts`, `SnapshotReturns`, `SnapshotInstalled`, `SnapshotFails` | snapshots, which replace the list of pending operations; recreation of the control session |
| `Reload` | the page is loaded anew: only local storage, Cloud and the Desktop keep their state |

No answer is compared with the generation after it has come: `waitForCommand` compares before
its requests only, `sendRemotePrompt` and `cancelPendingRemoteOperation` never do. So a call
of an earlier generation goes on like any other (`Late`), works on whatever the store holds by
then, and may even put its command into another prompt's attempt, which then awaits it
(`Foreign`). `Concludes` and `stray` record where that has decided something.

Abstractions. A key also names its command and its pending operation, a generation
its control session. The text of a prompt, the modes `steer` and `reject`, which
retain nothing, and other operations that hold `controlBusy` are left out. At most
one snapshot is on its way; `RemoteReplica` has the races among several. The request
that cancels decides at the Desktop when it returns, or not at all. `LoadDevices` has the outcomes of
`loadDevices` that touch the store: the selected device is gone, or the list cannot be loaded, which
clears the store under the control session; a failed refresh is followed by one that finds the
same list. Assumed of Cloud: a key is recorded once, and a POST of
it from another control session is answered `idempotency_conflict`, as app.js
1010-1016 and its message say.

### RemoteStream

A stream is one coroutine, `connect`, and two timers. The module joins the three
layers a record passes: `SSEParser` turns the bytes of a connection into records,
the stream hands them on one at a time and commits their cursors, and `page` is what
the callbacks of `startSelectedStream` make of its states.

| variable | code |
|---|---|
| `life` | not started, or `stopped` |
| `cursor`, `failures`, `reconnect`, `timer`, `polling` | `cursor`, `failures`, `reconnectTimer`, `pollTimer`, `pollRunning` |
| `conn` | where `connect` is suspended: `fetching`, `reading`, `handing` (awaiting `onRecord`); the bytes Cloud has sent, the parser, the records left of the chunk |
| `page` | `remoteStreamState`, `remoteConnectionEpoch`, the identities notified; history: how often this loss was told |

| action | code |
|---|---|
| `Start`, `Answered`, `Refused`, `Unauthorized`, `Gone` | `start`, and the answers to `openStream` that `connect` tells apart |
| `ReadReturns`, `ReadEnds`, `ReadBreaks` | `consumeSSEStream`: a chunk of any length, the end of the body, a broken connection |
| `HandReturns`, `HandRejects` | `onRecord` returns and its cursor is committed, or it throws |
| `ReconnectFires`, `PollFires`, `PollReturns` | the timers; `onPoll` with the `finally` that arms its timer again |
| `AppCloses`, `RecoveryStarts`, `RecoveryEnds` | `stop` from the page, and the states a recovery shows in between |
| `CloudSends`, `CloudSendsOther` | external: the next message, or a record of another type, a comment, a line without end |

`Proceed` is what follows a step of the reader: on to the next record, the catch of
`connect` (`Fails`), or the end of the stream (`Stops`, `Closes`).

Abstractions. A symbol of the text is one byte: the two line terminators, the field a
line begins with, and the rest of a line; decoding UTF-8 across chunks is
`TextDecoder`'s. A connection keeps to one terminator. The lengths of delays are left
out: a timer that is set may fire. The page makes a stream for each control session,
starts it once and stops it once, so that `generation` tells nothing that `life` does
not, and `current` is `life = "running"`. What the records mean is `RemoteReplica`'s,
which uses a simpler stream and says nothing about bytes.

### ControlSession

`state` is one object that asynchronous functions change between their awaits. `page`
is the fields that decide: `gen`, `busy`, `workspace`, `list`, `selected`, `cs`,
`lease`, `renewal` are `controlGeneration`, `controlBusy`, `selectedWorkspaceId`, the
workspace whose sessions are in `sessions`, `selectedSessionId`, `controlSession`,
`controlSessionExpiry`, `controlSessionRenewal`; `timers` the `setTimeout`s of refused
mutations, `kept` the control sessions opened and not asked to be deleted, `streams`
those whose stream is not stopped. The helpers `Close`, `Reset`, `Select`, `Release`
take a page and return it changed, as the functions they stand for do.

`call` holds the functions under way, any mixture of them: `opening`
(`selectRemoteSession` at `openControlSession`), `disposable` (a read that opens a
control session of its own), `waiting` (`refreshSelectedSnapshot` waits for the flag),
`operation` (from the POST to the terminal), `installing` (a snapshot waits for its
boundary), `renewing`. Each has the generation it started in.

| action | code |
|---|---|
| `Leave`, `LoadWorkspaces`, `Collapse`, `SelectWorkspace`, `RefreshSessions` | `resetRemoteBrowser`, `loadRemoteWorkspaces`, a click on a workspace with `decideWorkspaceActivation`, `refreshRemoteSessions` |
| `SelectSession`, `RecoverSession`, `CloseSession`, `Mutate`, `Renew` | `selectRemoteSession`, `requestSelectedRecovery`, the button that closes, any mutation, `renewSelectedControlSession` |
| `OpenReturns`, `OpenFails`, `DisposableOpens`, `DisposableFails` | `openControlSession` returns to its two callers |
| `WaitEnds`, `OperationReturns`, `OperationFails`, `InstallEnds` | `runRemoteOperation` with what its caller makes of the result |
| `MutationRefused`, `TimerFires` | the catch of `runRemoteOperation`, and the recreation it schedules |
| `RenewReturns`, `RenewFails` | the rest of `renewSelectedControlSession` |
| `LeaseRunsOut`, `CloudRefuses` | time, and external: Cloud wants a renewal or has closed a control session |

Nothing is added to what the code compares: a session that is being opened can be selected
again, a mutation refused in whatever generation acts on the present renewal, and workspaces
can be browsed during a recreation. What follows is recorded in fields that decide
nothing: `twice` and `replaced` (a session was selected again while it was being opened, and
the control sessions whose place the second opening took), `mixed` (another control session
has acted on this renewal) and `lost` (how a selection came to have no control session).

A recreation is the `Select` of the same session by the function that asked for it;
`from` remembers that its tail closes the control session if the workspace has changed.
An ID of a control session is the least number not in use, which stands for a fresh
one. Encryption, capabilities and the content of answers are left out; an answer that
binds other keys is a renewal that failed but has replaced the control session.

## Runs

| run | instance | shows |
|---|---|---|
| `creation` | 2 keys, 2 devices, 1 workspace, 2 identities, 3 generations, sound terminals | type invariant, `InProgressIsRunning`, `OwnCompletion`, `ReleasedNeverCreated`, `SucceededIsListed`, `FencedNeverCompletes`, refinement of `CreationContract` |
| `creation_faults` | 1 key, 2 devices, 2 generations, all faulty terminals, persistence | `CommittedAttemptKept`, `CallsEnd`, `CreatedAttemptResolves` |
| `creation_safe_terminal` | 2 keys, faulty terminals | finding: an existing session's attempt is released |
| `reducer` | 2 items, 2 values, 2 runs, memory of 1 event, sequences up to 3 | type invariant, `OrderListsItems`, `FollowsSession` |
| `replica` | buffer of 2, 2 events, 2 interferences of `drop skip repeat garble fail slow refresh` | type invariant, `ShowsThePast`, `RecoveryEnds` |
| `replica_order` | buffer of 8, 3 interferences of `drop close fail slow poll refresh other` | `NothingLost`, refinement of `ReplicaContract` (`KeepsPromise`) |
| `replica_live` | buffer of 8, 2 interferences of `drop refresh repeat` | `CatchesUp` |
| `replica_rebuilt` | one `close` | finding: the rebuilt selection never gets its snapshot |
| `enqueue` | 2 prompts, 2 sessions, 2 accounts, 2 calls, 1 handle kept, 2 generations, `reject` | type invariant, `ReloadLosesNothing`, `OpenIsRetained`, `RefusedNeverRuns`, `HandlesOfScope` |
| `stream` | records of 6 bytes, 1 identity remembered, all three line ends, polling after 2 failures, 2 messages, 2 of the ten interferences | type invariant with the bounds, `HandsCloudsMessages`, `InOrder`, `OneConnection`, `FallsBack`, `OneNoticePerLoss`, `SilentAfterStop`, `CatchesUp` |
| `control` | 2 workspaces, 2 sessions, 2 functions at a time, 3 control sessions not deleted, 4 generations | type invariant, `OneOperation`, `NoOrphans`, `SelectedIsServed`, `ListOfWorkspace`, `OneRenewal`, `RetryAfterRenewal`, `Fenced` |
| `control_renew` | the same, 5 control sessions not deleted, 3 generations | finding: a renewal that is offered is not sent |

Bounds of creation. Two keys are the least at which a late completion of one
attempt can meet another; two identities and two devices let the context change to
a different value and back; three generations allow a change before, during and
after a call. The liveness properties concern one attempt, so one key is enough.
`MaxGeneration` guards every action that starts a new generation. Deadlock is
checked: the page can always do something.

Bounds of the replica. One item and one value are enough to tell states of the
session apart by what was logged when, and the proof covers the rest. `MaxEvents`
bounds what the Desktop logs of its own accord, `MaxFaults` all interference
together, so every pair (in `replica_order`: triple) of the interferences listed is
tried at every place; `MaxFailures` 1 makes polling start at the first failure. A
buffer of 2 overflows in these runs, a buffer of 8 does not. A memory of 1 or 2
events forgets. The replica runs do not check deadlock: when events and
interferences are used up and the copy is up to date, the bounded system rests.
`reducer` uses symmetry of items, values and runs; it has no temporal property.

Bounds of the queue. Two sessions and two accounts let the scope change and come
back; with two prompts and a limit of one the list overflows and two outcomes meet
in one store. Two generations allow a reload, recreation or selection before and during a
call, and a call that goes on in the second; with two calls one of them is late while the other is of the
present generation, for the same prompt or for another (1.15 million
states). The generation bound ends every behaviour, so deadlock is not checked;
symmetry of keys, sessions and calls is used, and there is no temporal property.

Bounds of the stream. A message is three lines - its ID, two symbols of data, an
empty one - and takes five bytes with its terminators. All cuts into chunks are tried,
and `MaxRecordBytes` 6 lets a message pass and refuses `Endless`. Two
messages are the least at which one can be skipped or handed on twice; two failures
are the limit at which polling starts; two interferences of ten kinds put every pair
at every place, a lost connection within a record during a poll among them. One
identity remembered makes every notice forget the one before. A stream ends when it
is stopped, so deadlock is not checked.

Bounds of the control session. Two sessions and two workspaces let a selection change
and come back, two functions at a time are the least at which one completes in the
generation of another, and four generations let the third overtake both (4.9 million
states). Three control sessions not deleted (`MaxOpen`) let one be left behind beside the
one in use and that of a read. Calls, sessions and workspaces are interchangeable (symmetry); there is no
temporal property. The generation bound ends every behaviour, so deadlock is not
checked. What is proved needs no bound.

Which interferences a run leaves out, and why. `stream` leaves out none. `ShowsThePast` needs none left out
(the theorem covers all). `RecoveryEnds` leaves out `poll`, `other` and `close`:
with them `controlBusy` can be held for ever by an earlier control session, which
is the finding of `replica_rebuilt`. `KeepsPromise` and `NothingLost` assume a Cloud
that keeps and orders its log (no `skip`, `repeat`, `garble`) and a buffer that
does not overflow; with a buffer of 2 a record behind the boundary can be dropped and is
missed until the next event. `KeepsPromise` needs only the absence of `repeat`, as its
theorem shows: with four interferences an old boundary that Cloud repeats is installed
after a later snapshot was requested, and the page goes back. Each of the three faults and
the overflow violates `NothingLost`. `CatchesUp` leaves out whatever ends a task without
another being started (`fail`, `slow`, `garble`, `skip`): the code then
waits for the next event or click, and nothing promises there is one. `enqueue` leaves out
two faults, each of which refutes `RefusedNeverRuns`: `rejectRetry` (Cloud answers 4xx to a key it has
recorded) and `undecryptable` (as in `creation_safe_terminal`); the proof of that property
leaves out the same, the other theorems of `PromptQueueProofs` none. `control` and
`ControlSessionProofs` leave out nothing, nor do `RemoteStreamProofs`. Each of these is a hazard in
`PROJECT.json`, with its line.

Where the code does not keep what a property is about. Six properties have exceptions, each a
place in the code, and say that there are no others; TLC refutes each of them without its
exceptions:

| property | exception |
|---|---|
| `OpenIsRetained` | the key is given up by a failed refresh of the devices (app.js 413-416), by a send that is not advertised (756, 1024), and by answers to calls of an earlier generation or to the command one has put into the attempt (992-1025); to go to another session, device or account drops it on purpose |
| `HandlesOfScope` | a late answer enters its operation under the session selected meanwhile (1004), until the next snapshot |
| `NoOrphans` | a session selected again while it is being opened: the second control session takes the place of the first, which is not deleted and whose stream goes on (913-943) |
| `SelectedIsServed`, `Fenced` | the tail of a recreation closes what has been selected in another workspace meanwhile (1273) |
| `Fenced`, `OneRenewal` | a mutation refused late acts on the renewal of the present control session and schedules its recreation (769-776); for `OneRenewal` a second opening too |

Fairness. `FairCalls` is weak fairness of the continuation of every suspended
call: each await is an HTTP request with `AbortSignal.timeout` (12 s), the deadline
of `waitForCommand` (35 s) or of the baseline (5 s), so it ends. `Persistence`, used
only by `creation_faults`, adds a user who keeps pressing the
button offered and answers that succeed now and then; it is an assumption about
the environment and says "if retrying is to help at all, it helps". `Progress` of
the replica is weak fairness of the event loop, of the Desktop that runs snapshot
commands, of connecting and delivering, and of the deadlines that do not stand for
interference; the interferences and the user are never fair. `FairSpec` of the stream
is weak fairness of the coroutine that connects, reads and hands on - its timer fires,
`fetch` and `onRecord` end - and of Cloud that sends what it has. Polls, notices and
whatever interferes are not fair; interference is bounded, so `CatchesUp` is about a
connection that holds from some time on.

## Proofs

All proofs use SMT, Zenon and LS4 and hold for every value of the constants.

### Session creation

`SessionCreationProofs` proves, for every set of keys, devices, workspaces and
identities and every bound:

- `TypeCorrect`, `NeverStuckInProgress`, `LateCompletionsAreHarmless`: three
  invariants, whatever terminals look like;
- `CommittedIsKept`, `FencingIsFinal`: two action properties, whatever terminals
  look like;
- `SuccessIsListed`: an action property that relates the outcome to the list of
  sessions, whatever terminals look like;
- `ReleaseIsSafe` and `CreationImplementsContract`: under `TerminalFaults = {}`,
  the assumption the run `creation_safe_terminal` shows to be necessary.

Assumptions: `NONE` is none of the other values and no status
(`ConstantsAssumption`, `NoneAssumption`), and what the module states about Cloud
and Desktop (a POST is recorded once per key, a rejected POST records nothing).

The argument. None of the invariants is inductive alone. `CallInv` adds that
there is one call (`OneCall`), that it works on the key whose outcome is open
(`OpenOutcome`), that what the attempt names belongs to its key and that a session
ID is proof of creation (`Names`), what a call has recorded by the time it is at
each await (`Phases`), and the crucial one, `Unsent`: an attempt that knows of no
command and is not marked committed has no command, until its first POST is
answered. `Unsent` is why `retainFailure` may give a key up on a plain error. Each
step of a call either `Stops` it or `Continues` it; `StopsPreserves` and
`ContinuesPreserves` carry the invariant, one lemma per action supplies their
premises. `ConclusionStep` lists what any step can do to `attempt` and `outcome`;
the action properties and the refinement follow from it and the invariant.

`SuccessIsListed` needs what holds while the baseline of a created session is awaited:
the attempt's generation is never ahead of the page's (`Behind`), and as long as they are
equal the session is listed (`Shown`). Calls begin the wait only after they have listed it, or
go elsewhere (`Moves`); steps of the page leave the generation, drop the attempt or leave the
list alone (`Overtakes`).

### The replica

`RemoteReplicaProofs` proves `ReplicaShowsThePast`: whatever interferes, however
often, and for every limit, what the page shows is the session as it was at the
event the page thinks it has reached. Assumptions: the types of the constants
(`SeenLimitAssumption`, `ReplicaAssumption`), and that the Desktop does not of its
own accord log the end of a command (`EmitsAssumption`).

The argument. `ShowsThePast` alone says nothing of what will be shown. `IInv` adds:
the log is a chain, each entry the effect of its event on the entry before
(`Chain`); a snapshot that was taken is the session at its command's boundary in
the log (`Marks`); every record that is held - buffered, being handled, left to
apply - is an entry of the present log, or belongs to an earlier control session
and is out of scope (`Held`). `AfterIsNext` then says that an accepted event takes
the copy from one entry of the chain to the next, and `Marks` that a baseline
lands on an entry. `IInv` was checked by TLC before it was proved. `ReplicaTypeOK` rests on
a second invariant, `Shape`, on top of `IInv`: a task names a command there is, and the buffer
and the memory of events are no longer than their limits.

`ReplicaContractProofs` proves `ReplicaKeepsPromise`: `RemoteReplica` implements
`ReplicaContract`, so what the page shows never goes back while the control session
lasts, under the further assumption that Cloud repeats no record. Whatever it leaves
out or garbles and however the buffer overflows is covered.

The argument. `Forward`, on top of `IInv`, orders the positions: the copy is not
ahead of the cursor, the cursor is behind what the stream asks for next, a record under
way is ahead of the cursor, what is buffered or left to apply of the present session is
between copy and cursor. So a boundary that is being handled is ahead of the copy. Each step
`Stays`, `Learns` (the log grows), `Advances` (the copy does) or `Restarts`, and these
map to a stutter and to the actions `Happens`, `CatchesUp` and `Reopens` of the contract.

The second part of `ReplicaContractProofs` proves `NothingLostHolds`: `NothingLost`, if `Faults` has neither
`skip`, `repeat` nor `garble` and no record finds the buffer full. TLC violates the
property if any of these four conditions is dropped.

The argument. `Contiguous`, on top of both: what is buffered has no gap up to the
cursor, what a task has left to apply covers everything from the copy to the cursor, and an
installed copy with nothing left to apply is at the cursor. A baseline therefore leaves a
remainder without a gap, and the record after the copy is never refused: it is not
remembered (`Past`: only what is behind the copy is) and it makes sense (`Sensible`: a
part that is logged is of a message there is).

### The reducer

`RemoteSessionStateProofs` proves, for every set of items, values and runs, every bound of the
sequence and every memory of events: `StateTypeOK`, `OrderAlwaysListsItems` and
`CopyFollowsSession`. Assumptions: `SequenceAssumption` and those of the types of the constants.
The last theorem is what entitles `RemoteReplica` to use `Effect` where the code runs the
reducer.

The argument. The page keeps a map of items and a list that orders them, the session it describes
is one list of items with their values. `Good` says that the list has exactly the keys of the map,
each once; under it every case of the reducer is compared with what it means for the session:
putting an item that is there replaces it in its place and one that is not appends it, and
removing an item from the map and from the list removes it from the session
(`UpsertFollows`, `PartFollows`, `RemoveFollows`, `InstallFollows`). Without `Good` these are
false: an item listed twice would be described twice.

### The control session

`ControlSessionProofs` proves, for every set of workspaces, sessions and calls and every
bound: `TypeCorrect`, `OneOperationHolds`, `ListOfWorkspaceHolds` and
`RetryAfterRenewalHolds`. Assumption: `ControlAssumption` (a finite number of calls,
`NONE` is none of the other values).

The argument. `OneOperation` is not inductive because a call of an earlier generation
may become one of the present generation only if generations were reused: `Safe` adds
that no call is ahead of the page's generation, that two calls that fly are one, and
that a flying call implies the flag. `RetryAfterRenewal` needs `Asked`: while Cloud
wants a renewal, the phase blocks mutations or there is no control session; and
`Formed`: what has not been posted yet is no mutation, so that a step that posts one is
a step of `Mutate`. `Proper` says once what a step that changes one call has to do and
`Keeps` why that preserves `IInv`; there is one lemma per action, and `EndsKeeps` and
`RecreateKeeps` for the two ways in which most of them end.

Its second part proves the other four, `OneRenewalHolds`, `NoOrphansHolds`,
`SelectedIsServedHolds` and `FencedHolds`, with repeated selections, late refusals and
browsing during a recreation included and without a further assumption.

The argument. The second invariant, `Orderly`, relates the page and the calls:
the control session belongs to the selection, renewal, timers and streams to the
control session or to one whose place another has taken (`Whole`); what a call awaits is not
there yet unless it is opened twice, and what it mutates or
renews is of the page's control session as long as no other took its place (`Fitting`); two
calls open the same session only if it was selected twice, and two renewals, or a renewal and a mutation, are
side by side only after another control session has acted on the renewal (`Apart`); and a page
that renews has a renewal under way, a selection without a control session an opening or a
reason, and what is kept besides the selected control session and those that were replaced
a read that closes it. A step either ends the generation (`Passes`), which
leaves the page without a control session and every call of that generation behind, or
goes on in it with the same selection (`Stays`); the lemmas about these two carry the
invariant for most actions, and those that select, open and renew have their own.

### The stream

`RemoteStreamProofs` proves every safety property of the stream, for every limit, every
number of messages, every choice of line terminators, every way the bytes are cut into chunks,
and whatever interferes: `OneConnectionHolds`, `FallsBackHolds`, `OneNoticePerLossHolds`,
`StreamTypeOK`, `HandsCloudsMessagesHolds`, `InOrderHolds` and the action property
`SilentAfterStopHolds`. Assumptions: `StreamAssumption`, `RememberedAssumption` and
`ParserAssumption`, that the limits are natural numbers and positive where the code has them
so, and that a line terminator is one of the three.

What does not depend on the bytes. `Proceed` is proved for any records. `StreamInv` adds to
the first three properties that nothing is under way before start (`Unstarted`), that after stop
only `onRecord` may be (`Ended`), and `Tells`: a loss that was told is among the identities
remembered, because what is shown is remembered even when the oldest must be forgotten for it
(`RememberOne`), and the epoch that names it grows only when a connection is answered.

What the parser makes of the bytes. A *reader* is an automaton that goes from `Place` to
`Place`, one symbol at a time (`Goes`), through the lines of a message, of a record of another
type, of a comment; it knows the number of the message that is next or under way and never
hears of chunks. `Runs(q, bytes, r, end)` says that the bytes take it from `q` to `r`. Four
lemmas (`RunMessage`, `RunNamed`, `RunPing`, `RunEndless`) show that what Cloud sends takes it from the
start of one record to the start of another, or, for a line that does not end, to `Ruined`, from
where nothing is read any more. `StepStays` is the heart: with each symbol of its text the parser
either has refused, or holds a line that is too long and will refuse, or is `InStep` - its line
is the reader's, its record the one under way at the reader's place, and its records are
the messages so far, in order (`Delivered`, `Reached`). `Scans` carries that through a text by
induction (`Induction`). A chunk ends anywhere, so `PushReads` has to show that what the parser
keeps makes up for it: an unfinished line is kept whole, the line begins where the reader's
did (`Begins`), a CR at the end is deferred until the LF that may follow it has been seen
(`DeferredGives`, `NotMid`), and the text that is kept, followed by the bytes on the way, takes the reader from
that place to where it would have gone (`RunFrom`). `FinishReads` is the same for the end of the
connection, where the last record may be cut (`CutLine`, `CutRecord`).

The invariant is `Carried`: while there is a connection, `Holds(conn, cursor)` - the records still
to be handed over are the messages from the one after the cursor on, and the parser and the
bytes on the way continue them up to where Cloud will go on. Handing a record over moves the cursor and
the records together (`TailHolds`), a new connection begins after the cursor (`FreshHolds`),
and a connection that fails takes all it holds with it. `HandsCloudsMessages` and `InOrder`
are read off its first record, and the bound of an unfinished record is part of it
(`Bounded`). `Runs` quantifies over the places on the way, so that TLC cannot evaluate `Carried`;
what it implies is what the run checks.

### The queue

`PromptQueueProofs` proves, for every set of keys, sessions, accounts and calls and every
limit: `ReloadLosesNothingHolds`, `OpenIsRetainedHolds`, `HandlesOfScopeHolds` and `QueueTypeOK`,
whatever `Faults` has and however late answers come, and `RefusedNeverRunsHolds`, if `Faults` has none but
`reject`; TLC refutes `RefusedNeverRuns` with either of the other two. Further assumptions:
the types of the constants, that there is a first generation, and that `NONE` is none of the
other values (`PromptQueueAssumption`, `NoneAssumption`).

The argument. `InStep` is a property of the store alone that every operation of
`EnqueueStore` preserves: what is in local storage is what is in memory, and it belongs
to the session in use if there is one. `ReloadLosesNothing` follows from it, but
`setAttemptCommand` and `clearAttempt` work on whatever attempt is there, so `OpenIsRetained` needs
to know whose it is. `Kept` says that the attempt is the prompt whose outcome
is open and that a live call works on it unless there is none: a call of an earlier
generation may end it, but not put another in its place. `Present` says that there is one live call,
that it holds `controlBusy`, and that its control session is the selection's. A step
drops the attempt or goes elsewhere (`Away`), keeps what the live call relies on (`Rests`), or ends
a call and the attempt with it, whosever it is (`Settles`), and only then an outcome
changes, to what `Concludes` and `Drops` say of it: that is why the list of cases in
`OpenIsRetained` is complete. `Informed` is a second invariant, on top of these:
what the page believes of a command is so, and a key it takes for refused is `Barred`
- Cloud has refused its only POST, so nothing under way can record it - or has failed.

`QueueTypeOK` follows from `Shape`, which needs none of this: the lists of handles that are in
memory, in local storage, at the Desktop and in a snapshot are sequences of keys, and what is
stored was trimmed to the limit before (`NewestIds`).

`HandlesOfScopeHolds` needs both and two further parts. `Listing`: the handles of the
store are operations the Desktop has queued, for the session of the store or entered by a late
answer (`Entered`), those of a snapshot waiting for its boundary and of the Desktop's queues
are all of that session; a step either takes handles away
(`Shrinks`) or files one the Desktop has queued (`Filed`). `Posting`: what is known of the
retained key was posted for the session of the store only, what a live call works on for the
session of the call, and a command the page knows of is
recorded; so the handle that `add` enters when a live call's answer to its own command
arrives belongs to the session in whose list it is entered, and every other is in `stray`.

### Sequences and induction

`SequenceLemmas` has what these proofs need of sequences (`Append`, `Tail`, `SubSeq` on
sequences of anything) and of `Filtering`. `Array.prototype.filter` is modelled by picking
positions and not by `SelectSeq` or `Remove`, whose recursion the provers cannot open;
`Picked` and `WithoutElement` say what is left, in which order. `Least` and `Induction` derive
induction over the natural numbers from the library's theorem that strict inclusion of finite
sets is well founded: the property is given as a set of numbers, so that no operator has to be
instantiated.

### Only model-checked

The liveness properties (`CallsEnd`, `CreatedAttemptResolves`, `RecoveryEnds`, `CatchesUp` of
the replica and of the stream) are out of the prover's reach.

## Findings

The three `violation` runs are disagreements between documentation, comments or tests
and the code, met while translating it; `PROJECT.json` quotes both sides.

- `creation_safe_terminal`: a terminal that cannot be decrypted, or names another
  operation, releases the attempt of a session that exists.
- `replica_rebuilt`: `controlBusy` of a replaced control session blocks the new one.
- `control_renew`: once a renewal has failed, or has succeeded while a refused mutation
  was not repeated, the button of a further renewal is shown and does nothing.

Other disagreements show in the models as an exception of a property, when a fault is allowed
or when a property is stated, but have no run of their own:

- A command that Cloud refuses makes `reconcile` throw (`session-creation.js` 222,
  `app.js` 731) and its attempt stays blocked, although `submit` releases it in the
  same case (`test/session-creation.test.mjs` 121).
- A refresh of the devices that fails, or a send that is not advertised, drops a prompt whose
  outcome is open (`app.js` 416, 1024; compare `test/busy-session-state.test.mjs` 102).
- An enqueue answered after another session was selected is entered in that session's
  list (`app.js` 1004; compare `test/busy-session-state.test.mjs` 33), and clears the attempt
  retained by then.
- A poll that ends beside a live stream arms its timer again and shows `POLLING`
  (`remote-session-stream.js` 45; compare `test/remote-session-stream.test.mjs` 51).
- Whether a record of exactly `maxRecordBytes` passes depends on where chunks are cut,
  because a whole line counts its terminator and an unfinished one does not (`sse.js` 64).
- A recovery that ends while the stream reconnects shows `LIVE` without a new epoch
  (`app.js` 1230), and the next loss is not told to the user.
- Two clicks, late refusals and the tail of a recreation: the exceptions of `NoOrphans`,
  `Fenced`, `OneRenewal` and `SelectedIsServed`.

Read in the code but not run, because no property the code could break says it: the
encryption binding of a creation is read before it exists and is always null
(`session-creation.js` 156), and the handler of an unreadable record awaits a
recovery although the comment in `remote-session-state.js` 20-23 forbids it; only
the deadline of five seconds ends that (`RecoveryEnds`). A list of workspaces requested
for an earlier device is shown whenever it arrives (`app.js` 803), a renewed control
session is installed before the keys it binds are checked (`app.js` 1098), and `logout`
leaves the control sessions it forgets to their expiry.

## Plan

1. `SessionCreation`, `CreationContract`, `SessionCreationProofs` - done.
2. `RemoteReplica` with the reducer and `ReplicaContract`, `RemoteReplicaProofs`,
   `ReplicaContractProofs`, `RemoteSessionStateProofs` - done.
3. `EnqueueStore`, `PromptQueue`, `PromptQueueProofs` - done. A second tab over the same
   storage would be an action of its own.
4. `SSEParser`, `Notifications`, `RemoteStream`, `RemoteStreamProofs` - done.
5. `Renewal`, `ControlSession`, `ControlSessionProofs` - done.
6. Left: the checks of encrypted envelopes and the notices of remote events and of the
   device list, as pure algorithms against reference definitions.
A question that a run of the same instance can answer becomes a property of that
run; runs are merged as modules are added, so that their number stays small and
each of them stays short.

## Not modelled

Rendering, `index.html` and `styles.css`: only which buttons are enabled matters, and
that is in the guards. The static server: it serves files and keeps no state. Web
Crypto, and with it what a key negotiation computes; that a terminal cannot be opened
is a fault of `SessionCreation` and `PromptQueue`. Loading of policies beyond
the buttons it disables. The format checks of answers, which make a call fail that may
fail anyway. A second tab over the same local storage, and storage that is full.
