--------------------------- MODULE RemoteReplica ---------------------------
(***************************************************************************)
(* The page's copy of the selected session: the snapshot command and its   *)
(* boundary, the buffer, recovery, polling and recreation (app.js,         *)
(* 913-957 and 1132-1274) over the event stream (remote-session-stream.js) *)
(* of a control session.  remote-session-state.js decides which events the *)
(* copy takes (EventEnvelope); what they do to it is Effect, which         *)
(* RemoteSessionState shows the reducer to compute.                        *)
(*                                                                         *)
(* Three tasks fetch snapshots, each a coroutine: the selection of the     *)
(* session, the one recovery in flight, and a poll of the stream.  One     *)
(* action is the code between two awaits.  Cloud and Desktop are external: *)
(* they log what happens to the session, run commands, and log the end of  *)
(* a snapshot command at the place in the log where they took the snapshot.*)
(***************************************************************************)
EXTENDS DesktopSession, EventEnvelope

CONSTANTS
    Emits,        \* the data of the events the Desktop may log
    BufferLimit,  \* events held while there is no baseline (1000)
    MaxFailures,  \* failed connections before polling starts (3)
    Faults,       \* what may interfere, a subset of FaultNames
    MaxEvents,    \* bound of the events the Desktop logs of its own accord
    MaxFaults     \* bound of all interference

FaultNames == {
    "drop",      \* a connection breaks or is refused
    "close",     \* the control session closes or expires, or Cloud wants a new one
    "skip",      \* Cloud leaves out a record
    "repeat",    \* Cloud repeats a record
    "garble",    \* a record is not JSON or cannot be decrypted
    "fail",      \* a request or a snapshot command fails
    "slow",      \* the boundary takes longer than five seconds
    "poll",      \* the polling timer fires
    "refresh",   \* the user selects the selected session again
    "other"}     \* another operation of the control session runs

ASSUME ReplicaAssumption ==
    /\ Faults \subseteq FaultNames
    /\ BufferLimit \in Nat /\ MaxFailures \in Nat \ {0}
    /\ MaxEvents \in Nat /\ MaxFaults \in Nat

\* Of its own accord the Desktop logs no end of a command.
ASSUME EmitsAssumption == \A data \in Emits : data.type # "command.lifecycle"

VARIABLES
    doc,       \* external: the session
    log,       \* external: the events of this control session, with the session after each
    commands,  \* external: the snapshot commands of this control session
    emitted,   \* external: how many events the Desktop logged of its own accord
    faults,    \* how often something has interfered
    session,   \* the control session's number; it stands for state.controlGeneration
    open,      \* state.controlSession is not null
    busy,      \* state.controlBusy
    other,     \* an operation other than a snapshot is in flight
    model,     \* state.remoteModel
    buffer,    \* state.remoteEventBuffer
    recovery,  \* state.remoteRecovery is not null
    task,      \* where each task is suspended, with its command and what it has left to apply
    link,      \* the connection: whether it is up, and the next record it will carry
    cursor,    \* the stream's cursor
    failures,  \* the stream's failures, up to MaxFailures
    poll,      \* the polling timer: off, armed, or running onPoll
    handler,   \* the onRecord the stream awaits
    stale      \* records an onRecord of an earlier control session is still decrypting

desktop == <<doc, log, commands, emitted>>
page == <<open, busy, other, model, buffer, recovery, task>>
stream == <<link, cursor, failures, poll, handler, stale>>
vars == <<desktop, faults, session, page, stream>>

-----------------------------------------------------------------------------
Task == {"select", "recovery", "poll"}
TaskPC == {"idle", "opening", "waiting", "operation", "boundary", "applying"}
Idle == [pc |-> "idle", command |-> 0, batch |-> << >>]
At(pc, n, batch) == [pc |-> pc, command |-> n, batch |-> batch]

Lifecycle(n, status) ==
    [type |-> "command.lifecycle", command |-> <<session, n>>, status |-> status]

\* The record the stream carries for the i-th event of the log.
Record(i) == [eventId |-> <<session, i>>, cursor |-> i, sequence |-> i,
              scope |-> session, data |-> log[i].data]

NoRecord == [pc |-> "idle", record |-> NONE]

Fresh(n) == [scope |-> n, installed |-> FALSE, cursor |-> 0, sequence |-> 0,
             seen |-> << >>, content |-> Blank]

Spend(fault) ==
    /\ fault \in Faults
    /\ faults < MaxFaults
    /\ faults' = faults + 1

Init ==
    /\ doc = Blank /\ log = << >> /\ commands = << >> /\ emitted = 0 /\ faults = 0
    /\ session = 1 /\ open = FALSE /\ busy = FALSE /\ other = FALSE
    /\ model = Fresh(1) /\ buffer = << >> /\ recovery = FALSE
    /\ task = [t \in Task |-> IF t = "select" THEN At("opening", 0, << >>) ELSE Idle]
    /\ link = [up |-> FALSE, next |-> 1] /\ cursor = 0 /\ failures = 0 /\ poll = "off"
    /\ handler = NoRecord /\ stale = {}

-----------------------------------------------------------------------------
(* Cloud and Desktop *)

Logs(data) ==
    /\ doc' = Effect(doc, data)
    /\ log' = Append(log, [data |-> data, after |-> Effect(doc, data)])

DesktopLogs(data) ==
    /\ open /\ emitted < MaxEvents
    /\ Meaningful(doc, data)
    /\ Logs(data)
    /\ emitted' = emitted + 1
    /\ UNCHANGED <<commands, faults, session, page, stream>>

\* The Desktop takes the snapshot and logs the end of the command in one step:
\* the boundary is what the page relies on.
DesktopTakesSnapshot(n) ==
    /\ commands[n].status = "queued"
    /\ commands' = [commands EXCEPT ![n] = [status |-> "succeeded", snapshot |-> doc]]
    /\ Logs(Lifecycle(n, "succeeded"))
    /\ UNCHANGED <<emitted, faults, session, page, stream>>

DesktopRefusesSnapshot(n) ==
    /\ Spend("fail")
    /\ commands[n].status = "queued"
    /\ commands' = [commands EXCEPT ![n].status = "failed"]
    /\ Logs(Lifecycle(n, "failed"))
    /\ UNCHANGED <<emitted, session, page, stream>>

-----------------------------------------------------------------------------
(* Steps several actions share.  ts is the tasks, m the model as far as the *)
(* action has changed them.                                                 *)

\* runRemoteOperation("session.snapshot") up to its first await.
RequestSnapshot(t, m, ts) ==
    /\ model' = [m EXCEPT !.installed = FALSE]
    /\ busy' = TRUE
    /\ commands' = Append(commands, [status |-> "queued", snapshot |-> Blank])
    /\ task' = [ts EXCEPT ![t] = At("operation", Len(commands) + 1, << >>)]

\* refreshSelectedSnapshot up to its first await.
Refresh(t, m, ts) ==
    IF busy
    THEN /\ task' = [ts EXCEPT ![t] = At("waiting", 0, << >>)]
         /\ model' = m
         /\ UNCHANGED <<busy, commands>>
    ELSE RequestSnapshot(t, m, ts)

\* requestSelectedRecovery: there is one recovery at a time.
RequestRecovery(m, ts) ==
    IF recovery
    THEN model' = m /\ task' = ts /\ UNCHANGED <<busy, commands, recovery>>
    ELSE recovery' = TRUE /\ Refresh("recovery", m, ts)

Takes(e) == Accepts(model, e) /\ Meaningful(model.content, e.data)

After(e) == [model EXCEPT !.cursor = e.cursor, !.sequence = e.sequence,
                          !.seen = Remember(@, e), !.content = Effect(@, e.data)]

\* applySelectedEnvelope: whatever cannot be applied asks for a snapshot.
ApplyEnvelope(e, ts) ==
    \/ /\ Duplicate(model, e)
       /\ model' = model /\ task' = ts /\ UNCHANGED <<busy, commands, recovery>>
    \/ /\ Takes(e) /\ e.data.type # "snapshot_required"
       /\ model' = After(e) /\ task' = ts /\ UNCHANGED <<busy, commands, recovery>>
    \/ /\ Takes(e) /\ e.data.type = "snapshot_required"
       /\ RequestRecovery(After(e), ts)
    \/ /\ ~Duplicate(model, e) /\ ~Takes(e)
       /\ RequestRecovery(model, ts)

\* recreateSelectedControlSession: closeSelectedControlSession, then
\* selectRemoteSession up to openControlSession.  Every task of the old
\* control session finds its generation gone; controlBusy stays as it is.
Recreate ==
    /\ session' = session + 1
    /\ open' = FALSE /\ other' = FALSE /\ recovery' = FALSE
    /\ model' = Fresh(session + 1) /\ buffer' = << >>
    /\ task' = [t \in Task |-> IF t = "select" THEN At("opening", 0, << >>) ELSE Idle]
    /\ link' = [up |-> FALSE, next |-> 1] /\ cursor' = 0 /\ failures' = 0 /\ poll' = "off"
    /\ handler' = NoRecord
    /\ stale' = IF handler.pc = "decrypting" THEN stale \cup {handler.record} ELSE stale
    /\ log' = << >> /\ commands' = << >>
    /\ UNCHANGED <<doc, emitted>>

\* A task ends without a baseline: a recovery recreates the control session,
\* the others only report; the stream then arms its timer again.
Fails(t) ==
    \/ /\ t = "recovery"
       /\ Recreate
    \/ /\ t # "recovery"
       /\ task' = [task EXCEPT ![t] = Idle]
       /\ poll' = IF t = "poll" THEN "armed" ELSE poll
       /\ UNCHANGED <<desktop, session, open, other, model, buffer, recovery,
                      link, cursor, failures, handler, stale>>

-----------------------------------------------------------------------------
(* selectRemoteSession *)

\* openControlSession returns: the stream starts and a snapshot is requested,
\* unless another operation holds controlBusy; then selecting just fails.
OpenReturns ==
    /\ task["select"].pc = "opening"
    /\ open' = TRUE
    /\ buffer' = << >>
    /\ IF busy
       THEN task' = [task EXCEPT !["select"] = Idle] /\ UNCHANGED <<model, busy, commands>>
       ELSE RequestSnapshot("select", model, task)
    /\ UNCHANGED <<doc, log, emitted, faults, session, other, recovery, stream>>

OpenFails ==
    /\ Spend("fail")
    /\ task["select"].pc = "opening"
    /\ task' = [task EXCEPT !["select"] = Idle]
    /\ UNCHANGED <<desktop, session, open, busy, other, model, buffer, recovery, stream>>

\* The user clicks the session again: without a control session it is selected
\* anew, with one its copy is recovered.
SelectAgain ==
    /\ ~open /\ task["select"].pc = "idle"
    /\ task' = [task EXCEPT !["select"] = At("opening", 0, << >>)]
    /\ UNCHANGED <<desktop, faults, session, open, busy, other, model, buffer, recovery, stream>>

ManualRefresh ==
    /\ Spend("refresh")
    /\ open
    /\ RequestRecovery(model, task)
    /\ UNCHANGED <<doc, log, emitted, session, open, other, buffer, stream>>

\* Another operation of runRemoteOperation.
OtherStarts ==
    /\ Spend("other")
    /\ open /\ ~busy
    /\ busy' = TRUE /\ other' = TRUE
    /\ UNCHANGED <<desktop, session, open, model, buffer, recovery, task, stream>>

OtherEnds ==
    /\ other
    /\ busy' = FALSE /\ other' = FALSE
    /\ UNCHANGED <<desktop, faults, session, open, model, buffer, recovery, task, stream>>

-----------------------------------------------------------------------------
(* The tasks *)

\* refreshSelectedSnapshot finds controlBusy released.
WaitEnds(t) ==
    /\ task[t].pc = "waiting" /\ ~busy
    /\ RequestSnapshot(t, model, task)
    /\ UNCHANGED <<doc, log, emitted, faults, session, open, other, buffer, recovery, stream>>

\* The terminal of the snapshot command arrives.
OperationReturns(t) ==
    /\ task[t].pc = "operation"
    /\ commands[task[t].command].status = "succeeded"
    /\ busy' = FALSE
    /\ task' = [task EXCEPT ![t].pc = "boundary"]
    /\ UNCHANGED <<desktop, faults, session, open, other, model, buffer, recovery, stream>>

OperationFails(t) ==
    /\ task[t].pc = "operation"
    /\ \/ commands[task[t].command].status = "failed" /\ UNCHANGED faults
       \/ Spend("fail")
    /\ busy' = FALSE
    /\ Fails(t)

\* installSelectedSnapshot finds the end of the command in the buffer.
\* Mutant: the end of any snapshot command will do.
AnyBoundary(e, n) == e.data.type = "command.lifecycle"

IsBoundary(e, n) == e.data.type = "command.lifecycle" /\ e.data.command = <<session, n>>
Boundaries(n) == {i \in DOMAIN buffer : IsBoundary(buffer[i], n)}

\* Mutant: the first event after the boundary is dropped with it.
DropsNext(i) == SubSeq(buffer, i + 2, Len(buffer))

Behind(i) == SubSeq(buffer, i + 1, Len(buffer))

Baseline(e, content) ==
    [model EXCEPT !.installed = TRUE, !.cursor = e.cursor, !.sequence = e.sequence,
                  !.seen = <<e>>, !.content = content]

Establish(t) ==
    LET n == task[t].command IN
    \E i \in Boundaries(n) :
        /\ task[t].pc = "boundary"
        /\ \A j \in Boundaries(n) : i <= j
        /\ buffer[i].data.status = "succeeded" /\ InScope(model, buffer[i])
        /\ model' = Baseline(buffer[i], commands[n].snapshot)
        /\ task' = [task EXCEPT ![t] = At("applying", n, Behind(i))]
        /\ buffer' = << >>
        /\ UNCHANGED <<desktop, faults, session, open, busy, other, recovery, stream>>

ApplyBuffered(t) ==
    /\ task[t].pc = "applying" /\ task[t].batch # << >>
    /\ ApplyEnvelope(Head(task[t].batch), [task EXCEPT ![t].batch = Tail(@)])
    /\ UNCHANGED <<doc, log, emitted, faults, session, open, other, buffer, stream>>

TaskEnds(t) ==
    /\ task[t].pc = "applying" /\ task[t].batch = << >>
    /\ task' = [task EXCEPT ![t] = Idle]
    /\ recovery' = (recovery /\ t # "recovery")
    /\ poll' = IF t = "poll" THEN "armed" ELSE poll
    /\ UNCHANGED <<desktop, faults, session, open, busy, other, model, buffer,
                   link, cursor, failures, handler, stale>>

\* Mutant: the wait for the boundary has no deadline.
WaitsForever(n) == FALSE

\* The boundary will not come any more: it is behind the connection and not in
\* the buffer, or the stream awaits the very recovery that awaits it.
Unreachable(n) ==
    \/ handler.pc = "awaiting"
    \/ /\ handler.pc = "idle"
       /\ \A i \in link.next .. Len(log) : ~IsBoundary(Record(i), n)

BoundaryTimesOut(t) ==
    /\ task[t].pc = "boundary" /\ Boundaries(task[t].command) = {}
    /\ \/ Unreachable(task[t].command) /\ UNCHANGED faults
       \/ Spend("slow")
    /\ UNCHANGED busy
    /\ Fails(t)

-----------------------------------------------------------------------------
(* createRemoteSessionStream *)

SchedulePoll(f) == IF f >= MaxFailures /\ poll = "off" THEN "armed" ELSE poll

\* Mutant: the record after the cursor is taken for the one at it.
ResumesTooLate == cursor + 2

\* The stream resumes after its cursor.
Resume == cursor + 1

\* Connected, the stream resets its failures; polling stops, unless onPoll is running.
Connect ==
    /\ open /\ ~link.up
    /\ link' = [up |-> TRUE, next |-> Resume]
    /\ failures' = 0
    /\ poll' = IF poll = "armed" THEN "off" ELSE poll
    /\ UNCHANGED <<desktop, faults, session, page, cursor, handler, stale>>

Disconnect ==
    /\ Spend("drop")
    /\ open /\ handler.pc = "idle"
    /\ link' = [link EXCEPT !.up = FALSE]
    /\ failures' = IF failures < MaxFailures THEN failures + 1 ELSE failures
    /\ poll' = SchedulePoll(failures + 1)
    /\ UNCHANGED <<desktop, session, page, cursor, handler, stale>>

PollTick ==
    /\ Spend("poll")
    /\ poll = "armed"
    /\ poll' = "running"
    /\ Refresh("poll", model, task)
    /\ UNCHANGED <<doc, log, emitted, session, open, other, buffer, recovery,
                   link, cursor, failures, handler, stale>>

\* session_closed, control_session_expired, 410, and the record snapshot_required.
ControlSessionCloses ==
    /\ Spend("close")
    /\ open /\ handler.pc = "idle"
    /\ UNCHANGED busy
    /\ Recreate

\* The stream hands one record at a time to onRecord.
Carries(i, pc, next) ==
    /\ link.up /\ handler.pc = "idle"
    /\ link' = [link EXCEPT !.next = next]
    /\ handler' = [pc |-> pc, record |-> Record(i)]
    /\ UNCHANGED <<desktop, session, page, cursor, failures, poll, stale>>

Deliver ==
    /\ link.next <= Len(log)
    /\ Carries(link.next, "decrypting", link.next + 1)
    /\ UNCHANGED faults

DeliverGarbled ==
    /\ Spend("garble")
    /\ link.next <= Len(log)
    /\ Carries(link.next, "garbled", link.next + 1)

Repeat ==
    /\ Spend("repeat")
    /\ \E i \in DOMAIN log : i < link.next /\ Carries(i, "decrypting", link.next)

Skip ==
    /\ Spend("skip")
    /\ link.up /\ link.next <= Len(log)
    /\ link' = [link EXCEPT !.next = @ + 1]
    /\ UNCHANGED <<desktop, session, page, cursor, failures, poll, handler, stale>>

\* onRecord returns: the stream commits its cursor.
Commits ==
    /\ handler' = NoRecord
    /\ cursor' = handler.record.cursor

\* onRecord returns the promise of a recovery: the stream awaits it.
AwaitsRecovery ==
    /\ RequestRecovery(model, task)
    /\ handler' = [handler EXCEPT !.pc = "awaiting"]
    /\ UNCHANGED <<buffer, cursor>>

RecordGarbled == handler.pc = "garbled" /\ AwaitsRecovery

\* Mutant: an off-by-one at the limit.
FullTooLate == Len(buffer) > BufferLimit

Full == Len(buffer) >= BufferLimit

RecordOverflows ==
    /\ handler.pc = "decrypting" /\ ~model.installed /\ Full
    /\ AwaitsRecovery

RecordBuffered ==
    /\ handler.pc = "decrypting" /\ ~model.installed /\ ~Full
    /\ buffer' = Append(buffer, handler.record)
    /\ Commits
    /\ UNCHANGED <<model, task, busy, commands, recovery>>

RecordApplied ==
    /\ handler.pc = "decrypting" /\ model.installed
    /\ ApplyEnvelope(handler.record, task)
    /\ Commits
    /\ UNCHANGED buffer

OnRecord ==
    /\ RecordGarbled \/ RecordOverflows \/ RecordBuffered \/ RecordApplied
    /\ UNCHANGED <<doc, log, emitted, faults, session, open, other, link, failures, poll, stale>>

RecoveryAwaited ==
    /\ handler.pc = "awaiting" /\ ~recovery
    /\ Commits
    /\ UNCHANGED <<desktop, faults, session, page, link, failures, poll, stale>>

\* An onRecord of an earlier control session goes on after decryption: it looks
\* at the buffer of the present one without comparing generations.
StaleRecord(e) ==
    /\ e \in stale
    /\ stale' = stale \ {e}
    /\ buffer' = IF ~model.installed /\ ~Full THEN Append(buffer, e) ELSE buffer
    /\ UNCHANGED <<desktop, faults, session, open, busy, other, model, recovery, task,
                   link, cursor, failures, poll, handler>>

-----------------------------------------------------------------------------
(* The records left in the buffer are applied, and the task ends, in one turn *)
(* of the event loop: their awaits yield only to one another, and whatever    *)
(* else the page waits for arrives in a turn of its own.                      *)
Applying == \E t \in Task : task[t].pc = "applying"

Turn == \E t \in Task : ApplyBuffered(t) \/ TaskEnds(t)

Next ==
    \/ Turn
    \/ /\ ~Applying
       /\ \/ \E data \in Emits : DesktopLogs(data)
          \/ \E n \in DOMAIN commands : DesktopTakesSnapshot(n) \/ DesktopRefusesSnapshot(n)
          \/ OpenReturns \/ OpenFails \/ SelectAgain \/ ManualRefresh \/ OtherStarts \/ OtherEnds
          \/ \E t \in Task :
                \/ WaitEnds(t) \/ OperationReturns(t) \/ OperationFails(t)
                \/ Establish(t) \/ BoundaryTimesOut(t)
          \/ Connect \/ Disconnect \/ PollTick \/ ControlSessionCloses
          \/ Deliver \/ DeliverGarbled \/ Repeat \/ Skip \/ OnRecord \/ RecoveryAwaited
          \/ \E e \in stale : StaleRecord(e)

Spec == Init /\ [][Next]_vars

\* What runs: the event loop, the Desktop, Cloud, and the deadlines of requests
\* and of the wait for a boundary.
Progress ==
    /\ WF_vars(Turn) /\ WF_vars(~Applying /\ OpenReturns) /\ WF_vars(~Applying /\ OtherEnds)
    /\ \A t \in Task : /\ WF_vars(~Applying /\ WaitEnds(t))
                       /\ WF_vars(~Applying /\ OperationReturns(t))
                       /\ WF_vars(~Applying /\ OperationFails(t) /\ UNCHANGED faults)
                       /\ WF_vars(~Applying /\ Establish(t))
                       /\ WF_vars(~Applying /\ BoundaryTimesOut(t) /\ UNCHANGED faults)
    /\ WF_vars(~Applying /\ \E n \in DOMAIN commands : DesktopTakesSnapshot(n))
    /\ WF_vars(~Applying /\ Connect) /\ WF_vars(~Applying /\ Deliver)
    /\ WF_vars(~Applying /\ OnRecord) /\ WF_vars(~Applying /\ RecoveryAwaited)

FairSpec == Spec /\ Progress

-----------------------------------------------------------------------------
(* Properties *)

TypeOK ==
    /\ emitted \in 0..MaxEvents /\ faults \in 0..MaxFaults /\ session \in Nat \ {0}
    /\ {open, busy, other, recovery} \subseteq BOOLEAN
    /\ \A n \in DOMAIN commands : commands[n].status \in {"queued", "succeeded", "failed"}
    /\ model.scope = session /\ model.installed \in BOOLEAN
    /\ model.sequence \in 0..Len(log) /\ Len(model.seen) <= SeenLimit
    /\ Len(buffer) <= BufferLimit
    /\ \A t \in Task : task[t].pc \in TaskPC /\ task[t].command \in 0..Len(commands)
    /\ cursor \in 0..Len(log) /\ link.next \in 1..Len(log) + 1
    /\ failures \in 0..MaxFailures /\ poll \in {"off", "armed", "running"}
    /\ handler.pc \in {"idle", "decrypting", "garbled", "awaiting"}

\* What the page shows is the session as it was at the event the page thinks it
\* has reached, whatever the stream lost, repeated or garbled, however snapshots
\* overlap, and also while a new snapshot is on its way.
ShowsThePast == model.sequence > 0 => model.content = log[model.sequence].after

\* What the page shows moves forward through the states the session was in, even
\* when two snapshots are requested and installed in either order.
History == [i \in DOMAIN log |-> log[i].after]

Promise == INSTANCE ReplicaContract WITH
    history <- History, shown <- model.sequence, view <- model.content

KeepsPromise == Promise!Spec

\* What the stream will not ask for again is in the copy, in the buffer, or
\* will be replaced by a snapshot: if Cloud keeps its log in order and whole, and no
\* record finds the buffer full.
NothingLost ==
    open /\ model.installed /\ ~recovery /\ ~Applying => model.sequence >= cursor

\* Once nothing interferes any more, the copy is the session as it is now: after
\* lost connections, repeated records and refreshes. A task that fails may leave it
\* behind until the next event.
CatchesUp == <>[](model.installed /\ model.sequence = Len(log))

\* A recovery comes to an end, also when the stream itself waits for it or the
\* boundary has passed; but not if an operation of an earlier control session holds
\* controlBusy, which closings, polls and other operations can bring about.
RecoveryEnds == recovery ~> ~recovery

\* README.md 79-80: a session that closed is rebuilt from a fresh snapshot.
Rebuilt == (session > 1) ~> model.installed
=============================================================================
