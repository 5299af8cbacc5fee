----------------------- MODULE ReplicaContractProofs -----------------------
(***************************************************************************)
(* The page of RemoteReplica keeps the promise of ReplicaContract: what it *)
(* shows moves forward through the states the session was in.  That it     *)
(* shows such a state is ReplicaShowsThePast; here it is shown that no     *)
(* event and no snapshot takes it back, and then that nothing is lost:     *)
(* what the stream will not ask for again is in the copy, in the buffer or *)
(* behind a snapshot that is on its way, provided that Cloud carries its   *)
(* log as it is and that the buffer does not overflow.                     *)
(***************************************************************************)
EXTENDS RemoteReplicaProofs

-----------------------------------------------------------------------------
(* The inductive invariant: the copy is behind the stream's cursor, what is  *)
(* buffered is between the two, what the stream carries is ahead of both.    *)

\* The records of s that are of control session n are before c, or after q.
UpTo(s, c, n) == \A i \in DOMAIN s : s[i].scope = n => s[i].sequence <= c
Beyond(s, q, n) == \A i \in DOMAIN s : s[i].scope = n => q < s[i].sequence

Batches(ts, c, n) == \A t \in Task : UpTo(ts[t].batch, c, n)

Carried(h, k, c) ==
    h.pc # "idle" => k.up /\ c < h.record.cursor /\ h.record.cursor < k.next

Forward ==
    /\ model.sequence <= cursor /\ cursor < link.next
    /\ Carried(handler, link, cursor)
    /\ model.installed => buffer = << >>
    /\ UpTo(buffer, cursor, session) /\ Beyond(buffer, model.sequence, session)
    /\ Batches(task, cursor, session)

\* What a step does to the page, seen from outside.
Stays == log' = log /\ model'.sequence = model.sequence /\ model'.content = model.content
Learns == /\ \E x : log' = Append(log, x)
          /\ model'.sequence = model.sequence /\ model'.content = model.content
Advances == log' = log /\ model'.sequence >= model.sequence /\ model'.sequence > 0
Restarts == log' = << >> /\ model'.sequence = 0 /\ model'.content = Blank

Moves == Stays \/ Learns \/ Advances \/ Restarts

LEMMA Positions ==
    ASSUME IInv
    PROVE  /\ Len(log) \in Nat /\ DOMAIN log = 1 .. Len(log)
           /\ cursor \in Nat /\ link.next \in Nat /\ model.sequence \in Nat /\ session \in Nat
           /\ DOMAIN link = {"up", "next"}
           /\ handler.pc # "idle" =>
                 /\ handler.record.cursor = handler.record.sequence
                 /\ handler.record.cursor \in Nat /\ handler.record.scope = session
           /\ \A e : IsRecord(e, log, session) =>
                 e.sequence = e.cursor /\ e.sequence \in Nat /\ e.sequence > 0
<1>1. Len(log) \in Nat /\ DOMAIN log = 1 .. Len(log)
  BY SequenceBasics DEF IInv, Chain
<1>2. \A e : IsRecord(e, log, session) =>
          e.sequence = e.cursor /\ e.sequence \in Nat /\ e.sequence > 0 /\ e.scope = session
  BY <1>1 DEF IsRecord
<1> QED BY <1>1, <1>2 DEF IInv, Position, Copy

\* Nothing is left to say of an empty sequence.
LEMMA Nothing == \A c, n : UpTo(<< >>, c, n) /\ Beyond(<< >>, c, n)
BY EmptySeq DEF UpTo, Beyond

\* What was before the cursor is before a later one.
LEMMA Later ==
    ASSUME IInv, Forward, NEW c \in Nat, cursor <= c
    PROVE  model.sequence <= c /\ UpTo(buffer, c, session) /\ Batches(task, c, session)
<1>1. \A s : Held(s, log, session) /\ UpTo(s, cursor, session) => UpTo(s, c, session)
  <2> SUFFICES ASSUME NEW s, Held(s, log, session), UpTo(s, cursor, session),
                      NEW i \in DOMAIN s, s[i].scope = session
               PROVE  s[i].sequence <= c
    BY DEF UpTo
  <2>1. IsRecord(s[i], log, session)
    BY DEF Held, IsOld, IInv
  <2> QED BY <2>1, Positions DEF UpTo
<1>2. Held(buffer, log, session) /\ \A t \in Task : Held(task[t].batch, log, session)
  BY DEF IInv, Tasks
<1> QED BY <1>1, <1>2, Positions DEF Forward, Batches

-----------------------------------------------------------------------------
(* Shared steps *)

\* The page goes on with copy m, or gives up what a task had left to apply.
Follows(m, ts) ==
    /\ model'.sequence = m.sequence /\ model'.content = m.content
    /\ model'.installed => m.installed
    /\ \A t \in Task : task'[t].batch \in {ts[t].batch, << >>}

Fields == {"scope", "installed", "cursor", "sequence", "seen", "content"}

LEMMA RequestSnapshotFollows ==
    ASSUME NEW t \in Task, NEW m, DOMAIN m = Fields, NEW ts, DOMAIN ts = Task,
           RequestSnapshot(t, m, ts)
    PROVE  Follows(m, ts)
BY DEF RequestSnapshot, Follows, At, Fields

LEMMA RefreshFollows ==
    ASSUME NEW t \in Task, NEW m, DOMAIN m = Fields, NEW ts, DOMAIN ts = Task,
           Refresh(t, m, ts)
    PROVE  Follows(m, ts)
<1>1. CASE busy
  BY <1>1 DEF Refresh, Follows, At
<1>2. CASE ~busy
  BY <1>2, RequestSnapshotFollows DEF Refresh
<1> QED BY <1>1, <1>2

LEMMA RequestRecoveryFollows ==
    ASSUME NEW m, DOMAIN m = Fields, NEW ts, DOMAIN ts = Task, RequestRecovery(m, ts)
    PROVE  Follows(m, ts)
<1>1. CASE recovery
  BY <1>1 DEF RequestRecovery, Follows
<1>2. CASE ~recovery
  BY <1>2, RefreshFollows DEF RequestRecovery, Task
<1> QED BY <1>1, <1>2

LEMMA AfterFields == ASSUME IInv, NEW e
                     PROVE  DOMAIN After(e) = Fields /\ After(e).sequence = e.sequence
                            /\ After(e).installed = model.installed
BY DEF After, IInv, Copy, Fields

LEMMA ApplyFollows ==
    ASSUME IInv, NEW e, NEW ts, DOMAIN ts = Task, ApplyEnvelope(e, ts)
    PROVE  Follows(model, ts) \/ (Takes(e) /\ Follows(After(e), ts))
<1>1. DOMAIN model = Fields
  BY DEF IInv, Copy, Fields
<1>2. CASE model' = model /\ task' = ts
  BY <1>2 DEF Follows
<1>3. CASE Takes(e) /\ model' = After(e) /\ task' = ts
  BY <1>3 DEF Follows
<1>4. CASE Takes(e) /\ RequestRecovery(After(e), ts)
  BY <1>4, AfterFields, RequestRecoveryFollows
<1>5. CASE RequestRecovery(model, ts)
  BY <1>1, <1>5, RequestRecoveryFollows
<1> QED BY <1>2, <1>3, <1>4, <1>5 DEF ApplyEnvelope

\* A step that follows the same copy and leaves the stream alone.
LEMMA FollowsForward ==
    ASSUME IInv, Forward, Follows(model, task),
           UNCHANGED <<log, session, link, cursor, handler>>, buffer' \in {buffer, << >>}
    PROVE  Forward' /\ Moves
<1>1. Batches(task', cursor, session)
  BY Nothing DEF Follows, Forward, Batches
<1>2. UpTo(buffer', cursor, session) /\ Beyond(buffer', model.sequence, session)
  BY Nothing DEF Forward
<1>3. model'.installed => buffer' = << >>
  BY DEF Follows, Forward
<1>4. model'.sequence = model.sequence /\ model'.content = model.content
  BY DEF Follows
<1> QED BY <1>1, <1>2, <1>3, <1>4 DEF Forward, Moves, Stays

\* Steps that change neither the copy nor what is held.
LEMMA SameForward ==
    ASSUME IInv, Forward, UNCHANGED <<log, session, link, cursor, handler, model, buffer, task>>
    PROVE  Forward' /\ Moves
BY FollowsForward DEF Follows

LEMMA RecreateForward == ASSUME IInv, Recreate PROVE Forward' /\ Moves
<1>1. /\ model'.sequence = 0 /\ model'.content = Blank /\ model'.installed = FALSE
      /\ buffer' = << >> /\ log' = << >> /\ cursor' = 0 /\ link' = [up |-> FALSE, next |-> 1]
      /\ handler'.pc = "idle"
  BY DEF Recreate, Fresh, NoRecord
<1>2. \A t \in Task : task'[t].batch = << >>
  BY DEF Recreate, Idle, At
<1> QED BY <1>1, <1>2, Nothing DEF Forward, Batches, Carried, Moves, Restarts

LEMMA FailsForward == ASSUME IInv, Forward, NEW t \in Task, Fails(t) PROVE Forward' /\ Moves
<1>1. CASE Recreate
  BY <1>1, RecreateForward
<1>2. CASE /\ task' = [task EXCEPT ![t] = Idle]
           /\ UNCHANGED <<log, session, model, buffer, link, cursor, handler>>
  <2>1. Follows(model, task)
    BY <1>2 DEF Follows, Idle, IInv, Tasks
  <2> QED BY <1>2, <2>1, FollowsForward
<1> QED BY <1>1, <1>2 DEF Fails, desktop

-----------------------------------------------------------------------------
(* The actions *)

LEMMA DesktopForward ==
    ASSUME IInv, Forward,
           \/ \E data \in Emits : DesktopLogs(data)
           \/ \E n \in DOMAIN commands : DesktopTakesSnapshot(n) \/ DesktopRefusesSnapshot(n)
    PROVE  Forward' /\ Moves
<1>1. /\ \E x : log' = Append(log, x)
      /\ UNCHANGED <<session, link, cursor, handler, model, buffer, task>>
  BY DEF DesktopLogs, DesktopTakesSnapshot, DesktopRefusesSnapshot, Logs, page, stream
<1> QED BY <1>1 DEF Forward, Moves, Learns

\* A snapshot is installed: its boundary was buffered, and is beyond the copy.
LEMMA EstablishForward ==
    ASSUME IInv, Forward, NEW t \in Task, Establish(t)
    PROVE  Forward' /\ Moves
<1> DEFINE n == task[t].command
<1>1. PICK i \in DOMAIN buffer :
          /\ InScope(model, buffer[i])
          /\ model' = Baseline(buffer[i], commands[n].snapshot)
          /\ task' = [task EXCEPT ![t] = At("applying", n, SubSeq(buffer, i + 1, Len(buffer)))]
          /\ buffer' = << >>
          /\ UNCHANGED <<desktop, session, stream>>
  BY DEF Establish, Boundaries, Behind
<1>2. buffer[i].scope = session
  BY <1>1 DEF InScope, IInv, Copy
<1>3. IsRecord(buffer[i], log, session)
  BY <1>2 DEF IInv, Held, IsOld
<1>4. /\ buffer[i].sequence \in Nat /\ model.sequence < buffer[i].sequence
      /\ buffer[i].sequence <= cursor
  BY <1>2, <1>3, Positions DEF Forward, UpTo, Beyond
<1>5. model'.sequence = buffer[i].sequence
  BY <1>1 DEF Baseline, IInv, Copy
<1> DEFINE rest == SubSeq(buffer, i + 1, Len(buffer))
<1>6. UpTo(rest, cursor, session)
  <2>1. \A j \in DOMAIN rest : i + j \in DOMAIN buffer /\ rest[j] = buffer[i + j]
    BY EndOfSequence DEF IInv, Held
  <2> HIDE DEF rest
  <2> QED BY <2>1 DEF Forward, UpTo
<1> HIDE DEF rest
<1>7. Batches(task', cursor, session)
  BY <1>1, <1>6 DEF rest, Forward, Batches, At, IInv, Tasks
<1>8. UNCHANGED <<log, session, link, cursor, handler>> /\ buffer' = << >>
  BY <1>1 DEF desktop, stream
<1>9. Forward'
  BY <1>4, <1>5, <1>7, <1>8, Nothing DEF Forward
<1>10. Advances
  BY <1>4, <1>5, <1>8, Positions DEF Advances
<1> QED BY <1>9, <1>10 DEF Moves

\* An event that was buffered, and is taken, is the next one.
LEMMA TurnForward ==
    ASSUME IInv, Forward, NEW t \in Task, ApplyBuffered(t) \/ TaskEnds(t)
    PROVE  Forward' /\ Moves
<1>1. CASE TaskEnds(t)
  <2>1. Follows(model, task) /\ UNCHANGED <<log, session, link, cursor, handler, buffer>>
    BY <1>1 DEF TaskEnds, Follows, Idle, IInv, Tasks, desktop
  <2> QED BY <2>1, FollowsForward
<1>2. CASE ApplyBuffered(t)
  <2> DEFINE e == Head(task[t].batch)
             ts == [task EXCEPT ![t].batch = Tail(@)]
  <2>1. task[t].batch # << >> /\ Held(task[t].batch, log, session)
    BY <1>2 DEF ApplyBuffered, IInv, Tasks
  <2>2. /\ 1 \in DOMAIN task[t].batch /\ e = task[t].batch[1]
        /\ \A j \in DOMAIN Tail(task[t].batch) :
              j + 1 \in DOMAIN task[t].batch /\ Tail(task[t].batch)[j] = task[t].batch[j + 1]
    BY <2>1, TailOfSequence DEF Held
  <2>3. e.scope = session => e.sequence <= cursor
    BY <2>2 DEF Forward, Batches, UpTo
  <2>4. UpTo(Tail(task[t].batch), cursor, session)
    BY <2>2 DEF Forward, Batches, UpTo
  <2>5. DOMAIN ts = Task /\ Batches(ts, cursor, session)
    BY <2>4 DEF Forward, Batches, IInv, Tasks
  <2>6. ApplyEnvelope(e, ts) /\ UNCHANGED <<log, session, link, cursor, handler, buffer>>
    BY <1>2 DEF ApplyBuffered, stream
  <2> HIDE DEF e, ts
  <2>7. \A m : Follows(m, ts) => Batches(task', cursor, session)
    BY <2>5, Nothing DEF Follows, Batches
  <2>8. CASE Follows(model, ts)
    BY <2>6, <2>7, <2>8 DEF Follows, Forward, Moves, Stays
  <2>9. CASE Takes(e) /\ Follows(After(e), ts)
    <3>1. /\ model.installed /\ e.scope = session /\ e.sequence = model.sequence + 1
          /\ model'.sequence = e.sequence
      BY <2>9, AfterFields DEF Takes, Accepts, InScope, InOrder, IInv, Copy, Follows
    <3>2. buffer' = << >> /\ model'.sequence <= cursor
      BY <2>3, <2>6, <3>1 DEF Forward
    <3>3. Advances
      BY <2>6, <3>1, Positions DEF Advances
    <3> QED BY <2>6, <2>7, <2>9, <3>2, <3>3, Nothing DEF Forward, Moves
  <2> QED BY <2>5, <2>6, <2>8, <2>9, ApplyFollows
<1> QED BY <1>1, <1>2

LEMMA TaskStepForward ==
    ASSUME IInv, Forward,
           \/ OpenReturns \/ OpenFails \/ SelectAgain \/ ManualRefresh
           \/ OtherStarts \/ OtherEnds \/ PollTick
           \/ \E t \in Task : WaitEnds(t) \/ OperationReturns(t)
    PROVE  Forward' /\ Moves
<1>1. DOMAIN model = Fields /\ DOMAIN task = Task
      /\ \A t \in Task : DOMAIN task[t] = {"pc", "command", "batch"}
  BY DEF IInv, Copy, Tasks, Fields
<1>2. "select" \in Task /\ "poll" \in Task
  BY DEF Task
<1>3. CASE OtherStarts \/ OtherEnds
  BY <1>3, SameForward DEF OtherStarts, OtherEnds, desktop, stream
<1>4. CASE OpenFails \/ SelectAgain
  <2>1. Follows(model, task)
    BY <1>1, <1>2, <1>4 DEF OpenFails, SelectAgain, Follows, Idle, At
  <2> QED BY <1>4, <2>1, FollowsForward DEF OpenFails, SelectAgain, desktop, stream
<1>5. CASE OpenReturns
  <2>1. Follows(model, task)
    <3>1. CASE busy
      BY <1>1, <1>2, <1>5, <3>1 DEF OpenReturns, Follows, Idle
    <3>2. CASE ~busy
      BY <1>1, <1>2, <1>5, <3>2, RequestSnapshotFollows DEF OpenReturns
    <3> QED BY <3>1, <3>2
  <2> QED BY <1>5, <2>1, FollowsForward DEF OpenReturns, stream
<1>6. CASE ManualRefresh
  <2>1. Follows(model, task)
    BY <1>1, <1>6, RequestRecoveryFollows DEF ManualRefresh
  <2> QED BY <1>6, <2>1, FollowsForward DEF ManualRefresh, stream
<1>7. CASE PollTick
  <2>1. Follows(model, task)
    BY <1>1, <1>2, <1>7, RefreshFollows DEF PollTick
  <2> QED BY <1>7, <2>1, FollowsForward DEF PollTick
<1>8. ASSUME NEW t \in Task, WaitEnds(t) PROVE Forward' /\ Moves
  <2>1. Follows(model, task)
    BY <1>1, <1>8, RequestSnapshotFollows DEF WaitEnds
  <2> QED BY <1>8, <2>1, FollowsForward DEF WaitEnds, stream
<1>9. ASSUME NEW t \in Task, OperationReturns(t) PROVE Forward' /\ Moves
  <2>1. Follows(model, task)
    BY <1>1, <1>9 DEF OperationReturns, Follows
  <2> QED BY <1>9, <2>1, FollowsForward DEF OperationReturns, desktop, stream
<1> QED BY <1>3, <1>4, <1>5, <1>6, <1>7, <1>8, <1>9

\* The stream carries what is ahead of its cursor, unless Cloud repeats a record.
LEMMA StreamStepForward ==
    ASSUME IInv, Forward,
           Connect \/ Disconnect \/ Skip \/ RecoveryAwaited \/ Deliver \/ DeliverGarbled
    PROVE  Forward' /\ Moves
<1>1. UNCHANGED <<log, session, model, buffer, task>>
  BY DEF Connect, Disconnect, Skip, RecoveryAwaited, Deliver, DeliverGarbled, Carries, page, desktop
<1>2. Stays
  BY <1>1 DEF Stays
<1>3. CASE Deliver \/ DeliverGarbled
  <2>1. \E pc : Carries(link.next, pc, link.next + 1)
    BY <1>3 DEF Deliver, DeliverGarbled
  <2>2. /\ cursor' = cursor /\ link' = [link EXCEPT !.next = link.next + 1] /\ link.up
        /\ handler'.record = Record(link.next)
    BY <2>1 DEF Carries
  <2>3. handler'.record.cursor = link.next
    BY <2>2 DEF Record
  <2> QED BY <1>1, <1>2, <2>2, <2>3, Positions DEF Forward, Carried, Moves
<1>4. CASE Connect \/ Disconnect \/ Skip
  <2>1. cursor' = cursor /\ handler' = handler /\ cursor < link'.next
    BY <1>4, Positions DEF Connect, Disconnect, Skip, Resume, Forward
  <2>2. Carried(handler', link', cursor)
    BY <1>4, <2>1, Positions DEF Connect, Disconnect, Skip, Forward, Carried
  <2> QED BY <1>1, <1>2, <2>1, <2>2 DEF Forward, Moves
<1>5. CASE RecoveryAwaited
  <2>1. /\ cursor' = handler.record.cursor /\ handler'.pc = "idle" /\ link' = link
        /\ handler.pc # "idle"
    BY <1>5 DEF RecoveryAwaited, Commits, NoRecord
  <2>2. cursor < cursor' /\ cursor' < link.next /\ cursor' \in Nat
    BY <2>1, Positions DEF Forward, Carried
  <2> QED BY <1>1, <1>2, <2>1, <2>2, Positions, Later DEF Forward, Carried, Moves
<1> QED BY <1>3, <1>4, <1>5

\* A record that is handled becomes part of the copy or of the buffer, or is
\* behind the recovery that the stream awaits.
LEMMA OnRecordForward == ASSUME IInv, Forward, OnRecord PROVE Forward' /\ Moves
<1> DEFINE e == handler.record
<1>1. /\ handler.pc # "idle" /\ IsRecord(e, log, session)
      /\ DOMAIN model = Fields /\ DOMAIN task = Task
      /\ UNCHANGED <<log, session, link>>
  BY DEF OnRecord, RecordGarbled, RecordOverflows, RecordBuffered, RecordApplied,
         IInv, Copy, Tasks, Fields
<1>2. /\ cursor < e.cursor /\ e.cursor < link.next /\ link.up
      /\ e.cursor \in Nat /\ e.sequence = e.cursor /\ e.scope = session
  BY <1>1, Positions DEF Forward, Carried
<1>3. cursor <= e.cursor
  BY <1>2, Positions
<1>4. model.sequence <= e.cursor /\ UpTo(buffer, e.cursor, session) /\ Batches(task, e.cursor, session)
  BY <1>2, <1>3, Later
<1>5. CASE AwaitsRecovery
  <2>1. Follows(model, task)
    BY <1>1, <1>5, RequestRecoveryFollows DEF AwaitsRecovery
  <2>2. Batches(task', cursor, session)
    BY <2>1, Nothing DEF Follows, Forward, Batches
  <2>3. Carried(handler', link, cursor)
    BY <1>1, <1>2, <1>5 DEF AwaitsRecovery, Carried, IInv
  <2>4. UNCHANGED <<buffer, cursor>>
    BY <1>5 DEF AwaitsRecovery
  <2> QED BY <1>1, <2>1, <2>2, <2>3, <2>4 DEF Follows, Forward, Moves, Stays
<1>6. CASE RecordBuffered
  <2>1. /\ buffer' = Append(buffer, e) /\ cursor' = e.cursor /\ handler'.pc = "idle"
        /\ UNCHANGED <<model, task>> /\ ~model.installed
    BY <1>6 DEF RecordBuffered, Commits, NoRecord
  <2>2. UpTo(buffer', e.cursor, session) /\ Beyond(buffer', model.sequence, session)
    <3>1. /\ Len(buffer) \in Nat /\ DOMAIN buffer = 1 .. Len(buffer)
          /\ DOMAIN buffer' = 1 .. Len(buffer) + 1
          /\ \A i \in DOMAIN buffer : buffer'[i] = buffer[i]
          /\ buffer'[Len(buffer) + 1] = e
      BY <2>1, SequenceBasics, AppendToSequence DEF IInv, Held
    <3>2. \A i \in DOMAIN buffer' : (i \in DOMAIN buffer /\ buffer'[i] = buffer[i]) \/ buffer'[i] = e
      BY <3>1
    <3>3. model.sequence < e.sequence /\ e.sequence <= e.cursor
      BY <1>2, Positions DEF Forward
    <3> HIDE DEF e
    <3> QED BY <1>4, <3>2, <3>3 DEF Forward, UpTo, Beyond
  <2> QED BY <1>1, <1>2, <1>4, <2>1, <2>2 DEF Forward, Carried, Moves, Stays
<1>7. CASE RecordApplied
  <2>1. ApplyEnvelope(e, task) /\ cursor' = e.cursor /\ handler'.pc = "idle"
        /\ buffer' = << >> /\ model.installed
    BY <1>7 DEF RecordApplied, Commits, NoRecord, Forward
  <2>2. \A m : Follows(m, task) => Batches(task', e.cursor, session)
    BY <1>4, Nothing DEF Follows, Batches
  <2>3. CASE Follows(model, task)
    BY <1>1, <1>2, <1>4, <2>1, <2>2, <2>3, Nothing DEF Follows, Forward, Carried, Moves, Stays
  <2>4. CASE Takes(e) /\ Follows(After(e), task)
    <3>1. model'.sequence = e.sequence /\ e.sequence = model.sequence + 1
      BY <2>4, AfterFields DEF Takes, Accepts, InOrder, Follows
    <3>2. Advances
      BY <1>1, <3>1, Positions DEF Advances
    <3>3. model'.sequence <= e.cursor
      BY <1>2, <3>1
    <3> QED BY <1>1, <1>2, <2>1, <2>2, <2>4, <3>2, <3>3, Nothing DEF Forward, Carried, Moves
  <2> QED BY <1>1, <2>1, <2>3, <2>4, ApplyFollows
<1> QED BY <1>5, <1>6, <1>7 DEF OnRecord, RecordGarbled, RecordOverflows

\* A record of an earlier control session is of no account in the buffer.
LEMMA StaleForward == ASSUME IInv, Forward, NEW e \in stale, StaleRecord(e) PROVE Forward' /\ Moves
<1>1. /\ UNCHANGED <<log, session, link, cursor, handler, model, task>>
      /\ buffer' = buffer \/ (buffer' = Append(buffer, e) /\ ~model.installed)
  BY DEF StaleRecord, desktop
<1>2. e.scope # session
  BY DEF IInv, IsOld
<1>3. CASE buffer' = buffer
  BY <1>1, <1>3, SameForward
<1>4. CASE buffer' = Append(buffer, e) /\ ~model.installed
  <2>1. /\ Len(buffer) \in Nat /\ DOMAIN buffer = 1 .. Len(buffer)
        /\ DOMAIN buffer' = 1 .. Len(buffer) + 1
        /\ \A i \in DOMAIN buffer : buffer'[i] = buffer[i]
        /\ buffer'[Len(buffer) + 1] = e
    BY <1>4, SequenceBasics, AppendToSequence DEF IInv, Held
  <2>2. \A i \in DOMAIN buffer' : (i \in DOMAIN buffer /\ buffer'[i] = buffer[i]) \/ buffer'[i] = e
    BY <2>1
  <2>3. UpTo(buffer', cursor, session) /\ Beyond(buffer', model.sequence, session)
    BY <1>2, <2>2 DEF Forward, UpTo, Beyond
  <2> QED BY <1>1, <1>4, <2>3 DEF Forward, Moves, Stays
<1> QED BY <1>1, <1>3, <1>4

LEMMA InitForward == Init => Forward
<1> SUFFICES ASSUME Init PROVE Forward
  OBVIOUS
<1>1. \A t \in Task : task[t].batch = << >>
  BY DEF Init, Idle, At
<1> QED BY <1>1, Nothing DEF Init, Fresh, NoRecord, Forward, Carried, Batches

LEMMA StepForward ==
    ASSUME "repeat" \notin Faults, IInv, Forward, [Next]_vars
    PROVE  Forward' /\ Moves
<1>1. CASE Turn
  BY <1>1, TurnForward DEF Turn
<1>2. CASE \/ \E data \in Emits : DesktopLogs(data)
           \/ \E n \in DOMAIN commands : DesktopTakesSnapshot(n) \/ DesktopRefusesSnapshot(n)
  BY <1>2, DesktopForward
<1>3. CASE \/ OpenReturns \/ OpenFails \/ SelectAgain \/ ManualRefresh
           \/ OtherStarts \/ OtherEnds \/ PollTick
           \/ \E t \in Task : WaitEnds(t) \/ OperationReturns(t)
  BY <1>3, TaskStepForward
<1>4. CASE \E t \in Task : OperationFails(t) \/ BoundaryTimesOut(t)
  BY <1>4, FailsForward DEF OperationFails, BoundaryTimesOut
<1>5. CASE \E t \in Task : Establish(t)
  BY <1>5, EstablishForward
<1>6. CASE ControlSessionCloses
  BY <1>6, RecreateForward DEF ControlSessionCloses
<1>7. CASE Connect \/ Disconnect \/ Skip \/ RecoveryAwaited \/ Deliver \/ DeliverGarbled
  BY <1>7, StreamStepForward
<1>8. CASE OnRecord
  BY <1>8, OnRecordForward
<1>9. CASE \E e \in stale : StaleRecord(e)
  BY <1>9, StaleForward
<1>10. CASE UNCHANGED vars
  BY <1>10, SameForward DEF vars, desktop, page, stream
<1>11. ~Repeat
  BY DEF Repeat, Spend
<1> QED BY <1>1, <1>2, <1>3, <1>4, <1>5, <1>6, <1>7, <1>8, <1>9, <1>10, <1>11 DEF Next

-----------------------------------------------------------------------------
(* The refinement *)

LEMMA StartOfSequence ==
    ASSUME NEW g, IsSequence(g), NEW h, IsSequence(h), NEW n \in Nat, Len(g) = n + 1, Len(h) = n,
           \A i \in 1 .. n : g[i] = h[i]
    PROVE  SubSeq(g, 1, n) = h
<1> DEFINE T == {g[k] : k \in DOMAIN g}
           start == SubSeq(g, 1, n)
<1>1. DOMAIN g = 1 .. n + 1 /\ DOMAIN h = 1 .. n
  BY SequenceBasics
<1>2. \A k \in 1 .. n : g[k] \in T
  BY <1>1
<1> HIDE DEF T
<1>3. /\ start \in Seq(T) /\ Len(start) = IF 1 <= n THEN n - 1 + 1 ELSE 0
      /\ \A j \in 1 .. n - 1 + 1 : start[j] = g[1 + j - 1]
  BY <1>1, <1>2, SubSeqProperties
<1> HIDE DEF start
<1>4. IsSequence(start) /\ Len(start) = n
  BY <1>3, MembersMakeSequence
<1>5. \A j \in 1 .. n : start[j] = h[j]
  <2> TAKE j \in 1 .. n
  <2>1. j \in 1 .. n - 1 + 1 /\ 1 + j - 1 = j
    OBVIOUS
  <2> QED BY <1>3, <2>1
<1>6. start \in Seq(T \cup {h[k] : k \in DOMAIN h}) /\ h \in Seq(T \cup {h[k] : k \in DOMAIN h})
  BY <1>1, <1>3, <1>4 DEF IsSequence
<1>7. start = h
  BY <1>4, <1>5, <1>6, SeqEqual
<1> QED BY <1>7 DEF start

LEMMA HistoryOf ==
    ASSUME IInv
    PROVE  /\ IsSequence(History) /\ Len(History) = Len(log) /\ DOMAIN History = DOMAIN log
           /\ \A i \in DOMAIN log : History[i] = log[i].after
<1>1. DOMAIN History = DOMAIN log /\ \A i \in DOMAIN log : History[i] = log[i].after
  BY DEF History
<1>2. IsSequence(log)
  BY DEF IInv, Chain
<1>3. IsSequence(History)
  <2>1. History = [i \in DOMAIN History |-> History[i]]
    BY DEF History
  <2> QED BY <1>1, <1>2, <2>1, ReplacedInSequence
<1>4. Len(History) = Len(log)
  BY <1>1, <1>2, <1>3, Positions, SequenceBasics
<1> QED BY <1>1, <1>3, <1>4

LEMMA Learning == ASSUME IInv, IInv', Learns PROVE Promise!Happens
<1>1. PICK x : log' = Append(log, x)
  BY DEF Learns
<1>2. /\ IsSequence(log) /\ Len(log) \in Nat /\ Len(log') = Len(log) + 1
      /\ DOMAIN log = 1 .. Len(log) /\ \A i \in DOMAIN log : log'[i] = log[i]
  BY <1>1, AppendToSequence, SequenceBasics DEF IInv, Chain
<1>3. /\ IsSequence(History) /\ Len(History) = Len(log) /\ DOMAIN History = DOMAIN log
      /\ \A i \in DOMAIN log : History[i] = log[i].after
  BY HistoryOf
<1>4. /\ IsSequence(History') /\ Len(History') = Len(log') /\ DOMAIN History' = DOMAIN log'
      /\ \A i \in DOMAIN log' : History'[i] = log'[i].after
  <2>1. (IInv => /\ IsSequence(History) /\ Len(History) = Len(log) /\ DOMAIN History = DOMAIN log
                 /\ \A i \in DOMAIN log : History[i] = log[i].after)'
    BY HistoryOf, PTL
  <2> QED BY <2>1
<1> DEFINE h == History
           g == History'
           n == Len(log)
<1>5. SubSeq(g, 1, n) = h
  <2>1. /\ n \in Nat /\ IsSequence(g) /\ Len(g) = n + 1 /\ DOMAIN g = 1 .. n + 1
        /\ IsSequence(h) /\ Len(h) = n /\ DOMAIN h = 1 .. n
        /\ \A i \in 1 .. n : g[i] = h[i]
    BY <1>2, <1>3, <1>4, SequenceBasics
  <2> HIDE DEF h, g, n
  <2> QED BY <2>1, StartOfSequence
<1>6. Len(g) = Len(h) + 1
  BY <1>2, <1>3, <1>4
<1>7. model'.sequence = model.sequence /\ model'.content = model.content
  BY DEF Learns
<1> QED BY <1>3, <1>5, <1>6, <1>7 DEF Promise!Happens

LEMMA Advancing == ASSUME IInv, IInv', Advances PROVE Promise!CatchesUp
<1>1. log' = log /\ model'.sequence \in DOMAIN log /\ model'.content = log[model'.sequence].after
  BY DEF Advances, IInv, Copy
<1>2. History' = History
  BY <1>1 DEF History
<1>3. model'.sequence \in DOMAIN History /\ model'.content = History[model'.sequence]
  BY <1>1 DEF History
<1>4. model'.sequence >= model.sequence
  BY DEF Advances
<1> QED BY <1>2, <1>3, <1>4 DEF Promise!CatchesUp

LEMMA NoHistory == ASSUME NEW l, l = << >> PROVE [i \in DOMAIN l |-> l[i].after] = << >>
OBVIOUS

LEMMA Restarting == ASSUME Restarts PROVE Promise!Reopens
<1>1. History' = << >>
  BY NoHistory DEF Restarts, History
<1> QED BY <1>1 DEF Restarts, Promise!Reopens

LEMMA Staying == ASSUME Stays PROVE UNCHANGED Promise!vars
BY DEF Stays, Promise!vars, History

\* If Cloud repeats no record: whatever else the stream loses, leaves out or garbles,
\* however snapshots overlap and whatever overflows, the page keeps the promise of
\* ReplicaContract: it never goes back to an earlier state of the session.
THEOREM ReplicaKeepsPromise ==
    ASSUME "repeat" \notin Faults PROVE Spec => KeepsPromise
<1>1. Init => Promise!Init
  BY NoHistory DEF Init, Fresh, History, Promise!Init
<1>2. IInv /\ Forward /\ [Next]_vars => [Promise!Next]_(Promise!vars)
  <2> SUFFICES ASSUME IInv, Forward, [Next]_vars PROVE Promise!Next \/ UNCHANGED Promise!vars
    OBVIOUS
  <2>1. IInv' /\ Moves
    BY StepIInv, StepForward
  <2> QED BY <2>1, Learning, Advancing, Restarting, Staying DEF Moves, Promise!Next
<1>3. IInv /\ Forward /\ [Next]_vars => (IInv /\ Forward)'
  BY StepIInv, StepForward
<1>4. Init => IInv /\ Forward
  BY InitIInv, InitForward
<1> QED BY <1>1, <1>2, <1>3, <1>4, PTL DEF Spec, KeepsPromise, Promise!Spec

-----------------------------------------------------------------------------
(* Nothing is lost.  The invariant, on top of IInv and Forward: what is       *)
(* buffered has no gap up to the cursor, what is left to apply none from the  *)
(* copy on.                                                                   *)

\* Records of control session n in s: in the order of the log, and none left out
\* up to c, from the first of them on or from q on.
Ascending(s, n) ==
    \A i, j \in DOMAIN s :
        i < j /\ s[i].scope = n /\ s[j].scope = n => s[i].sequence < s[j].sequence
Has(s, x, n) == \E i \in DOMAIN s : s[i].scope = n /\ s[i].sequence = x
Gapless(s, c, n) == \A i \in DOMAIN s : s[i].scope = n => \A x \in s[i].sequence .. c : Has(s, x, n)
Covers(s, q, c, n) == \A x \in q + 1 .. c : Has(s, x, n)

\* What a task has left to apply takes an installed copy m up to c.
Left(s, m, c, n) ==
    /\ Ascending(s, n)
    /\ m.installed => Beyond(s, m.sequence, n) /\ Covers(s, m.sequence, c, n)

Busy(ts, t) == ts[t].pc = "applying"

Leftovers(ts, m, c, n) ==
    /\ \A t, u \in Task : Busy(ts, t) /\ Busy(ts, u) => t = u
    /\ \A t \in Task : Busy(ts, t) => Left(ts[t].batch, m, c, n)

\* An installed copy with nothing left to apply is at the cursor.
Level(ts, m, c) == m.installed /\ (\A t \in Task : ~Busy(ts, t)) => m.sequence = c

\* The stream is at its cursor, or hands over the record after it.
Line(h, k, c) ==
    \/ h.pc = "idle" /\ k.next = c + 1
    \/ h.pc = "decrypting" /\ h.record.cursor = c + 1 /\ k.next = c + 2

\* A part that is logged is of a message that exists.
Sensible(l) == \A i \in DOMAIN l : i + 1 \in DOMAIN l => Meaningful(l[i].after, l[i + 1].data)

\* What is remembered is behind the copy.
Past(m, n) ==
    /\ m.cursor = m.sequence
    /\ IsSequence(m.seen)
    /\ \A i \in DOMAIN m.seen : \E x \in 1 .. m.sequence : m.seen[i].eventId = <<n, x>>

Guarded(ts, r) == ts["recovery"].pc # "idle" => r

Contiguous ==
    /\ Ascending(buffer, session) /\ Gapless(buffer, cursor, session)
    /\ Leftovers(task, model, cursor, session)
    /\ Level(task, model, cursor)
    /\ Line(handler, link, cursor)
    /\ Sensible(log)
    /\ Past(model, session)
    /\ Guarded(task, recovery)

\* A record is of the control session or of an earlier one.
LEMMA HeldScopes ==
    ASSUME IInv, NEW s, Held(s, log, session), NEW i \in DOMAIN s, s[i].scope = session
    PROVE  IsRecord(s[i], log, session)
BY DEF Held, IsOld, IInv

LEMMA OneIsSequence == \A e : IsSequence(<<e>>) /\ \A j \in DOMAIN <<e>> : <<e>>[j] = e
<1> TAKE e
<1>1. <<e>> \in Seq({e})
  OBVIOUS
<1>2. IsSequence(<<e>>)
  BY <1>1, MembersMakeSequence
<1>3. \A j \in DOMAIN <<e>> : <<e>>[j] = e
  OBVIOUS
<1> QED BY <1>2, <1>3

LEMMA NothingLeft == \A c, q, n : Ascending(<< >>, n) /\ Gapless(<< >>, c, n)
BY EmptySeq DEF Ascending, Gapless

-----------------------------------------------------------------------------
(* Shared steps *)

\* The page goes on with copy m; what a task has left to apply stays.
Proceeds(m, ts) ==
    /\ model'.sequence = m.sequence /\ model'.cursor = m.cursor
    /\ model'.seen = m.seen /\ (model'.installed => m.installed)
    /\ \A t \in Task : /\ Busy(task', t) <=> Busy(ts, t)
                       /\ Busy(ts, t) => task'[t] = ts[t]
    /\ Guarded(task', recovery')

LEMMA RequestSnapshotProceeds ==
    ASSUME NEW t \in Task, NEW m, DOMAIN m = Fields, NEW ts, DOMAIN ts = Task, ~Busy(ts, t),
           Guarded(task', recovery'), RequestSnapshot(t, m, ts)
    PROVE  Proceeds(m, ts)
BY DEF RequestSnapshot, Proceeds, Busy, At, Fields

LEMMA RefreshProceeds ==
    ASSUME NEW t \in Task, NEW m, DOMAIN m = Fields, NEW ts, DOMAIN ts = Task, ~Busy(ts, t),
           Guarded(task', recovery'), Refresh(t, m, ts)
    PROVE  Proceeds(m, ts)
<1>1. CASE busy
  BY <1>1 DEF Refresh, Proceeds, Busy, At
<1>2. CASE ~busy
  BY <1>2, RequestSnapshotProceeds DEF Refresh
<1> QED BY <1>1, <1>2

LEMMA RequestRecoveryProceeds ==
    ASSUME NEW m, DOMAIN m = Fields, NEW ts, DOMAIN ts = Task, Guarded(ts, recovery),
           RequestRecovery(m, ts)
    PROVE  Proceeds(m, ts)
<1>1. CASE recovery
  BY <1>1 DEF RequestRecovery, Proceeds, Guarded
<1>2. CASE ~recovery
  <2>1. "recovery" \in Task /\ ~Busy(ts, "recovery") /\ Guarded(task', recovery')
    BY <1>2 DEF RequestRecovery, Guarded, Busy, Task
  <2> QED BY <1>2, <2>1, RefreshProceeds DEF RequestRecovery
<1> QED BY <1>1, <1>2

\* An event that cannot be taken leaves the copy where it is.
LEMMA UntakenProceeds ==
    ASSUME IInv, NEW e, NEW ts, DOMAIN ts = Task, Guarded(ts, recovery), ~Takes(e),
           ApplyEnvelope(e, ts)
    PROVE  Proceeds(model, ts)
<1>1. DOMAIN model = Fields
  BY DEF IInv, Copy, Fields
<1>2. CASE model' = model /\ task' = ts /\ recovery' = recovery
  BY <1>2 DEF Proceeds, Guarded
<1>3. CASE RequestRecovery(model, ts)
  BY <1>1, <1>3, RequestRecoveryProceeds
<1> QED BY <1>2, <1>3 DEF ApplyEnvelope

\* The record after the copy is taken.
LEMMA NextIsTaken ==
    ASSUME IInv, Past(model, session), Sensible(log), NEW e, IsRecord(e, log, session),
           model.installed, e.sequence = model.sequence + 1
    PROVE  Takes(e) /\ ~Duplicate(model, e)
<1>1. PICK i \in DOMAIN log : e = [eventId |-> <<session, i>>, cursor |-> i, sequence |-> i,
                                   scope |-> session, data |-> log[i].data]
  BY DEF IsRecord
<1>2. /\ i = model.sequence + 1 /\ model.sequence \in Nat /\ e.cursor = i
      /\ e.eventId = <<session, i>> /\ e.scope = model.scope /\ e.data = log[i].data
      /\ model.sequence \in DOMAIN log /\ model.content = log[model.sequence].after
  BY <1>1 DEF IInv, Copy
<1>3. ~Known(model, e)
  <2> SUFFICES ASSUME NEW s \in ToSet(model.seen), s.eventId = e.eventId PROVE FALSE
    BY DEF Known
  <2>1. PICK j \in DOMAIN model.seen : s = model.seen[j]
    BY DEF ToSet
  <2>2. PICK x \in 1 .. model.sequence : s.eventId = <<session, x>>
    BY <2>1 DEF Past
  <2> QED BY <1>2, <2>2
<1>4. Meaningful(model.content, e.data)
  BY <1>2 DEF Sensible
<1>5. InOrder(model, e)
  BY <1>2 DEF InOrder, Past
<1>6. ~Duplicate(model, e)
  BY <1>3 DEF Duplicate, Known
<1> QED BY <1>2, <1>3, <1>4, <1>5, <1>6 DEF Takes, Accepts, InScope

\* Its memory of events follows it.
LEMMA AfterIsPast ==
    ASSUME IInv, Past(model, session), NEW e, IsRecord(e, log, session),
           e.sequence = model.sequence + 1
    PROVE  Past(After(e), session)
<1>1. /\ e.cursor = e.sequence /\ e.eventId = <<session, e.sequence>> /\ e.sequence \in Nat
      /\ model.sequence \in Nat
  BY Positions DEF IsRecord
<1> DEFINE longer == Append(model.seen, e)
           m == After(e)
           Old(q) == /\ IsSequence(q)
                     /\ \A i \in DOMAIN q : \E x \in 1 .. e.sequence : q[i].eventId = <<session, x>>
<1>2. m.cursor = e.sequence /\ m.sequence = e.sequence /\ m.seen = Remember(model.seen, e)
  BY <1>1 DEF After, IInv, Copy
<1>3. /\ Len(model.seen) \in Nat /\ IsSequence(longer)
      /\ DOMAIN model.seen = 1 .. Len(model.seen) /\ DOMAIN longer = 1 .. Len(model.seen) + 1
      /\ \A i \in DOMAIN model.seen : longer[i] = model.seen[i]
      /\ longer[Len(model.seen) + 1] = e
  BY AppendToSequence, SequenceBasics DEF Past
<1>4. \A i \in DOMAIN longer : \E x \in 1 .. e.sequence : longer[i].eventId = <<session, x>>
  <2> SUFFICES ASSUME NEW i \in DOMAIN longer
               PROVE  \E x \in 1 .. e.sequence : longer[i].eventId = <<session, x>>
    OBVIOUS
  <2>1. CASE i \in DOMAIN model.seen
    <3>1. PICK x \in 1 .. model.sequence : model.seen[i].eventId = <<session, x>>
      BY <2>1 DEF Past
    <3>2. x \in 1 .. e.sequence
      BY <1>1
    <3> QED BY <1>3, <2>1, <3>1, <3>2
  <2>2. CASE i \notin DOMAIN model.seen
    <3>1. longer[i] = e
      BY <1>3, <2>2
    <3>2. e.sequence \in 1 .. e.sequence
      BY <1>1
    <3> QED BY <1>1, <3>1, <3>2
  <2> QED BY <2>1, <2>2
<1> HIDE DEF longer, m
<1>5. Old(longer)
  BY <1>3, <1>4
<1>6. Old(Tail(longer))
  <2>1. longer # << >>
    BY <1>3, EmptySeq
  <2>2. IsSequence(Tail(longer)) /\ \A i \in DOMAIN Tail(longer) :
            i + 1 \in DOMAIN longer /\ Tail(longer)[i] = longer[i + 1]
    BY <1>3, <2>1, TailOfSequence
  <2> QED BY <1>4, <2>2
<1>7. m.seen = longer \/ m.seen = Tail(longer)
  BY <1>2 DEF Remember, longer
<1>8. Old(m.seen)
  <2> HIDE DEF Old
  <2> QED BY <1>5, <1>6, <1>7
<1>9. Past(m, session)
  BY <1>2, <1>8 DEF Past
<1> QED BY <1>9 DEF m

\* Outside a turn nothing is left to apply.
LEMMA QuietContiguous ==
    ASSUME IInv, Contiguous, ~Applying, Proceeds(model, task),
           UNCHANGED <<log, session, link, cursor, handler>>, buffer' \in {buffer, << >>}
    PROVE  Contiguous'
<1>1. \A t \in Task : ~Busy(task, t) /\ ~Busy(task', t)
  BY DEF Applying, Busy, Proceeds
<1>2. Leftovers(task', model', cursor, session) /\ Level(task', model', cursor)
  BY <1>1 DEF Contiguous, Leftovers, Level, Proceeds
<1>3. Past(model', session)
  BY DEF Contiguous, Past, Proceeds
<1>4. Ascending(buffer', session) /\ Gapless(buffer', cursor, session)
  BY NothingLeft DEF Contiguous
<1> QED BY <1>2, <1>3, <1>4 DEF Contiguous, Proceeds

LEMMA SameContiguous ==
    ASSUME Contiguous,
           UNCHANGED <<log, session, link, cursor, handler, model, buffer, task, recovery>>
    PROVE  Contiguous'
BY DEF Contiguous

LEMMA RecreateContiguous == ASSUME IInv, Recreate PROVE Contiguous'
<1>1. /\ model'.cursor = 0 /\ model'.sequence = 0 /\ model'.seen = << >>
      /\ model'.installed = FALSE
      /\ buffer' = << >> /\ log' = << >> /\ cursor' = 0 /\ link'.next = 1
      /\ handler'.pc = "idle"
  BY DEF Recreate, Fresh, NoRecord
<1>2. /\ \A t \in Task : ~Busy(task', t)
      /\ task'["recovery"].pc = "idle"
  BY DEF Recreate, Idle, At, Busy, Task
<1>3. Past(model', session') /\ Sensible(log')
  BY <1>1, EmptyIsSequence, EmptySeq DEF Past, Sensible
<1>4. Leftovers(task', model', cursor', session') /\ Level(task', model', cursor')
  BY <1>1, <1>2 DEF Leftovers, Level
<1> QED BY <1>1, <1>2, <1>3, <1>4, NothingLeft DEF Contiguous, Line, Guarded

LEMMA FailsContiguous ==
    ASSUME IInv, Contiguous, ~Applying, NEW t \in Task, Fails(t)
    PROVE  Contiguous'
<1>1. CASE Recreate
  BY <1>1, RecreateContiguous
<1>2. CASE /\ task' = [task EXCEPT ![t] = Idle]
           /\ UNCHANGED <<log, session, model, buffer, link, cursor, handler, recovery>>
  <2>1. Proceeds(model, task)
    BY <1>2 DEF Proceeds, Busy, Idle, IInv, Tasks, Guarded, Contiguous, Applying
  <2> QED BY <1>2, <2>1, QuietContiguous
<1> QED BY <1>1, <1>2 DEF Fails, desktop

-----------------------------------------------------------------------------
(* The actions *)

LEMMA DesktopContiguous ==
    ASSUME IInv, Contiguous,
           \/ \E data \in Emits : DesktopLogs(data)
           \/ \E n \in DOMAIN commands : DesktopTakesSnapshot(n) \/ DesktopRefusesSnapshot(n)
    PROVE  Contiguous'
<1>1. PICK data : Logs(data) /\ Meaningful(doc, data)
                  /\ UNCHANGED <<session, link, cursor, handler, model, buffer, task, recovery>>
  <2>1. \A n, status : Meaningful(doc, Lifecycle(n, status))
    BY DEF Meaningful, Lifecycle
  <2> QED BY <2>1 DEF DesktopLogs, DesktopTakesSnapshot, DesktopRefusesSnapshot, page, stream
<1>2. Sensible(log')
  <2> DEFINE x == [data |-> data, after |-> Effect(doc, data)]
  <2>1. /\ Len(log) \in Nat /\ DOMAIN log = 1 .. Len(log)
        /\ log' = Append(log, x) /\ DOMAIN log' = 1 .. Len(log) + 1
        /\ \A i \in DOMAIN log : log'[i] = log[i]
        /\ log'[Len(log) + 1] = x
    BY <1>1, AppendToSequence, SequenceBasics DEF IInv, Chain, Logs
  <2>2. x.data = data
    OBVIOUS
  <2> HIDE DEF x
  <2> SUFFICES ASSUME NEW i \in DOMAIN log', i + 1 \in DOMAIN log'
               PROVE  Meaningful(log'[i].after, log'[i + 1].data)
    BY DEF Sensible
  <2>3. CASE i + 1 \in DOMAIN log
    <3>1. i \in DOMAIN log
      BY <2>1, <2>3
    <3> QED BY <2>1, <2>3, <3>1 DEF Contiguous, Sensible
  <2>4. CASE i + 1 \notin DOMAIN log
    <3>1. i = Len(log) /\ Len(log) > 0 /\ log'[i] = log[i] /\ log'[i + 1] = x
      BY <2>1, <2>4
    <3>2. log'[i].after = doc
      BY <3>1 DEF IInv, Chain
    <3> QED BY <1>1, <2>2, <3>1, <3>2
  <2> QED BY <2>3, <2>4
<1> QED BY <1>1, <1>2 DEF Contiguous

\* A snapshot is installed: what is buffered behind its boundary has no gap.
LEMMA EstablishContiguous ==
    ASSUME IInv, Contiguous, ~Applying, NEW t \in Task, Establish(t)
    PROVE  Contiguous'
<1> DEFINE n == task[t].command
<1>1. PICK i \in DOMAIN buffer :
          /\ InScope(model, buffer[i])
          /\ model' = Baseline(buffer[i], commands[n].snapshot)
          /\ task' = [task EXCEPT ![t] = At("applying", n, SubSeq(buffer, i + 1, Len(buffer)))]
          /\ buffer' = << >> /\ task[t].pc = "boundary"
          /\ UNCHANGED <<desktop, session, recovery, stream>>
  BY DEF Establish, Boundaries, Behind
<1> DEFINE e == buffer[i]
           rest == SubSeq(buffer, i + 1, Len(buffer))
<1>2. e.scope = session /\ IsSequence(buffer) /\ DOMAIN buffer = 1 .. Len(buffer)
      /\ Len(buffer) \in Nat
  BY <1>1, SequenceBasics DEF InScope, IInv, Copy, Held
<1>3. IsRecord(e, log, session)
  BY <1>2, HeldScopes DEF IInv
<1>4. /\ e.sequence \in Nat /\ e.sequence > 0 /\ e.cursor = e.sequence
      /\ e.eventId = <<session, e.sequence>>
  BY <1>3, Positions DEF IsRecord
<1>5. /\ IsSequence(rest)
      /\ \A j \in DOMAIN rest : i + j \in DOMAIN buffer /\ rest[j] = buffer[i + j]
  BY <1>2, EndOfSequence
<1>6. DOMAIN rest = 1 .. Len(buffer) - i
  <2>1. \A k \in i + 1 .. Len(buffer) : buffer[k] \in {buffer[j] : j \in DOMAIN buffer}
    BY <1>2
  <2>2. Len(rest) = IF i + 1 <= Len(buffer) THEN Len(buffer) - (i + 1) + 1 ELSE 0
    BY <1>2, <2>1, SubSeqProperties
  <2>3. DOMAIN rest = 1 .. Len(rest)
    BY <1>5, SequenceBasics
  <2> HIDE DEF rest
  <2> QED BY <1>2, <2>2, <2>3
<1> HIDE DEF rest
<1>7. \A j \in DOMAIN buffer : i < j => j - i \in DOMAIN rest /\ rest[j - i] = buffer[j]
  <2> TAKE j \in DOMAIN buffer
  <2> HAVE i < j
  <2>1. j - i \in DOMAIN rest /\ i + (j - i) = j
    BY <1>2, <1>6
  <2> QED BY <1>5, <2>1
<1>8. \A j \in DOMAIN rest : j \in Nat /\ i < i + j
  BY <1>2, <1>6
<1>9. Ascending(rest, session) /\ Beyond(rest, e.sequence, session)
  <2>1. ASSUME NEW j \in DOMAIN rest, NEW k \in DOMAIN rest, j < k,
               rest[j].scope = session, rest[k].scope = session
        PROVE  rest[j].sequence < rest[k].sequence
    <3>1. i + j < i + k
      BY <1>2, <1>8, <2>1
    <3> QED BY <1>5, <2>1, <3>1 DEF Contiguous, Ascending
  <2>2. ASSUME NEW j \in DOMAIN rest, rest[j].scope = session
        PROVE  e.sequence < rest[j].sequence
    BY <1>2, <1>5, <1>8, <2>2 DEF Contiguous, Ascending
  <2> QED BY <2>1, <2>2 DEF Ascending, Beyond
<1>10. Covers(rest, e.sequence, cursor, session)
  <2> SUFFICES ASSUME NEW x \in e.sequence + 1 .. cursor PROVE Has(rest, x, session)
    BY DEF Covers
  <2>1. x \in e.sequence .. cursor /\ e.sequence < x /\ cursor \in Nat
    BY <1>4, Positions
  <2>2. PICK j \in DOMAIN buffer : buffer[j].scope = session /\ buffer[j].sequence = x
    BY <1>2, <2>1 DEF Contiguous, Gapless, Has
  <2>3. i < j
    <3>1. CASE j = i
      BY <2>1, <2>2, <3>1, <1>4
    <3>2. CASE j < i
      <4>1. buffer[j].sequence < e.sequence
        BY <1>2, <2>2, <3>2 DEF Contiguous, Ascending
      <4> QED BY <1>4, <2>1, <2>2, <4>1
    <3> QED BY <1>2, <3>1, <3>2
  <2> QED BY <1>7, <2>2, <2>3 DEF Has
<1>11. /\ model'.installed /\ model'.sequence = e.sequence /\ model'.cursor = e.sequence
       /\ model'.seen = <<e>>
  BY <1>1, <1>4 DEF Baseline, IInv, Copy
<1>12. \A u \in Task : Busy(task', u) => u = t
  BY <1>1 DEF Applying, Busy, IInv, Tasks, At
<1>13. Busy(task', t) /\ task'[t].batch = rest
  BY <1>1 DEF Busy, IInv, Tasks, At, rest
<1>14. Leftovers(task', model', cursor, session) /\ Level(task', model', cursor)
  BY <1>9, <1>10, <1>11, <1>12, <1>13 DEF Leftovers, Left, Level
<1>15. Past(model', session)
  <2>1. IsSequence(<<e>>) /\ \A j \in DOMAIN <<e>> : <<e>>[j] = e
    BY OneIsSequence
  <2>2. e.sequence \in 1 .. e.sequence
    BY <1>4
  <2> HIDE DEF e
  <2> QED BY <1>4, <1>11, <2>1, <2>2 DEF Past
<1>16. Guarded(task', recovery')
  BY <1>1 DEF Contiguous, Guarded, IInv, Tasks, Task, At
<1> QED BY <1>1, <1>14, <1>15, <1>16, NothingLeft DEF Contiguous, desktop, stream

\* What a task has left to apply begins with the record after the copy, or with one
\* that is none of this control session's.
LEMMA TurnContiguous ==
    ASSUME IInv, Forward, Contiguous, NEW t \in Task, ApplyBuffered(t) \/ TaskEnds(t)
    PROVE  Contiguous'
<1> DEFINE batch == task[t].batch
<1>1. /\ Busy(task, t) /\ \A u \in Task : Busy(task, u) => u = t
      /\ Left(batch, model, cursor, session)
      /\ Held(batch, log, session) /\ UpTo(batch, cursor, session)
      /\ UNCHANGED <<log, session, link, cursor, handler, buffer>>
  BY DEF ApplyBuffered, TaskEnds, Busy, Contiguous, Leftovers, IInv, Tasks, Forward, Batches,
         stream, desktop
<1>2. CASE TaskEnds(t)
  <2>1. /\ task' = [task EXCEPT ![t] = Idle] /\ model' = model /\ batch = << >>
        /\ recovery' = (recovery /\ t # "recovery")
    BY <1>2 DEF TaskEnds
  <2>2. \A u \in Task : ~Busy(task', u)
    BY <1>1, <2>1 DEF Busy, Idle, IInv, Tasks
  <2>3. model.installed => model.sequence = cursor
    <3>1. \A x : ~Has(<< >>, x, session)
      BY EmptySeq DEF Has
    <3> QED BY <1>1, <2>1, <3>1, Positions DEF Left, Covers, Forward
  <2>4. Leftovers(task', model', cursor, session) /\ Level(task', model', cursor)
    BY <2>1, <2>2, <2>3 DEF Leftovers, Level
  <2>5. Guarded(task', recovery')
    BY <2>1 DEF Contiguous, Guarded, Idle, IInv, Tasks, Task
  <2> QED BY <1>1, <2>1, <2>4, <2>5 DEF Contiguous
<1>3. CASE ApplyBuffered(t)
  <2> DEFINE e == Head(batch)
             rest == Tail(batch)
             ts == [task EXCEPT ![t].batch = Tail(@)]
  <2>1. /\ IsSequence(batch) /\ IsSequence(rest) /\ 1 \in DOMAIN batch /\ e = batch[1]
        /\ DOMAIN batch = 1 .. Len(batch) /\ Len(batch) \in Nat
        /\ \A j \in DOMAIN rest : j + 1 \in DOMAIN batch /\ rest[j] = batch[j + 1]
    BY <1>1, <1>3, TailOfSequence, SequenceBasics DEF ApplyBuffered, Held
  <2>2. \A j \in DOMAIN batch : j # 1 => j - 1 \in DOMAIN rest /\ rest[j - 1] = batch[j]
    <3>1. Len(rest) = Len(batch) - 1 /\ DOMAIN rest = 1 .. Len(rest)
      BY <1>3, <2>1, HeadTailProperties, SequenceBasics DEF IsSequence, ApplyBuffered
    <3> TAKE j \in DOMAIN batch
    <3> HAVE j # 1
    <3>2. j - 1 \in DOMAIN rest /\ (j - 1) + 1 = j
      BY <2>1, <3>1
    <3> QED BY <2>1, <3>2
  <2>3. \A j \in DOMAIN rest : j \in Nat /\ j > 0
    BY <2>1, SequenceBasics
  <2>4. /\ ApplyEnvelope(e, ts) /\ DOMAIN ts = Task
        /\ ts[t].batch = rest /\ Busy(ts, t) /\ \A u \in Task : Busy(ts, u) => u = t
        /\ Guarded(ts, recovery)
    BY <1>1, <1>3 DEF ApplyBuffered, Busy, IInv, Tasks, Contiguous, Guarded, Task
  <2> HIDE DEF e, rest, ts, batch
  <2>5. Ascending(rest, session)
    <3>1. ASSUME NEW j \in DOMAIN rest, NEW k \in DOMAIN rest, j < k,
                 rest[j].scope = session, rest[k].scope = session
          PROVE  rest[j].sequence < rest[k].sequence
      <4>1. j + 1 < k + 1
        BY <2>3, <3>1
      <4> QED BY <1>1, <2>1, <3>1, <4>1 DEF Left, Ascending
    <3> QED BY <3>1 DEF Ascending
  <2>6. ASSUME NEW m, Proceeds(m, ts), Past(m, session), Left(rest, m, cursor, session)
        PROVE  Contiguous'
    <3>1. Past(model', session)
      BY <2>6 DEF Past, Proceeds
    <3>2. /\ Busy(task', t) /\ task'[t].batch = rest
          /\ \A u \in Task : Busy(task', u) => u = t
      BY <2>4, <2>6 DEF Proceeds
    <3>3. Left(rest, model', cursor, session)
      BY <2>6 DEF Left, Proceeds
    <3>4. Leftovers(task', model', cursor, session) /\ Level(task', model', cursor)
      BY <3>2, <3>3 DEF Leftovers, Level
    <3> QED BY <1>1, <2>6, <3>1, <3>4 DEF Contiguous, Proceeds
  <2>7. CASE Takes(e) \/ (model.installed /\ e.scope = session)
    <3>1. model.installed /\ e.scope = session
      BY <2>7 DEF Takes, Accepts, InScope, InOrder, IInv, Copy
    <3>2. IsRecord(e, log, session) /\ e.sequence \in Nat
      BY <1>1, <2>1, <3>1, HeldScopes, Positions
    <3>3. e.sequence = model.sequence + 1
      <4>1. model.sequence < e.sequence /\ e.sequence <= cursor
        BY <1>1, <2>1, <3>1 DEF Left, Beyond, UpTo
      <4>2. model.sequence + 1 \in model.sequence + 1 .. cursor
        BY <3>2, <4>1, Positions
      <4>3. PICK j \in DOMAIN batch : batch[j].scope = session /\ batch[j].sequence = model.sequence + 1
        BY <1>1, <3>1, <4>2 DEF Left, Covers, Has
      <4>4. CASE j = 1
        BY <2>1, <4>3, <4>4
      <4>5. CASE j # 1
        <5>1. e.sequence < model.sequence + 1
          BY <1>1, <2>1, <3>1, <4>3, <4>5 DEF Left, Ascending
        <5> QED BY <3>2, <4>1, <5>1, Positions
      <4> QED BY <4>4, <4>5
    <3>4. Takes(e) /\ ~Duplicate(model, e)
      BY <3>1, <3>2, <3>3, NextIsTaken DEF Contiguous
    <3>5. DOMAIN After(e) = Fields /\ After(e).sequence = e.sequence
      BY AfterFields
    <3>6. Proceeds(After(e), ts)
      <4>1. CASE model' = After(e) /\ task' = ts /\ recovery' = recovery
        BY <2>4, <4>1 DEF Proceeds
      <4>2. CASE RequestRecovery(After(e), ts)
        BY <2>4, <3>5, <4>2, RequestRecoveryProceeds
      <4> QED BY <2>4, <3>4, <4>1, <4>2 DEF ApplyEnvelope
    <3>7. Past(After(e), session)
      BY <3>2, <3>3, AfterIsPast DEF Contiguous
    <3>8. Beyond(rest, e.sequence, session)
      <4> SUFFICES ASSUME NEW j \in DOMAIN rest, rest[j].scope = session
                   PROVE  e.sequence < rest[j].sequence
        BY DEF Beyond
      <4>1. 1 < j + 1
        BY <2>3
      <4> QED BY <1>1, <2>1, <3>1, <4>1 DEF Left, Ascending
    <3>9. Covers(rest, e.sequence, cursor, session)
      <4> SUFFICES ASSUME NEW x \in e.sequence + 1 .. cursor PROVE Has(rest, x, session)
        BY DEF Covers
      <4>1. x \in model.sequence + 1 .. cursor /\ x # e.sequence
        BY <3>2, <3>3, Positions
      <4>2. PICK j \in DOMAIN batch : batch[j].scope = session /\ batch[j].sequence = x
        BY <1>1, <3>1, <4>1 DEF Left, Covers, Has
      <4>3. j # 1
        BY <2>1, <4>1, <4>2
      <4> QED BY <2>2, <4>2, <4>3 DEF Has
    <3> QED BY <2>5, <2>6, <3>5, <3>6, <3>7, <3>8, <3>9 DEF Left
  <2>8. CASE ~Takes(e) /\ ~(model.installed /\ e.scope = session)
    <3>1. Proceeds(model, ts)
      BY <2>4, <2>8, UntakenProceeds
    <3>2. ASSUME model.installed
          PROVE  Beyond(rest, model.sequence, session)
                 /\ Covers(rest, model.sequence, cursor, session)
      <4>1. e.scope # session
        BY <2>8, <3>2
      <4>2. Beyond(rest, model.sequence, session)
        BY <1>1, <2>1, <3>2 DEF Left, Beyond
      <4>3. ASSUME NEW x \in model.sequence + 1 .. cursor PROVE Has(rest, x, session)
        <5>1. PICK j \in DOMAIN batch : batch[j].scope = session /\ batch[j].sequence = x
          BY <1>1, <3>2, <4>3 DEF Left, Covers, Has
        <5>2. j # 1
          BY <2>1, <4>1, <5>1
        <5> QED BY <2>2, <5>1, <5>2 DEF Has
      <4> QED BY <4>2, <4>3 DEF Covers
    <3>3. Left(rest, model, cursor, session)
      BY <2>5, <3>2 DEF Left
    <3> QED BY <2>6, <3>1, <3>3 DEF Contiguous
  <2> QED BY <2>7, <2>8
<1> QED BY <1>2, <1>3

LEMMA TaskStepContiguous ==
    ASSUME IInv, Contiguous, ~Applying,
           \/ OpenReturns \/ OpenFails \/ SelectAgain \/ ManualRefresh
           \/ OtherStarts \/ OtherEnds \/ PollTick
           \/ \E t \in Task : WaitEnds(t) \/ OperationReturns(t)
    PROVE  Contiguous'
<1>1. /\ DOMAIN model = Fields /\ DOMAIN task = Task
      /\ \A t \in Task : DOMAIN task[t] = {"pc", "command", "batch"} /\ ~Busy(task, t)
      /\ Guarded(task, recovery)
      /\ {"select", "recovery", "poll"} = Task
  BY DEF IInv, Copy, Tasks, Fields, Applying, Busy, Contiguous, Task
<1>2. CASE OtherStarts \/ OtherEnds
  BY <1>2, SameContiguous DEF OtherStarts, OtherEnds, desktop, stream
<1>3. CASE OpenFails \/ SelectAgain
  <2>1. Proceeds(model, task)
    BY <1>1, <1>3 DEF OpenFails, SelectAgain, Proceeds, Busy, Guarded, Idle, At
  <2> QED BY <1>3, <2>1, QuietContiguous DEF OpenFails, SelectAgain, desktop, stream
<1>4. CASE OpenReturns
  <2>1. Proceeds(model, task)
    <3>1. CASE busy
      BY <1>1, <1>4, <3>1 DEF OpenReturns, Proceeds, Busy, Guarded, Idle
    <3>2. CASE ~busy
      <4>1. RequestSnapshot("select", model, task) /\ recovery' = recovery
        BY <1>4, <3>2 DEF OpenReturns
      <4>2. Guarded(task', recovery')
        BY <1>1, <4>1 DEF RequestSnapshot, Guarded
      <4> QED BY <1>1, <4>1, <4>2, RequestSnapshotProceeds
    <3> QED BY <3>1, <3>2
  <2> QED BY <1>4, <2>1, QuietContiguous DEF OpenReturns, stream
<1>5. CASE ManualRefresh
  <2>1. Proceeds(model, task)
    BY <1>1, <1>5, RequestRecoveryProceeds DEF ManualRefresh
  <2> QED BY <1>5, <2>1, QuietContiguous DEF ManualRefresh, stream
<1>6. CASE PollTick
  <2>1. Guarded(task', recovery')
    BY <1>1, <1>6 DEF PollTick, Refresh, RequestSnapshot, Guarded
  <2>2. Proceeds(model, task)
    BY <1>1, <1>6, <2>1, RefreshProceeds DEF PollTick
  <2> QED BY <1>6, <2>2, QuietContiguous DEF PollTick
<1>7. ASSUME NEW t \in Task, WaitEnds(t) PROVE Contiguous'
  <2>1. Guarded(task', recovery')
    BY <1>1, <1>7 DEF WaitEnds, RequestSnapshot, Guarded
  <2>2. Proceeds(model, task)
    BY <1>1, <1>7, <2>1, RequestSnapshotProceeds DEF WaitEnds
  <2> QED BY <1>7, <2>2, QuietContiguous DEF WaitEnds, stream
<1>8. ASSUME NEW t \in Task, OperationReturns(t) PROVE Contiguous'
  <2>1. Proceeds(model, task)
    BY <1>1, <1>8 DEF OperationReturns, Proceeds, Busy, Guarded
  <2> QED BY <1>8, <2>1, QuietContiguous DEF OperationReturns, desktop, stream
<1> QED BY <1>2, <1>3, <1>4, <1>5, <1>6, <1>7, <1>8

\* The stream hands over the record after its cursor.
LEMMA StreamStepContiguous ==
    ASSUME IInv, Forward, Contiguous, Connect \/ Disconnect \/ Deliver
    PROVE  Contiguous'
<1>1. UNCHANGED <<log, session, model, buffer, task, recovery, cursor>>
  BY DEF Connect, Disconnect, Deliver, Carries, page, desktop
<1>2. Line(handler', link', cursor)
  <2>1. CASE Connect
    <3>1. handler' = handler /\ link'.next = cursor + 1 /\ ~link.up
      BY <2>1 DEF Connect, Resume
    <3> QED BY <3>1 DEF Forward, Carried, Line
  <2>2. CASE Disconnect
    <3>1. handler' = handler /\ link'.next = link.next
      BY <2>2, Positions DEF Disconnect
    <3> QED BY <3>1 DEF Contiguous, Line
  <2>3. CASE Deliver
    <3>1. /\ handler.pc = "idle" /\ handler'.pc = "decrypting"
          /\ handler'.record.cursor = link.next /\ link'.next = link.next + 1
      BY <2>3, Positions DEF Deliver, Carries, Record
    <3> QED BY <3>1, Positions DEF Contiguous, Line
  <2> QED BY <2>1, <2>2, <2>3
<1> QED BY <1>1, <1>2 DEF Contiguous

\* A record is applied to a copy that is at the cursor, or joins a buffer without gaps.
LEMMA OnRecordContiguous ==
    ASSUME IInv, Forward, Contiguous, ~Applying, OnRecord, ~RecordOverflows
    PROVE  Contiguous'
<1> DEFINE e == handler.record
<1>1. /\ handler.pc = "decrypting"
      /\ RecordBuffered \/ RecordApplied
      /\ UNCHANGED <<log, session, link>>
      /\ cursor' = e.cursor /\ handler'.pc = "idle"
  BY DEF OnRecord, RecordGarbled, RecordBuffered, RecordApplied, Commits, NoRecord, Contiguous, Line
<1>2. /\ IsRecord(e, log, session) /\ e.cursor = cursor + 1 /\ link.next = cursor + 2
      /\ e.sequence = e.cursor /\ e.scope = session /\ cursor \in Nat
  <2>1. handler.pc # "idle"
    BY <1>1
  <2>2. IsRecord(e, log, session)
    BY <2>1 DEF IInv
  <2>3. e.cursor = cursor + 1 /\ link.next = cursor + 2
    BY <2>1 DEF Contiguous, Line
  <2>4. e.cursor = e.sequence /\ e.scope = session /\ cursor \in Nat
    BY <2>1, Positions
  <2> QED BY <2>2, <2>3, <2>4
<1>3. Line(handler', link', cursor')
  BY <1>1, <1>2 DEF Line
<1>4. \A t \in Task : ~Busy(task, t)
  BY DEF Applying, Busy
<1>5. DOMAIN model = Fields /\ DOMAIN task = Task
  BY DEF IInv, Copy, Tasks, Fields
<1>6. CASE RecordBuffered
  <2>1. /\ buffer' = Append(buffer, e) /\ UNCHANGED <<model, task, recovery>> /\ ~model.installed
    BY <1>6 DEF RecordBuffered
  <2>2. /\ Len(buffer) \in Nat /\ DOMAIN buffer = 1 .. Len(buffer)
        /\ DOMAIN buffer' = 1 .. Len(buffer) + 1
        /\ \A i \in DOMAIN buffer : buffer'[i] = buffer[i]
        /\ buffer'[Len(buffer) + 1] = e
    BY <2>1, SequenceBasics, AppendToSequence DEF IInv, Held
  <2>3. \A i \in DOMAIN buffer' : (i \in DOMAIN buffer /\ buffer'[i] = buffer[i])
                                   \/ (i = Len(buffer) + 1 /\ buffer'[i] = e)
    BY <2>2
  <2>4. \A i \in DOMAIN buffer : buffer[i].scope = session =>
            buffer[i].sequence <= cursor /\ buffer[i].sequence \in Nat
    BY HeldScopes, Positions DEF Forward, UpTo, IInv
  <2> HIDE DEF e
  <2>5. Ascending(buffer', session)
    <3> SUFFICES ASSUME NEW i \in DOMAIN buffer', NEW j \in DOMAIN buffer', i < j,
                        buffer'[i].scope = session, buffer'[j].scope = session
                 PROVE  buffer'[i].sequence < buffer'[j].sequence
      BY DEF Ascending
    <3>1. i \in DOMAIN buffer /\ buffer'[i] = buffer[i]
      BY <2>2, <2>3
    <3>2. CASE j \in DOMAIN buffer
      BY <2>2, <3>1, <3>2 DEF Contiguous, Ascending
    <3>3. CASE j \notin DOMAIN buffer
      <4>1. buffer'[j] = e
        BY <2>3, <3>3
      <4> QED BY <1>2, <2>4, <3>1, <4>1
    <3> QED BY <3>2, <3>3
  <2>6. Gapless(buffer', cursor + 1, session)
    <3> SUFFICES ASSUME NEW i \in DOMAIN buffer', buffer'[i].scope = session,
                        NEW x \in buffer'[i].sequence .. cursor + 1
                 PROVE  Has(buffer', x, session)
      BY DEF Gapless
    <3>1. CASE x = cursor + 1
      BY <1>2, <2>2, <3>1 DEF Has
    <3>2. CASE x # cursor + 1
      <4>1. i \in DOMAIN buffer /\ buffer'[i] = buffer[i]
        BY <1>2, <2>3, <3>2
      <4>2. x \in buffer[i].sequence .. cursor
        BY <1>2, <2>4, <3>2, <4>1
      <4>3. Has(buffer, x, session)
        BY <4>1, <4>2 DEF Contiguous, Gapless
      <4> QED BY <2>2, <4>3 DEF Has
    <3> QED BY <3>1, <3>2
  <2>7. Leftovers(task', model', cursor', session) /\ Level(task', model', cursor')
    BY <1>4, <2>1 DEF Leftovers, Level
  <2> QED BY <1>1, <1>2, <1>3, <2>1, <2>5, <2>6, <2>7 DEF Contiguous, e
<1>7. CASE RecordApplied
  <2>1. model.installed /\ ApplyEnvelope(e, task) /\ buffer' = buffer /\ buffer = << >>
    BY <1>7 DEF RecordApplied, Forward
  <2>2. model.sequence = cursor /\ e.sequence = model.sequence + 1
    BY <1>2, <1>4, <2>1 DEF Contiguous, Level
  <2>3. Takes(e) /\ ~Duplicate(model, e)
    BY <1>2, <2>1, <2>2, NextIsTaken DEF Contiguous
  <2>4. DOMAIN After(e) = Fields /\ After(e).sequence = e.sequence
    BY AfterFields
  <2>5. Proceeds(After(e), task)
    <3>1. CASE model' = After(e) /\ task' = task /\ recovery' = recovery
      BY <3>1 DEF Proceeds, Contiguous
    <3>2. CASE RequestRecovery(After(e), task)
      BY <1>5, <2>4, <3>2, RequestRecoveryProceeds DEF Contiguous
    <3> QED BY <2>1, <2>3, <3>1, <3>2 DEF ApplyEnvelope
  <2>6. Past(model', session)
    <3>1. Past(After(e), session)
      BY <1>2, <2>2, AfterIsPast DEF Contiguous
    <3> QED BY <2>5, <3>1 DEF Past, Proceeds
  <2>7. Leftovers(task', model', cursor', session) /\ Level(task', model', cursor')
    BY <1>1, <1>2, <1>4, <2>4, <2>5 DEF Leftovers, Level, Proceeds
  <2> QED BY <1>1, <1>3, <2>1, <2>5, <2>6, <2>7, NothingLeft DEF Contiguous, Proceeds
<1> QED BY <1>1, <1>6, <1>7

LEMMA StaleContiguous ==
    ASSUME IInv, Contiguous, NEW e \in stale, StaleRecord(e) PROVE Contiguous'
<1>1. /\ UNCHANGED <<log, session, link, cursor, handler, model, task, recovery>>
      /\ buffer' = buffer \/ buffer' = Append(buffer, e)
  BY DEF StaleRecord, desktop
<1>2. e.scope # session
  BY DEF IInv, IsOld
<1>3. CASE buffer' = buffer
  BY <1>1, <1>3, SameContiguous
<1>4. CASE buffer' = Append(buffer, e)
  <2>1. /\ Len(buffer) \in Nat /\ DOMAIN buffer = 1 .. Len(buffer)
        /\ DOMAIN buffer' = 1 .. Len(buffer) + 1
        /\ \A i \in DOMAIN buffer : buffer'[i] = buffer[i]
        /\ buffer'[Len(buffer) + 1] = e
    BY <1>4, SequenceBasics, AppendToSequence DEF IInv, Held
  <2>2. \A i \in DOMAIN buffer' : buffer'[i].scope = session =>
            i \in DOMAIN buffer /\ buffer'[i] = buffer[i]
    BY <1>2, <2>1
  <2>3. Ascending(buffer', session)
    BY <2>2 DEF Contiguous, Ascending
  <2>4. Gapless(buffer', cursor, session)
    <3> SUFFICES ASSUME NEW i \in DOMAIN buffer', buffer'[i].scope = session,
                        NEW x \in buffer'[i].sequence .. cursor
                 PROVE  Has(buffer', x, session)
      BY DEF Gapless
    <3>1. Has(buffer, x, session)
      BY <2>2 DEF Contiguous, Gapless
    <3> QED BY <2>1, <3>1 DEF Has
  <2> QED BY <1>1, <2>3, <2>4 DEF Contiguous
<1> QED BY <1>1, <1>3, <1>4

-----------------------------------------------------------------------------
(* The theorem *)

LEMMA InitContiguous == Init => Contiguous
<1> SUFFICES ASSUME Init PROVE Contiguous
  OBVIOUS
<1>1. /\ \A t \in Task : ~Busy(task, t)
      /\ task["recovery"].pc = "idle"
  BY DEF Init, Idle, At, Busy, Task
<1>2. Past(model, session) /\ Sensible(log)
  BY EmptyIsSequence, EmptySeq DEF Init, Fresh, Past, Sensible
<1>3. Leftovers(task, model, cursor, session) /\ Level(task, model, cursor)
  BY <1>1 DEF Init, Fresh, Leftovers, Level
<1>4. Line(handler, link, cursor)
  BY DEF Init, NoRecord, Line
<1> QED BY <1>1, <1>2, <1>3, <1>4, NothingLeft DEF Init, Contiguous, Guarded

LEMMA StepContiguous ==
    ASSUME Faults \cap {"skip", "repeat", "garble"} = {},
           IInv, Forward, Contiguous, [Next]_vars, [~RecordOverflows]_vars
    PROVE  Contiguous'
<1>1. CASE UNCHANGED vars
  BY <1>1, SameContiguous DEF vars, desktop, page, stream
<1>2. CASE Turn
  BY <1>2, TurnContiguous DEF Turn
<1>3. CASE Next /\ ~Turn /\ ~UNCHANGED vars
  <2>1. ~Applying /\ ~RecordOverflows /\ ~DeliverGarbled /\ ~Repeat /\ ~Skip
    BY <1>3 DEF Next, DeliverGarbled, Repeat, Skip, Spend
  <2>2. ~RecoveryAwaited
    BY DEF RecoveryAwaited, Contiguous, Line
  <2>3. CASE \/ \E data \in Emits : DesktopLogs(data)
             \/ \E n \in DOMAIN commands : DesktopTakesSnapshot(n) \/ DesktopRefusesSnapshot(n)
    BY <2>3, DesktopContiguous
  <2>4. CASE \/ OpenReturns \/ OpenFails \/ SelectAgain \/ ManualRefresh
             \/ OtherStarts \/ OtherEnds \/ PollTick
             \/ \E t \in Task : WaitEnds(t) \/ OperationReturns(t)
    BY <2>1, <2>4, TaskStepContiguous
  <2>5. CASE \E t \in Task : OperationFails(t) \/ BoundaryTimesOut(t)
    BY <2>1, <2>5, FailsContiguous DEF OperationFails, BoundaryTimesOut
  <2>6. CASE \E t \in Task : Establish(t)
    BY <2>1, <2>6, EstablishContiguous
  <2>7. CASE ControlSessionCloses
    BY <2>7, RecreateContiguous DEF ControlSessionCloses
  <2>8. CASE Connect \/ Disconnect \/ Deliver
    BY <2>8, StreamStepContiguous
  <2>9. CASE OnRecord
    BY <2>1, <2>9, OnRecordContiguous
  <2>10. CASE \E e \in stale : StaleRecord(e)
    BY <2>10, StaleContiguous
  <2> QED BY <1>3, <2>1, <2>2, <2>3, <2>4, <2>5, <2>6, <2>7, <2>8, <2>9, <2>10 DEF Next
<1> QED BY <1>1, <1>2, <1>3

\* If Cloud leaves out, repeats and garbles nothing, and no record finds the buffer
\* full: however often the connection is lost, tasks overlap or fail and the control
\* session is replaced, a record that the stream will not ask for again is not missing
\* from the copy, unless a snapshot is on its way (onRecord, installSelectedSnapshot).
THEOREM NothingLostHolds ==
    ASSUME Faults \cap {"skip", "repeat", "garble"} = {}
    PROVE  Spec /\ [][~RecordOverflows]_vars => []NothingLost
<1>1. IInv /\ Contiguous => NothingLost
  <2> SUFFICES ASSUME IInv, Contiguous, model.installed, ~Applying
               PROVE  model.sequence >= cursor
    BY DEF NothingLost
  <2>1. model.sequence = cursor
    BY DEF Contiguous, Level, Busy, Applying
  <2> QED BY <2>1, Positions
<1>2. IInv /\ Forward /\ Contiguous /\ [Next]_vars /\ [~RecordOverflows]_vars
          => (IInv /\ Forward /\ Contiguous)'
  <2>1. "repeat" \notin Faults
    OBVIOUS
  <2> QED BY <2>1, StepIInv, StepForward, StepContiguous
<1>3. Init => IInv /\ Forward /\ Contiguous
  BY InitIInv, InitForward, InitContiguous
<1> QED BY <1>1, <1>2, <1>3, PTL DEF Spec
=============================================================================
