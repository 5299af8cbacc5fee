------------------------ MODULE RemoteReplicaProofs ------------------------
(***************************************************************************)
(* Proofs about RemoteReplica for every set of items, values and runs,     *)
(* every buffer limit and every number of events and interferences: what   *)
(* the page shows is a state the session was in.                           *)
(***************************************************************************)
EXTENDS RemoteReplica, SequenceLemmas

-----------------------------------------------------------------------------
(* The inductive invariant.  Its parts are operators of the values they      *)
(* constrain, so that a step that leaves a value alone leaves them alone.    *)

\* What the stream of control session n may carry when its log is l.
IsRecord(e, l, n) ==
    \E i \in DOMAIN l : e = [eventId |-> <<n, i>>, cursor |-> i, sequence |-> i,
                             scope |-> n, data |-> l[i].data]

\* A record of an earlier control session.
IsOld(e, n) == e.scope \in Nat /\ e.scope < n

Held(s, l, n) ==
    IsSequence(s) /\ \A i \in DOMAIN s : IsRecord(s[i], l, n) \/ IsOld(s[i], n)

\* Each state of the log follows from the one before it, the last is d.
Chain(l, d) ==
    /\ IsSequence(l)
    /\ \A i \in DOMAIN l : i + 1 \in DOMAIN l => l[i + 1].after = Effect(l[i].after, l[i + 1].data)
    /\ Len(l) > 0 => l[Len(l)].after = d

\* The end of a snapshot command stands where the snapshot was taken.
Marks(l, cs, n) ==
    /\ IsSequence(cs)
    /\ \A c \in DOMAIN cs : DOMAIN cs[c] = {"status", "snapshot"}
    /\ \A i \in DOMAIN l : l[i].data.type = "command.lifecycle" =>
           \E c \in DOMAIN cs :
               /\ cs[c].status # "queued"
               /\ l[i].data = [type |-> "command.lifecycle", command |-> <<n, c>>,
                               status |-> cs[c].status]
               /\ cs[c].status = "succeeded" => cs[c].snapshot = l[i].after

\* The copy is a state of the log, and an installed copy is not empty.
Copy(m, l, n) ==
    /\ DOMAIN m = {"scope", "installed", "cursor", "sequence", "seen", "content"}
    /\ m.scope = n
    /\ m.sequence \in Nat
    /\ m.installed => m.sequence > 0
    /\ m.sequence > 0 => m.sequence \in DOMAIN l /\ m.content = l[m.sequence].after

Tasks(ts, l, n) ==
    /\ DOMAIN ts = Task
    /\ \A t \in Task : DOMAIN ts[t] = {"pc", "command", "batch"} /\ Held(ts[t].batch, l, n)

\* The stream is somewhere in the log.
Position(k, c, l) ==
    DOMAIN k = {"up", "next"} /\ k.next \in 1 .. Len(l) + 1 /\ c \in 0 .. Len(l)

IInv ==
    /\ session \in Nat
    /\ Chain(log, doc)
    /\ Marks(log, commands, session)
    /\ Copy(model, log, session)
    /\ Held(buffer, log, session)
    /\ Tasks(task, log, session)
    /\ Position(link, cursor, log)
    /\ DOMAIN handler = {"pc", "record"}
    /\ handler.pc # "idle" => IsRecord(handler.record, log, session)
    /\ \A e \in stale : IsOld(e, session)

-----------------------------------------------------------------------------
(* The log grows *)

LEMMA LifecycleHasNoEffect ==
    ASSUME NEW c, NEW data, data.type = "command.lifecycle"
    PROVE  Effect(c, data) = c
BY DEF Effect

LEMMA RecordsStay ==
    ASSUME NEW l, IsSequence(l), NEW x, NEW n, NEW e, IsRecord(e, l, n)
    PROVE  IsRecord(e, Append(l, x), n)
<1>1. PICK i \in DOMAIN l : e = [eventId |-> <<n, i>>, cursor |-> i, sequence |-> i,
                                 scope |-> n, data |-> l[i].data]
  BY DEF IsRecord
<1>2. i \in DOMAIN Append(l, x) /\ Append(l, x)[i] = l[i]
  BY AppendToSequence, SequenceBasics
<1> QED BY <1>1, <1>2 DEF IsRecord

LEMMA HeldStays ==
    ASSUME NEW l, IsSequence(l), NEW x, NEW n, NEW s, Held(s, l, n)
    PROVE  Held(s, Append(l, x), n)
BY RecordsStay DEF Held

LEMMA HeldGrows ==
    ASSUME NEW s, NEW l, NEW n, Held(s, l, n), NEW e, IsRecord(e, l, n) \/ IsOld(e, n)
    PROVE  Held(Append(s, e), l, n)
<1>1. /\ IsSequence(s) /\ IsSequence(Append(s, e))
      /\ Len(s) \in Nat /\ DOMAIN s = 1 .. Len(s)
      /\ DOMAIN Append(s, e) = 1 .. Len(s) + 1
      /\ \A i \in DOMAIN s : Append(s, e)[i] = s[i]
      /\ Append(s, e)[Len(s) + 1] = e
  BY AppendToSequence, SequenceBasics DEF Held
<1>2. \A i \in DOMAIN Append(s, e) :
         (i \in DOMAIN s /\ Append(s, e)[i] = s[i]) \/ Append(s, e)[i] = e
  BY <1>1
<1> QED BY <1>1, <1>2 DEF Held

LEMMA CopyStays ==
    ASSUME NEW l, IsSequence(l), NEW x, NEW n, NEW m, Copy(m, l, n)
    PROVE  Copy(m, Append(l, x), n)
BY AppendToSequence, SequenceBasics DEF Copy

LEMMA ChainGrows ==
    ASSUME NEW l, NEW d, Chain(l, d), NEW data
    PROVE  Chain(Append(l, [data |-> data, after |-> Effect(d, data)]), Effect(d, data))
<1> DEFINE x == [data |-> data, after |-> Effect(d, data)]
           k == Append(l, x)
<1>1. /\ IsSequence(l) /\ IsSequence(k)
      /\ Len(l) \in Nat /\ DOMAIN l = 1 .. Len(l)
      /\ Len(k) = Len(l) + 1 /\ DOMAIN k = 1 .. Len(l) + 1
      /\ \A i \in DOMAIN l : k[i] = l[i]
      /\ k[Len(l) + 1] = x
  BY AppendToSequence, SequenceBasics DEF Chain
<1> HIDE DEF k
<1>2. ASSUME NEW i \in DOMAIN k, i + 1 \in DOMAIN k
      PROVE  k[i + 1].after = Effect(k[i].after, k[i + 1].data)
  <2>1. CASE i + 1 \in DOMAIN l
    BY <1>1, <1>2, <2>1 DEF Chain
  <2>2. CASE i + 1 \notin DOMAIN l
    <3>1. i = Len(l) /\ Len(l) > 0 /\ k[i] = l[i] /\ k[i + 1] = x
      BY <1>1, <1>2, <2>2
    <3> QED BY <3>1 DEF Chain
  <2> QED BY <2>1, <2>2
<1>3. k[Len(k)].after = Effect(d, data)
  BY <1>1
<1> QED BY <1>1, <1>2, <1>3 DEF Chain, k

LEMMA LogGrows ==
    ASSUME IInv, NEW data, Logs(data), UNCHANGED <<session, page, stream>>,
           Marks(log', commands', session)
    PROVE  IInv'
<1>1. /\ IsSequence(log) /\ doc' = Effect(doc, data)
      /\ log' = Append(log, [data |-> data, after |-> Effect(doc, data)])
  BY DEF IInv, Chain, Logs
<1>2. session' = session /\ model' = model /\ buffer' = buffer /\ task' = task
      /\ link' = link /\ cursor' = cursor /\ handler' = handler /\ stale' = stale
  BY DEF page, stream
<1>3. Chain(log', doc')
  BY <1>1, ChainGrows DEF IInv
<1>4. Copy(model, log', session) /\ Held(buffer, log', session)
  BY <1>1, CopyStays, HeldStays DEF IInv
<1>5. Tasks(task, log', session)
  BY <1>1, HeldStays DEF IInv, Tasks
<1>6. handler.pc # "idle" => IsRecord(handler.record, log', session)
  BY <1>1, RecordsStay DEF IInv
<1>7. Position(link, cursor, log')
  BY <1>1, AppendToSequence, SequenceBasics DEF IInv, Position
<1> QED BY <1>2, <1>3, <1>4, <1>5, <1>6, <1>7 DEF IInv

\* A command that ends logs its end at the state it saw.
LEMMA MarksGrow ==
    ASSUME NEW l, NEW cs, NEW n, IsSequence(l), Marks(l, cs, n),
           NEW c \in DOMAIN cs, cs[c].status = "queued",
           NEW status \in {"succeeded", "failed"}, NEW d,
           NEW es, IsSequence(es), DOMAIN es = DOMAIN cs,
           \A b \in DOMAIN cs : b # c => es[b] = cs[b],
           DOMAIN es[c] = {"status", "snapshot"}, es[c].status = status,
           status = "succeeded" => es[c].snapshot = d,
           NEW x, x.after = d,
           x.data = [type |-> "command.lifecycle", command |-> <<n, c>>, status |-> status]
    PROVE  Marks(Append(l, x), es, n)
<1> DEFINE k == Append(l, x)
<1>1. /\ Len(l) \in Nat /\ DOMAIN l = 1 .. Len(l) /\ DOMAIN k = 1 .. Len(l) + 1
      /\ \A i \in DOMAIN l : k[i] = l[i]
      /\ k[Len(l) + 1] = x
  BY AppendToSequence, SequenceBasics
<1> HIDE DEF k
<1>2. ASSUME NEW i \in DOMAIN k, k[i].data.type = "command.lifecycle"
      PROVE  \E b \in DOMAIN es :
               /\ es[b].status # "queued"
               /\ k[i].data = [type |-> "command.lifecycle", command |-> <<n, b>>,
                               status |-> es[b].status]
               /\ es[b].status = "succeeded" => es[b].snapshot = k[i].after
  <2>1. CASE i \in DOMAIN l
    <3>1. PICK b \in DOMAIN cs :
               /\ cs[b].status # "queued"
               /\ l[i].data = [type |-> "command.lifecycle", command |-> <<n, b>>,
                               status |-> cs[b].status]
               /\ cs[b].status = "succeeded" => cs[b].snapshot = l[i].after
      BY <1>1, <1>2, <2>1 DEF Marks
    <3>2. es[b] = cs[b] /\ k[i] = l[i]
      BY <1>1, <2>1, <3>1
    <3> QED BY <3>1, <3>2
  <2>2. CASE i \notin DOMAIN l
    <3>1. k[i] = x
      BY <1>1, <2>2
    <3> QED BY <3>1
  <2> QED BY <2>1, <2>2
<1> QED BY <1>2 DEF Marks, k

-----------------------------------------------------------------------------
(* The page takes a step: what a shared step leaves behind. *)

LEMMA NewCommand ==
    ASSUME NEW l, NEW cs, NEW n, Marks(l, cs, n)
    PROVE  Marks(l, Append(cs, [status |-> "queued", snapshot |-> Blank]), n)
<1> DEFINE x == [status |-> "queued", snapshot |-> Blank]
           es == Append(cs, x)
<1>1. /\ IsSequence(es) /\ Len(cs) \in Nat
      /\ DOMAIN cs = 1 .. Len(cs) /\ DOMAIN es = 1 .. Len(cs) + 1
      /\ \A c \in DOMAIN cs : es[c] = cs[c]
      /\ es[Len(cs) + 1] = x
  BY AppendToSequence, SequenceBasics DEF Marks
<1> HIDE DEF es
<1>2. \A c \in DOMAIN es : c \in DOMAIN cs \/ es[c] = x
  BY <1>1
<1>3. \A c \in DOMAIN es : DOMAIN es[c] = {"status", "snapshot"}
  BY <1>1, <1>2 DEF Marks
<1>4. \A c \in DOMAIN cs : c \in DOMAIN es /\ es[c] = cs[c]
  BY <1>1
<1>5. ASSUME NEW i \in DOMAIN l, l[i].data.type = "command.lifecycle"
      PROVE  \E c \in DOMAIN es :
               /\ es[c].status # "queued"
               /\ l[i].data = [type |-> "command.lifecycle", command |-> <<n, c>>,
                               status |-> es[c].status]
               /\ es[c].status = "succeeded" => es[c].snapshot = l[i].after
  <2>1. PICK c \in DOMAIN cs :
               /\ cs[c].status # "queued"
               /\ l[i].data = [type |-> "command.lifecycle", command |-> <<n, c>>,
                               status |-> cs[c].status]
               /\ cs[c].status = "succeeded" => cs[c].snapshot = l[i].after
    BY <1>5 DEF Marks
  <2> QED BY <1>4, <2>1
<1>6. Marks(l, es, n)
  BY <1>1, <1>3, <1>5 DEF Marks
<1> QED BY <1>6 DEF es

LEMMA TaskMoves ==
    ASSUME NEW ts, NEW l, NEW n, Tasks(ts, l, n), NEW t \in Task,
           NEW pc, NEW c, NEW batch, Held(batch, l, n)
    PROVE  Tasks([ts EXCEPT ![t] = At(pc, c, batch)], l, n)
BY DEF Tasks, At

LEMMA EmptyIsHeld == \A l, n : Held(<< >>, l, n)
BY EmptyIsSequence DEF Held

\* What the steps of the page do to the parts of the invariant they touch.
Sound ==
    /\ Copy(model', log, session)
    /\ Tasks(task', log, session)
    /\ Marks(log, commands', session)

LEMMA RequestSnapshotSound ==
    ASSUME Marks(log, commands, session), NEW t \in Task,
           NEW m, Copy(m, log, session), NEW ts, Tasks(ts, log, session),
           RequestSnapshot(t, m, ts)
    PROVE  Sound
<1>1. Copy(model', log, session)
  BY DEF Copy, RequestSnapshot
<1>2. Tasks(task', log, session)
  <2>1. task' = [ts EXCEPT ![t] = At("operation", Len(commands) + 1, << >>)]
    BY DEF RequestSnapshot
  <2>2. Held(<< >>, log, session)
    BY EmptyIsHeld
  <2> QED BY <2>1, <2>2, TaskMoves
<1>3. Marks(log, commands', session)
  BY NewCommand DEF RequestSnapshot
<1> QED BY <1>1, <1>2, <1>3 DEF Sound

LEMMA RefreshSound ==
    ASSUME Marks(log, commands, session), NEW t \in Task,
           NEW m, Copy(m, log, session), NEW ts, Tasks(ts, log, session),
           Refresh(t, m, ts)
    PROVE  Sound
<1>1. CASE busy
  <2>1. /\ task' = [ts EXCEPT ![t] = At("waiting", 0, << >>)]
        /\ model' = m /\ commands' = commands
    BY <1>1 DEF Refresh
  <2>2. Held(<< >>, log, session)
    BY EmptyIsHeld
  <2>3. Tasks(task', log, session)
    BY <2>1, <2>2, TaskMoves
  <2>4. Copy(model', log, session) /\ Marks(log, commands', session)
    BY <2>1
  <2> QED BY <2>3, <2>4 DEF Sound
<1>2. CASE ~busy
  BY <1>2, RequestSnapshotSound DEF Refresh
<1> QED BY <1>1, <1>2

LEMMA RequestRecoverySound ==
    ASSUME Marks(log, commands, session),
           NEW m, Copy(m, log, session), NEW ts, Tasks(ts, log, session),
           RequestRecovery(m, ts)
    PROVE  Sound
<1>1. CASE recovery
  BY <1>1 DEF RequestRecovery, Sound
<1>2. CASE ~recovery
  BY <1>2, RefreshSound DEF RequestRecovery, Task
<1> QED BY <1>1, <1>2

\* The heart of the matter: an event that is taken is the next one of the log.
LEMMA AfterIsNext ==
    ASSUME IInv, NEW e, IsRecord(e, log, session) \/ IsOld(e, session), Takes(e)
    PROVE  Copy(After(e), log, session)
<1>1. e.scope = session /\ model.installed /\ e.sequence = model.sequence + 1
  BY DEF Takes, Accepts, InScope, InOrder, IInv, Copy
<1>2. PICK i \in DOMAIN log : e = [eventId |-> <<session, i>>, cursor |-> i, sequence |-> i,
                                   scope |-> session, data |-> log[i].data]
  <2>1. ~IsOld(e, session)
    BY <1>1 DEF IsOld, IInv
  <2> QED BY <2>1 DEF IsRecord
<1>3. /\ i = model.sequence + 1 /\ model.sequence \in DOMAIN log /\ i \in Nat
      /\ model.content = log[model.sequence].after
  <2>1. /\ model.sequence \in Nat /\ model.sequence > 0
        /\ model.sequence \in DOMAIN log /\ model.content = log[model.sequence].after
    BY <1>1 DEF IInv, Copy
  <2> QED BY <1>1, <1>2, <2>1
<1>4. log[i].after = Effect(model.content, e.data)
  BY <1>2, <1>3 DEF IInv, Chain
<1> DEFINE m == After(e)
<1>5. /\ DOMAIN m = {"scope", "installed", "cursor", "sequence", "seen", "content"}
      /\ m.scope = session /\ m.sequence = i /\ m.content = Effect(model.content, e.data)
  BY <1>2 DEF After, IInv, Copy
<1> HIDE DEF m
<1>6. i > 0
  BY <1>3 DEF IInv, Copy
<1>7. Copy(m, log, session)
  BY <1>3, <1>4, <1>5, <1>6 DEF Copy
<1> QED BY <1>7 DEF m

LEMMA ApplyEnvelopeSound ==
    ASSUME IInv, NEW e, IsRecord(e, log, session) \/ IsOld(e, session),
           NEW ts, Tasks(ts, log, session), ApplyEnvelope(e, ts)
    PROVE  Sound
<1>1. Marks(log, commands, session) /\ Copy(model, log, session)
  BY DEF IInv
<1>2. CASE model' = model /\ task' = ts /\ UNCHANGED commands
  BY <1>1, <1>2 DEF Sound
<1>3. CASE Takes(e) /\ model' = After(e) /\ task' = ts /\ UNCHANGED commands
  BY <1>1, <1>3, AfterIsNext DEF Sound
<1>4. CASE Takes(e) /\ RequestRecovery(After(e), ts)
  BY <1>1, <1>4, AfterIsNext, RequestRecoverySound
<1>5. CASE RequestRecovery(model, ts)
  BY <1>1, <1>5, RequestRecoverySound
<1> QED BY <1>2, <1>3, <1>4, <1>5 DEF ApplyEnvelope

-----------------------------------------------------------------------------
(* The actions *)

LEMMA PageStep ==
    ASSUME IInv, Sound, UNCHANGED <<doc, log, session>>,
           Held(buffer', log, session), Position(link', cursor', log),
           DOMAIN handler' = {"pc", "record"},
           handler'.pc # "idle" => IsRecord(handler'.record, log, session),
           stale' \subseteq stale
    PROVE  IInv'
BY DEF IInv, Sound

\* Steps of the page that leave the stream and the buffer alone.
LEMMA QuietStep ==
    ASSUME IInv, Sound, UNCHANGED <<doc, log, session, buffer, link, cursor, handler, stale>>
    PROVE  IInv'
BY PageStep DEF IInv

LEMMA RecreateKeeps ==
    ASSUME IInv, Recreate
    PROVE  IInv'
<1>1. session \in Nat /\ session' = session + 1 /\ session' \in Nat
  BY DEF IInv, Recreate
<1>2. log' = << >> /\ commands' = << >> /\ buffer' = << >>
  BY DEF Recreate
<1>3. Chain(log', doc') /\ Held(buffer', log', session')
  BY <1>2, EmptyIsSequence DEF Chain, Held
<1>4. Marks(log', commands', session')
  BY <1>2, EmptyIsSequence DEF Marks
<1>5. Copy(model', log', session')
  BY <1>1 DEF Recreate, Fresh, Copy
<1>6. Tasks(task', log', session')
  BY EmptyIsHeld DEF Recreate, Tasks, Idle, At
<1>7. /\ DOMAIN handler' = {"pc", "record"} /\ handler'.pc = "idle"
      /\ Position(link', cursor', log')
  BY <1>2, EmptySeq DEF Recreate, NoRecord, Position
<1>8. ASSUME NEW e \in stale' PROVE IsOld(e, session')
  <2>1. CASE e \in stale
    BY <1>1, <2>1 DEF IInv, IsOld
  <2>2. CASE e \notin stale
    <3>1. handler.pc = "decrypting" /\ e = handler.record
      BY <1>8, <2>2 DEF Recreate
    <3>2. e.scope = session
      BY <3>1 DEF IInv, IsRecord
    <3> QED BY <1>1, <3>2 DEF IsOld
  <2> QED BY <2>1, <2>2
<1> QED BY <1>1, <1>3, <1>4, <1>5, <1>6, <1>7, <1>8 DEF IInv

LEMMA FailsKeeps ==
    ASSUME IInv, NEW t \in Task, Fails(t)
    PROVE  IInv'
<1>1. CASE Recreate
  BY <1>1, RecreateKeeps
<1>2. CASE /\ task' = [task EXCEPT ![t] = Idle]
           /\ UNCHANGED <<doc, log, commands, session, model, buffer, link, cursor, handler, stale>>
  <2>1. Sound
    BY <1>2, TaskMoves, EmptyIsHeld DEF IInv, Sound, Idle, At
  <2> QED BY <1>2, <2>1, QuietStep
<1> QED BY <1>1, <1>2 DEF Fails, desktop

LEMMA DesktopKeeps ==
    ASSUME IInv,
           \/ \E data \in Emits : DesktopLogs(data)
           \/ \E n \in DOMAIN commands : DesktopTakesSnapshot(n) \/ DesktopRefusesSnapshot(n)
    PROVE  IInv'
<1>1. IsSequence(log) /\ IsSequence(commands) /\ Marks(log, commands, session)
  BY DEF IInv, Chain, Marks
<1>2. CASE \E data \in Emits : DesktopLogs(data)
  <2>1. PICK data \in Emits : DesktopLogs(data)
    BY <1>2
  <2>2. data.type # "command.lifecycle"
    BY EmitsAssumption
  <2> DEFINE x == [data |-> data, after |-> Effect(doc, data)]
  <2>3. log' = Append(log, x) /\ commands' = commands
    BY <2>1 DEF DesktopLogs, Logs
  <2>4. Marks(Append(log, x), commands, session)
    <3>1. /\ Len(log) \in Nat /\ DOMAIN log = 1 .. Len(log)
          /\ DOMAIN Append(log, x) = 1 .. Len(log) + 1
          /\ \A i \in DOMAIN log : Append(log, x)[i] = log[i]
          /\ Append(log, x)[Len(log) + 1] = x
      BY <1>1, AppendToSequence, SequenceBasics
    <3>2. \A i \in DOMAIN Append(log, x) :
             Append(log, x)[i].data.type = "command.lifecycle" =>
                 i \in DOMAIN log /\ Append(log, x)[i] = log[i]
      BY <2>2, <3>1
    <3> HIDE DEF x
    <3> QED BY <1>1, <3>2 DEF Marks
  <2> QED BY <2>1, <2>3, <2>4, LogGrows DEF DesktopLogs
<1>3. CASE \E n \in DOMAIN commands : DesktopTakesSnapshot(n) \/ DesktopRefusesSnapshot(n)
  <2>1. PICK c \in DOMAIN commands : DesktopTakesSnapshot(c) \/ DesktopRefusesSnapshot(c)
    BY <1>3
  <2>2. PICK status \in {"succeeded", "failed"} :
            /\ Logs(Lifecycle(c, status))
            /\ IF status = "succeeded"
               THEN commands' = [commands EXCEPT ![c] = [status |-> "succeeded", snapshot |-> doc]]
               ELSE commands' = [commands EXCEPT ![c].status = "failed"]
    BY <2>1 DEF DesktopTakesSnapshot, DesktopRefusesSnapshot
  <2>3. /\ commands[c].status = "queued" /\ DOMAIN commands[c] = {"status", "snapshot"}
        /\ UNCHANGED <<session, page, stream>>
    BY <1>1, <2>1 DEF DesktopTakesSnapshot, DesktopRefusesSnapshot, Marks
  <2>4. /\ DOMAIN commands' = DOMAIN commands
        /\ \A b \in DOMAIN commands : b # c => commands'[b] = commands[b]
        /\ DOMAIN commands'[c] = {"status", "snapshot"}
        /\ commands'[c].status = status
        /\ status = "succeeded" => commands'[c].snapshot = doc
    BY <2>2, <2>3
  <2>5. IsSequence(commands')
    BY <1>1, <2>4, ReplacedInSequence, <2>2
  <2> DEFINE data == Lifecycle(c, status)
             x == [data |-> data, after |-> Effect(doc, data)]
  <2>6. data = [type |-> "command.lifecycle", command |-> <<session, c>>, status |-> status]
    BY DEF Lifecycle
  <2>7. Effect(doc, data) = doc
    BY <2>6, LifecycleHasNoEffect
  <2>8. log' = Append(log, x) /\ x.after = doc /\ x.data = data
    BY <2>2, <2>7 DEF Logs
  <2>9. Marks(log', commands', session)
    <3> HIDE DEF x, data
    <3> QED BY <1>1, <2>3, <2>4, <2>5, <2>6, <2>8, MarksGrow
  <2> QED BY <2>2, <2>3, <2>9, LogGrows
<1> QED BY <1>2, <1>3

LEMMA EstablishKeeps ==
    ASSUME IInv, NEW t \in Task, Establish(t)
    PROVE  IInv'
<1> DEFINE n == task[t].command
<1>1. PICK i \in DOMAIN buffer :
          /\ IsBoundary(buffer[i], n)
          /\ buffer[i].data.status = "succeeded" /\ InScope(model, buffer[i])
          /\ model' = Baseline(buffer[i], commands[n].snapshot)
          /\ task' = [task EXCEPT ![t] = At("applying", n, SubSeq(buffer, i + 1, Len(buffer)))]
          /\ buffer' = << >>
          /\ UNCHANGED <<desktop, session, stream>>
  BY DEF Establish, Boundaries, Behind
<1>2. PICK j \in DOMAIN log :
          buffer[i] = [eventId |-> <<session, j>>, cursor |-> j, sequence |-> j,
                       scope |-> session, data |-> log[j].data]
  <2>1. buffer[i].scope = session
    BY <1>1 DEF InScope, IInv, Copy
  <2>2. ~IsOld(buffer[i], session)
    BY <2>1 DEF IsOld, IInv
  <2> QED BY <2>2 DEF IInv, Held, IsRecord
<1>3. PICK c \in DOMAIN commands :
          /\ log[j].data = [type |-> "command.lifecycle", command |-> <<session, c>>,
                            status |-> commands[c].status]
          /\ commands[c].status = "succeeded" => commands[c].snapshot = log[j].after
  BY <1>1, <1>2 DEF IsBoundary, IInv, Marks
<1>4. c = n /\ commands[n].snapshot = log[j].after
  BY <1>1, <1>2, <1>3 DEF IsBoundary
<1>5. j \in Nat /\ j > 0
  BY SequenceBasics DEF IInv, Chain
<1>6. Copy(model', log, session)
  BY <1>1, <1>2, <1>4, <1>5 DEF Baseline, IInv, Copy
<1> DEFINE rest == SubSeq(buffer, i + 1, Len(buffer))
<1>7. Held(rest, log, session)
  BY EndOfSequence DEF IInv, Held
<1> HIDE DEF rest
<1>8. Tasks(task', log, session)
  BY <1>1, <1>7, TaskMoves DEF IInv, rest
<1>9. Sound
  BY <1>1, <1>6, <1>8 DEF Sound, IInv, desktop
<1> QED BY <1>1, <1>9, EmptyIsHeld, PageStep DEF desktop, stream, IInv

LEMMA TurnKeeps ==
    ASSUME IInv, NEW t \in Task, ApplyBuffered(t) \/ TaskEnds(t)
    PROVE  IInv'
<1>1. CASE ApplyBuffered(t)
  <2>1. Held(task[t].batch, log, session) /\ task[t].batch # << >>
    BY <1>1 DEF ApplyBuffered, IInv, Tasks
  <2> DEFINE e == Head(task[t].batch)
             ts == [task EXCEPT ![t].batch = Tail(@)]
  <2>2. IsRecord(e, log, session) \/ IsOld(e, session)
    BY <2>1, TailOfSequence DEF Held
  <2>3. Held(Tail(task[t].batch), log, session)
    BY <2>1, TailOfSequence DEF Held
  <2>4. Tasks(ts, log, session)
    BY <2>3 DEF IInv, Tasks
  <2>5. ApplyEnvelope(e, ts)
        /\ UNCHANGED <<doc, log, session, buffer, link, cursor, handler, stale>>
    BY <1>1 DEF ApplyBuffered, stream
  <2> HIDE DEF e, ts
  <2>6. Sound
    BY <2>2, <2>4, <2>5, ApplyEnvelopeSound
  <2> QED BY <2>5, <2>6, QuietStep
<1>2. CASE TaskEnds(t)
  <2>1. /\ task' = [task EXCEPT ![t] = Idle]
        /\ UNCHANGED <<doc, log, commands, session, model, buffer, link, cursor, handler, stale>>
    BY <1>2 DEF TaskEnds, desktop
  <2>2. Sound
    BY <2>1, TaskMoves, EmptyIsHeld DEF IInv, Sound, Idle, At
  <2> QED BY <2>1, <2>2, QuietStep
<1> QED BY <1>1, <1>2

\* Steps of the tasks, of the user and of other operations.
LEMMA TaskStepKeeps ==
    ASSUME IInv,
           \/ OpenReturns \/ OpenFails \/ SelectAgain \/ ManualRefresh
           \/ OtherStarts \/ OtherEnds \/ PollTick
           \/ \E t \in Task : WaitEnds(t) \/ OperationReturns(t)
    PROVE  IInv'
<1>1. Marks(log, commands, session) /\ Copy(model, log, session) /\ Tasks(task, log, session)
  BY DEF IInv
<1>2. \A t \in Task : \A pc, c : Tasks([task EXCEPT ![t] = At(pc, c, << >>)], log, session)
  BY <1>1, TaskMoves, EmptyIsHeld
<1>3. CASE OpenReturns
  <2>1. Sound
    <3>1. CASE busy
      BY <1>1, <1>2, <1>3, <3>1 DEF OpenReturns, Sound, Idle, At, Task
    <3>2. CASE ~busy
      BY <1>1, <1>3, <3>2, RequestSnapshotSound DEF OpenReturns, Task
    <3> QED BY <3>1, <3>2
  <2> QED BY <1>3, <2>1, EmptyIsHeld, PageStep DEF OpenReturns, stream, IInv
<1>4. CASE OpenFails \/ SelectAgain
  <2>1. \E pc : task' = [task EXCEPT !["select"] = At(pc, 0, << >>)]
    BY <1>4 DEF OpenFails, SelectAgain, Idle, At
  <2>2. Tasks(task', log, session)
    <3>1. PICK pc : task' = [task EXCEPT !["select"] = At(pc, 0, << >>)]
      BY <2>1
    <3>2. "select" \in Task
      BY DEF Task
    <3> QED BY <1>2, <3>1, <3>2
  <2>3. Sound
    BY <1>1, <1>4, <2>2 DEF OpenFails, SelectAgain, Sound, desktop
  <2> QED BY <1>4, <2>3, QuietStep DEF OpenFails, SelectAgain, desktop, stream
<1>5. CASE ManualRefresh
  <2>1. Sound
    BY <1>1, <1>5, RequestRecoverySound DEF ManualRefresh
  <2> QED BY <1>5, <2>1, QuietStep DEF ManualRefresh, stream
<1>6. CASE OtherStarts \/ OtherEnds
  <2>1. Sound
    BY <1>1, <1>6 DEF OtherStarts, OtherEnds, Sound, desktop
  <2> QED BY <1>6, <2>1, QuietStep DEF OtherStarts, OtherEnds, desktop, stream
<1>7. CASE PollTick
  <2>1. Sound
    BY <1>1, <1>7, RefreshSound DEF PollTick, Task
  <2> QED BY <1>7, <2>1, QuietStep DEF PollTick
<1>8. CASE \E t \in Task : WaitEnds(t)
  <2>1. Sound
    BY <1>1, <1>8, RequestSnapshotSound DEF WaitEnds
  <2> QED BY <1>8, <2>1, QuietStep DEF WaitEnds, stream
<1>9. CASE \E t \in Task : OperationReturns(t)
  <2>1. PICK t \in Task : OperationReturns(t)
    BY <1>9
  <2>2. Tasks(task', log, session)
    BY <1>1, <2>1 DEF OperationReturns, Tasks
  <2>3. Sound
    BY <1>1, <2>1, <2>2 DEF OperationReturns, Sound, desktop
  <2> QED BY <2>1, <2>3, QuietStep DEF OperationReturns, desktop, stream
<1> QED BY <1>3, <1>4, <1>5, <1>6, <1>7, <1>8, <1>9

\* The stream carries records of the log.
LEMMA CarriesKeeps ==
    ASSUME IInv, NEW i \in DOMAIN log, NEW pc, NEW next \in 1 .. Len(log) + 1,
           Carries(i, pc, next)
    PROVE  IInv'
<1>1. Sound /\ UNCHANGED <<doc, log, session, buffer, stale, cursor>>
  BY DEF Carries, Sound, IInv, page, desktop
<1>2. IsRecord(Record(i), log, session)
  BY DEF Record, IsRecord
<1>3. Position(link', cursor', log)
  BY <1>1 DEF Carries, Position, IInv
<1> QED BY <1>1, <1>2, <1>3, PageStep DEF Carries, IInv

LEMMA StreamStepKeeps ==
    ASSUME IInv,
           \/ Connect \/ Disconnect \/ Skip \/ RecoveryAwaited
           \/ Deliver \/ DeliverGarbled \/ Repeat
    PROVE  IInv'
<1>1. Sound /\ UNCHANGED <<doc, log, session, buffer, stale>>
  BY DEF Connect, Disconnect, Skip, RecoveryAwaited, Deliver, DeliverGarbled, Repeat, Carries,
         Sound, IInv, page, desktop
<1>2. /\ Len(log) \in Nat /\ DOMAIN log = 1 .. Len(log)
      /\ DOMAIN link = {"up", "next"} /\ link.next \in 1 .. Len(log) + 1 /\ cursor \in 0 .. Len(log)
  BY SequenceBasics DEF IInv, Chain, Position
<1>3. CASE Deliver \/ DeliverGarbled \/ Repeat
  <2>1. CASE Deliver
    <3>1. link.next \in DOMAIN log /\ link.next + 1 \in 1 .. Len(log) + 1
      BY <1>2, <2>1 DEF Deliver
    <3> QED BY <2>1, <3>1, CarriesKeeps DEF Deliver
  <2>2. CASE DeliverGarbled
    <3>1. link.next \in DOMAIN log /\ link.next + 1 \in 1 .. Len(log) + 1
      BY <1>2, <2>2 DEF DeliverGarbled
    <3> QED BY <2>2, <3>1, CarriesKeeps DEF DeliverGarbled
  <2>3. CASE Repeat
    <3>1. PICK i \in DOMAIN log : Carries(i, "decrypting", link.next)
      BY <2>3 DEF Repeat
    <3> QED BY <1>2, <3>1, CarriesKeeps
  <2> QED BY <1>3, <2>1, <2>2, <2>3
<1>4. CASE Connect \/ Disconnect \/ Skip
  <2>1. Position(link', cursor', log)
    BY <1>2, <1>4 DEF Connect, Disconnect, Skip, Position, Resume
  <2> QED BY <1>1, <1>4, <2>1, PageStep DEF Connect, Disconnect, Skip, IInv
<1>5. CASE RecoveryAwaited
  <2>1. handler.record.cursor \in DOMAIN log
    BY <1>5 DEF RecoveryAwaited, IInv, IsRecord
  <2>2. Position(link', cursor', log)
    BY <1>2, <1>5, <2>1 DEF RecoveryAwaited, Commits, Position
  <2> QED BY <1>1, <1>5, <2>2, PageStep DEF RecoveryAwaited, Commits, NoRecord, IInv
<1> QED BY <1>3, <1>4, <1>5

LEMMA OnRecordKeeps ==
    ASSUME IInv, OnRecord
    PROVE  IInv'
<1>1. /\ handler.pc # "idle" /\ IsRecord(handler.record, log, session)
      /\ DOMAIN handler = {"pc", "record"}
      /\ Marks(log, commands, session) /\ Copy(model, log, session) /\ Tasks(task, log, session)
      /\ Held(buffer, log, session)
  BY DEF IInv, OnRecord, RecordGarbled, RecordOverflows, RecordBuffered, RecordApplied
<1>2. /\ UNCHANGED <<doc, log, session, stale, link>>
      /\ Position(link, cursor, log) /\ Position(link, handler.record.cursor, log)
  <2>1. DOMAIN log = 1 .. Len(log) /\ Len(log) \in Nat
    BY SequenceBasics DEF IInv, Chain
  <2>2. handler.record.cursor \in DOMAIN log
    BY <1>1 DEF IsRecord
  <2> QED BY <2>1, <2>2 DEF OnRecord, IInv, Position
<1>3. CASE AwaitsRecovery
  <2>1. Sound
    BY <1>1, <1>3, RequestRecoverySound DEF AwaitsRecovery
  <2>2. DOMAIN handler' = {"pc", "record"} /\ handler'.record = handler.record
    BY <1>1, <1>3 DEF AwaitsRecovery
  <2> QED BY <1>1, <1>2, <1>3, <2>1, <2>2, PageStep DEF AwaitsRecovery
<1>4. CASE RecordBuffered
  <2>1. Held(buffer', log, session)
    <3>1. buffer' = Append(buffer, handler.record)
      BY <1>4 DEF RecordBuffered
    <3> QED BY <1>1, <3>1, HeldGrows
  <2>2. Sound
    BY <1>1, <1>4 DEF RecordBuffered, Sound
  <2> QED BY <1>2, <1>4, <2>1, <2>2, PageStep DEF RecordBuffered, Commits, NoRecord
<1>5. CASE RecordApplied
  <2>1. Sound
    BY <1>1, <1>5, ApplyEnvelopeSound DEF RecordApplied
  <2> QED BY <1>1, <1>2, <1>5, <2>1, PageStep DEF RecordApplied, Commits, NoRecord
<1> QED BY <1>3, <1>4, <1>5 DEF OnRecord, RecordGarbled, RecordOverflows

LEMMA StaleRecordKeeps ==
    ASSUME IInv, NEW e \in stale, StaleRecord(e)
    PROVE  IInv'
<1>1. /\ Sound /\ stale' \subseteq stale
      /\ UNCHANGED <<doc, log, session, link, cursor, handler>>
      /\ buffer' = buffer \/ buffer' = Append(buffer, e)
  BY DEF StaleRecord, Sound, IInv, desktop
<1>2. IsOld(e, session) /\ Held(buffer, log, session)
  BY DEF IInv
<1>3. Held(buffer', log, session)
  BY <1>1, <1>2, HeldGrows
<1> QED BY <1>1, <1>3, PageStep DEF IInv

-----------------------------------------------------------------------------
(* The theorem *)

LEMMA InitIInv == Init => IInv
<1> SUFFICES ASSUME Init PROVE IInv
  OBVIOUS
<1>1. Chain(log, doc) /\ Held(buffer, log, session) /\ Marks(log, commands, session)
  BY EmptyIsSequence DEF Init, Chain, Held, Marks
<1>2. Copy(model, log, session)
  BY DEF Init, Fresh, Copy
<1>3. Tasks(task, log, session)
  BY EmptyIsHeld DEF Init, Tasks, Idle, At
<1>4. Position(link, cursor, log)
  BY EmptySeq DEF Init, Position
<1> QED BY <1>1, <1>2, <1>3, <1>4 DEF Init, IInv, NoRecord

LEMMA StepIInv == IInv /\ [Next]_vars => IInv'
<1> SUFFICES ASSUME IInv, [Next]_vars PROVE IInv'
  OBVIOUS
<1>1. CASE Turn
  BY <1>1, TurnKeeps DEF Turn
<1>2. CASE \/ \E data \in Emits : DesktopLogs(data)
           \/ \E n \in DOMAIN commands : DesktopTakesSnapshot(n) \/ DesktopRefusesSnapshot(n)
  BY <1>2, DesktopKeeps
<1>3. CASE \/ OpenReturns \/ OpenFails \/ SelectAgain \/ ManualRefresh
           \/ OtherStarts \/ OtherEnds \/ PollTick
           \/ \E t \in Task : WaitEnds(t) \/ OperationReturns(t)
  BY <1>3, TaskStepKeeps
<1>4. CASE \E t \in Task : OperationFails(t) \/ BoundaryTimesOut(t)
  BY <1>4, FailsKeeps DEF OperationFails, BoundaryTimesOut
<1>5. CASE \E t \in Task : Establish(t)
  BY <1>5, EstablishKeeps
<1>6. CASE ControlSessionCloses
  BY <1>6, RecreateKeeps DEF ControlSessionCloses
<1>7. CASE \/ Connect \/ Disconnect \/ Skip \/ RecoveryAwaited
           \/ Deliver \/ DeliverGarbled \/ Repeat
  BY <1>7, StreamStepKeeps
<1>8. CASE OnRecord
  BY <1>8, OnRecordKeeps
<1>9. CASE \E e \in stale : StaleRecord(e)
  BY <1>9, StaleRecordKeeps
<1>10. CASE UNCHANGED vars
  BY <1>10, QuietStep DEF vars, desktop, page, stream, Sound, IInv
<1> QED BY <1>1, <1>2, <1>3, <1>4, <1>5, <1>6, <1>7, <1>8, <1>9, <1>10 DEF Next

\* Whatever the stream loses, repeats or garbles, however snapshots of the three
\* tasks overlap, and whatever a generation leaves behind in the next: what the
\* page shows (installSelectedSnapshot, applySelectedEnvelope) is the session as
\* it was at the event the page thinks it has reached.
THEOREM ReplicaShowsThePast == Spec => []ShowsThePast
<1>1. IInv => ShowsThePast
  BY DEF IInv, Copy, ShowsThePast
<1> QED BY <1>1, InitIInv, StepIInv, PTL DEF Spec

-----------------------------------------------------------------------------
(* The shape of the state, on top of IInv. *)

CommandStatus == {"queued", "succeeded", "failed"}
Statuses(cs) == \A n \in DOMAIN cs : cs[n].status \in CommandStatus

Remembered(m) ==
    m.installed \in BOOLEAN /\ IsSequence(m.seen) /\ Len(m.seen) <= SeenLimit

\* Each task is at a known place, with a command that has been queued.
Places(ts, cs) == \A t \in Task : ts[t].pc \in TaskPC /\ ts[t].command \in 0 .. Len(cs)

Counters(e, f, s, x) == e \in 0 .. MaxEvents /\ f \in 0 .. MaxFaults /\ s # 0 /\ x \in 0 .. MaxFailures

HandlerPC == {"idle", "decrypting", "garbled", "awaiting"}

Shape ==
    /\ Counters(emitted, faults, session, failures)
    /\ {open, busy, other, recovery} \subseteq BOOLEAN
    /\ Statuses(commands)
    /\ Remembered(model)
    /\ IsSequence(buffer) /\ Len(buffer) <= BufferLimit
    /\ Places(task, commands)
    /\ poll \in {"off", "armed", "running"} /\ handler.pc \in HandlerPC

\* What a step of the page does to the parts of the shape it touches.
Shaped ==
    /\ busy' \in BOOLEAN /\ recovery' \in BOOLEAN
    /\ Statuses(commands') /\ Remembered(model') /\ Places(task', commands')

LEMMA ShapeBasics ==
    ASSUME IInv, Shape
    PROVE  /\ session \in Nat /\ faults \in Nat /\ emitted \in Nat /\ failures \in Nat
           /\ IsSequence(commands) /\ Len(commands) \in Nat /\ DOMAIN commands = 1 .. Len(commands)
           /\ \A n \in DOMAIN commands : DOMAIN commands[n] = {"status", "snapshot"}
           /\ DOMAIN task = Task /\ \A t \in Task : DOMAIN task[t] = {"pc", "command", "batch"}
           /\ DOMAIN model = {"scope", "installed", "cursor", "sequence", "seen", "content"}
           /\ DOMAIN handler = {"pc", "record"}
           /\ Statuses(commands) /\ Remembered(model) /\ Places(task, commands)
           /\ open \in BOOLEAN /\ busy \in BOOLEAN /\ other \in BOOLEAN /\ recovery \in BOOLEAN
<1>1. Len(commands) \in Nat /\ DOMAIN commands = 1 .. Len(commands)
  BY SequenceBasics DEF IInv, Marks
<1> QED BY <1>1, ReplicaAssumption DEF IInv, Shape, Counters, Marks, Tasks, Copy

\* What is remembered stays within the limit.
LEMMA RememberBounded ==
    ASSUME NEW s, IsSequence(s), Len(s) <= SeenLimit, NEW e
    PROVE  IsSequence(Remember(s, e)) /\ Len(Remember(s, e)) <= SeenLimit
<1> DEFINE longer == Append(s, e)
<1>1. IsSequence(longer) /\ Len(longer) = Len(s) + 1 /\ Len(s) \in Nat /\ SeenLimit \in Nat
  BY AppendToSequence, SequenceBasics, SeenLimitAssumption
<1> HIDE DEF longer
<1>2. longer # << >> /\ Len(Tail(longer)) = Len(longer) - 1 /\ IsSequence(Tail(longer))
  <2>1. longer # << >>
    BY <1>1
  <2>2. longer \in Seq({longer[i] : i \in DOMAIN longer})
    BY <1>1 DEF IsSequence
  <2>3. Len(Tail(longer)) = Len(longer) - 1
    BY <2>1, <2>2, HeadTailProperties
  <2> QED BY <1>1, <2>1, <2>3, TailOfSequence
<1> QED BY <1>1, <1>2 DEF Remember, longer

LEMMA PlaceMoves ==
    ASSUME NEW ts, DOMAIN ts = Task, NEW cs, Places(ts, cs), NEW t \in Task,
           NEW pc \in TaskPC, NEW c \in 0 .. Len(cs), NEW batch
    PROVE  Places([ts EXCEPT ![t] = At(pc, c, batch)], cs)
BY DEF Places, At

LEMMA RequestSnapshotShaped ==
    ASSUME IInv, Shape, NEW t \in Task, NEW m, Remembered(m), DOMAIN m = DOMAIN model,
           NEW ts, DOMAIN ts = Task, Places(ts, commands), RequestSnapshot(t, m, ts)
    PROVE  /\ busy' \in BOOLEAN
           /\ Statuses(commands') /\ Remembered(model') /\ Places(task', commands')
<1>1. /\ IsSequence(commands) /\ Len(commands) \in Nat /\ DOMAIN commands = 1 .. Len(commands)
      /\ DOMAIN model = {"scope", "installed", "cursor", "sequence", "seen", "content"}
  BY ShapeBasics
<1>2. /\ Len(commands') = Len(commands) + 1 /\ DOMAIN commands' = 1 .. Len(commands) + 1
      /\ \A i \in DOMAIN commands : commands'[i] = commands[i]
      /\ commands'[Len(commands) + 1] = [status |-> "queued", snapshot |-> Blank]
  BY <1>1, AppendToSequence DEF RequestSnapshot
<1>3. Statuses(commands')
  <2>1. \A n \in DOMAIN commands' : n \in DOMAIN commands \/ n = Len(commands) + 1
    BY <1>1, <1>2
  <2> QED BY <1>2, <2>1 DEF Shape, Statuses, CommandStatus
<1>4. Remembered(model')
  BY <1>1 DEF RequestSnapshot, Remembered
<1>5. Places(ts, commands')
  BY <1>1, <1>2 DEF Places
<1>6. Places(task', commands')
  <2>1. task' = [ts EXCEPT ![t] = At("operation", Len(commands) + 1, << >>)]
    BY DEF RequestSnapshot
  <2>2. "operation" \in TaskPC /\ Len(commands) + 1 \in 0 .. Len(commands')
    BY <1>1, <1>2 DEF TaskPC
  <2> QED BY <1>5, <2>1, <2>2, PlaceMoves
<1> QED BY <1>3, <1>4, <1>6 DEF RequestSnapshot

LEMMA RefreshShaped ==
    ASSUME IInv, Shape, NEW t \in Task, NEW m, Remembered(m), DOMAIN m = DOMAIN model,
           NEW ts, DOMAIN ts = Task, Places(ts, commands), Refresh(t, m, ts)
    PROVE  /\ busy' \in BOOLEAN
           /\ Statuses(commands') /\ Remembered(model') /\ Places(task', commands')
<1>1. CASE busy
  <2>1. "waiting" \in TaskPC /\ 0 \in 0 .. Len(commands)
    BY ShapeBasics DEF TaskPC
  <2> QED BY <1>1, <2>1, PlaceMoves, ShapeBasics DEF Refresh
<1>2. CASE ~busy
  BY <1>2, RequestSnapshotShaped DEF Refresh
<1> QED BY <1>1, <1>2

LEMMA RequestRecoveryShaped ==
    ASSUME IInv, Shape, NEW m, Remembered(m), DOMAIN m = DOMAIN model,
           NEW ts, DOMAIN ts = Task, Places(ts, commands), RequestRecovery(m, ts)
    PROVE  Shaped
<1>1. CASE recovery
  BY <1>1, ShapeBasics DEF RequestRecovery, Shaped
<1>2. CASE ~recovery
  BY <1>2, RefreshShaped DEF RequestRecovery, Shaped, Task
<1> QED BY <1>1, <1>2

LEMMA ApplyEnvelopeShaped ==
    ASSUME IInv, Shape, NEW e, NEW ts, DOMAIN ts = Task, Places(ts, commands),
           ApplyEnvelope(e, ts)
    PROVE  Shaped
<1>1. Statuses(commands) /\ busy \in BOOLEAN /\ recovery \in BOOLEAN /\ Remembered(model)
      /\ DOMAIN model = {"scope", "installed", "cursor", "sequence", "seen", "content"}
  BY ShapeBasics
<1>2. Remembered(After(e)) /\ DOMAIN After(e) = DOMAIN model
  BY <1>1, RememberBounded DEF After, Remembered
<1>3. CASE /\ model' = model \/ model' = After(e)
           /\ task' = ts /\ UNCHANGED <<busy, commands, recovery>>
  BY <1>1, <1>2, <1>3 DEF Shaped
<1>4. CASE RequestRecovery(After(e), ts) \/ RequestRecovery(model, ts)
  BY <1>1, <1>2, <1>4, RequestRecoveryShaped
<1> QED BY <1>3, <1>4 DEF ApplyEnvelope

LEMMA RecreateShape ==
    ASSUME IInv, Shape, Recreate, faults' \in 0 .. MaxFaults, busy' \in BOOLEAN
    PROVE  Shape'
<1>1. session' # 0 /\ 0 \in 0 .. MaxFailures /\ SeenLimit \in Nat /\ BufferLimit \in Nat
  BY ShapeBasics, ReplicaAssumption, SeenLimitAssumption DEF Recreate
<1>2. Counters(emitted', faults', session', failures')
  BY <1>1 DEF Recreate, Shape, Counters
<1>3. Statuses(commands')
  BY EmptySeq DEF Recreate, Statuses
<1>4. Remembered(model')
  BY <1>1, EmptyIsSequence, EmptySeq DEF Recreate, Fresh, Remembered
<1>5. Places(task', commands')
  BY EmptySeq DEF Recreate, Places, Idle, At, TaskPC
<1>6. IsSequence(buffer') /\ Len(buffer') <= BufferLimit
  BY <1>1, EmptyIsSequence, EmptySeq DEF Recreate
<1>7. {open', busy', other', recovery'} \subseteq BOOLEAN
      /\ poll' = "off" /\ handler'.pc = "idle"
  BY DEF Recreate, NoRecord
<1> QED BY <1>2, <1>3, <1>4, <1>5, <1>6, <1>7 DEF Shape, HandlerPC

LEMMA FailsShape ==
    ASSUME IInv, Shape, NEW t \in Task, Fails(t), faults' \in 0 .. MaxFaults, busy' \in BOOLEAN
    PROVE  Shape'
<1>1. CASE Recreate
  BY <1>1, RecreateShape
<1>2. CASE /\ task' = [task EXCEPT ![t] = Idle]
           /\ poll' = IF t = "poll" THEN "armed" ELSE poll
           /\ UNCHANGED <<desktop, session, open, other, model, buffer, recovery,
                          link, cursor, failures, handler, stale>>
  <2>1. "idle" \in TaskPC /\ 0 \in 0 .. Len(commands)
    BY ShapeBasics DEF TaskPC
  <2>2. Places(task', commands')
    BY <1>2, <2>1, PlaceMoves, ShapeBasics DEF Idle, At, desktop
  <2>3. {open', busy', other', recovery'} \subseteq BOOLEAN
    BY <1>2, ShapeBasics
  <2>4. poll' \in {"off", "armed", "running"}
    BY <1>2 DEF Shape
  <2> QED BY <1>2, <2>2, <2>3, <2>4 DEF Shape, desktop, Counters
<1> QED BY <1>1, <1>2 DEF Fails

\* Steps that leave the shape of the page to Shaped.
LEMMA ShapedStep ==
    ASSUME IInv, Shape, Shaped, UNCHANGED <<emitted, session>>,
           faults' \in 0 .. MaxFaults, failures' \in 0 .. MaxFailures,
           open' \in BOOLEAN, other' \in BOOLEAN,
           IsSequence(buffer'), Len(buffer') <= BufferLimit,
           poll' \in {"off", "armed", "running"}, handler'.pc \in HandlerPC
    PROVE  Shape'
<1>1. {open', busy', other', recovery'} \subseteq BOOLEAN
  BY DEF Shaped
<1>2. Counters(emitted', faults', session', failures')
  BY DEF Shape, Counters
<1> QED BY <1>1, <1>2 DEF Shape, Shaped

LEMMA SpendInRange ==
    ASSUME Shape
    PROVE  /\ faults \in 0 .. MaxFaults /\ failures \in 0 .. MaxFailures
           /\ \A f : Spend(f) => faults' \in 0 .. MaxFaults
           /\ UNCHANGED faults => faults' \in 0 .. MaxFaults
BY ReplicaAssumption DEF Shape, Counters, Spend

LEMMA DesktopShape ==
    ASSUME IInv, Shape,
           \/ \E data \in Emits : DesktopLogs(data)
           \/ \E n \in DOMAIN commands : DesktopTakesSnapshot(n) \/ DesktopRefusesSnapshot(n)
    PROVE  Shape'
<1>1. CASE \E data \in Emits : DesktopLogs(data)
  <2>1. emitted' \in 0 .. MaxEvents
    BY <1>1, ReplicaAssumption DEF DesktopLogs, Shape, Counters
  <2> QED BY <1>1, <2>1 DEF DesktopLogs, page, stream, Shape, Counters
<1>2. CASE \E n \in DOMAIN commands : DesktopTakesSnapshot(n) \/ DesktopRefusesSnapshot(n)
  <2>1. PICK n \in DOMAIN commands : DesktopTakesSnapshot(n) \/ DesktopRefusesSnapshot(n)
    BY <1>2
  <2>2. /\ UNCHANGED <<emitted, session, page, stream>> /\ faults' \in 0 .. MaxFaults
    BY <2>1, SpendInRange DEF DesktopTakesSnapshot, DesktopRefusesSnapshot
  <2>3. /\ DOMAIN commands' = DOMAIN commands
        /\ commands' = [commands EXCEPT ![n] = commands'[n]]
        /\ commands'[n].status \in CommandStatus
    BY <2>1, ShapeBasics DEF DesktopTakesSnapshot, DesktopRefusesSnapshot, CommandStatus
  <2>4. Statuses(commands')
    BY <2>3, ShapeBasics DEF Statuses
  <2>5. Len(commands') = Len(commands)
    <3>1. IsSequence(commands')
      <4>1. commands' = [i \in DOMAIN commands' |-> commands'[i]]
        BY <2>3
      <4> QED BY <2>3, <4>1, ReplacedInSequence, ShapeBasics
    <3>2. Len(commands') \in Nat /\ DOMAIN commands' = 1 .. Len(commands')
      BY <3>1, SequenceBasics
    <3> QED BY <2>3, <3>2, ShapeBasics
  <2> QED BY <2>2, <2>4, <2>5 DEF Shape, page, stream, Counters, Places
<1> QED BY <1>1, <1>2

LEMMA TaskStepShape ==
    ASSUME IInv, Shape,
           \/ OpenReturns \/ OpenFails \/ SelectAgain \/ ManualRefresh
           \/ OtherStarts \/ OtherEnds \/ PollTick
           \/ \E t \in Task : WaitEnds(t) \/ OperationReturns(t)
    PROVE  Shape'
<1>1. /\ Statuses(commands) /\ Remembered(model) /\ Places(task, commands) /\ DOMAIN task = Task
      /\ IsSequence(buffer) /\ Len(buffer) <= BufferLimit
      /\ busy \in BOOLEAN /\ recovery \in BOOLEAN /\ open \in BOOLEAN /\ other \in BOOLEAN
      /\ poll \in {"off", "armed", "running"} /\ handler.pc \in HandlerPC
      /\ "select" \in Task /\ "poll" \in Task /\ failures \in 0 .. MaxFailures
  BY ShapeBasics DEF Shape, Task, Counters
<1>2. /\ faults \in 0 .. MaxFaults
      /\ \A f : Spend(f) => faults' \in 0 .. MaxFaults
      /\ IsSequence(<< >>) /\ Len(<< >>) <= BufferLimit
  BY SpendInRange, EmptyIsSequence, EmptySeq, ReplicaAssumption
<1>3. ASSUME NEW t \in Task, NEW pc \in TaskPC
      PROVE  Places([task EXCEPT ![t] = At(pc, 0, << >>)], commands)
  <2>1. 0 \in 0 .. Len(commands)
    BY ShapeBasics
  <2> QED BY <1>1, <2>1, PlaceMoves
<1>4. CASE OpenReturns
  <2>1. Shaped
    <3>1. CASE busy
      BY <1>1, <1>3, <1>4, <3>1 DEF OpenReturns, Shaped, Idle, At, TaskPC
    <3>2. CASE ~busy
      BY <1>1, <1>4, <3>2, RequestSnapshotShaped DEF OpenReturns, Shaped
    <3> QED BY <3>1, <3>2
  <2> QED BY <1>1, <1>2, <1>4, <2>1, ShapedStep DEF OpenReturns, stream
<1>5. CASE OpenFails \/ SelectAgain
  <2>1. PICK pc \in {"idle", "opening"} : task' = [task EXCEPT !["select"] = At(pc, 0, << >>)]
    BY <1>5 DEF OpenFails, SelectAgain, Idle, At
  <2>2. Places(task', commands)
    BY <1>1, <1>3, <2>1 DEF TaskPC
  <2>3. Shaped /\ faults' \in 0 .. MaxFaults
    BY <1>1, <1>2, <1>5, <2>2 DEF OpenFails, SelectAgain, Shaped, desktop
  <2> QED BY <1>1, <1>5, <2>3, ShapedStep DEF OpenFails, SelectAgain, desktop, stream
<1>6. CASE ManualRefresh
  <2>1. Shaped
    BY <1>1, <1>6, RequestRecoveryShaped DEF ManualRefresh
  <2> QED BY <1>1, <1>2, <1>6, <2>1, ShapedStep DEF ManualRefresh, stream
<1>7. CASE OtherStarts \/ OtherEnds
  <2>1. Shaped /\ faults' \in 0 .. MaxFaults /\ other' \in BOOLEAN
    BY <1>1, <1>2, <1>7 DEF OtherStarts, OtherEnds, Shaped, desktop
  <2> QED BY <1>1, <1>7, <2>1, ShapedStep DEF OtherStarts, OtherEnds, desktop, stream
<1>8. CASE PollTick
  <2>1. Shaped
    BY <1>1, <1>8, RefreshShaped DEF PollTick, Shaped
  <2> QED BY <1>1, <1>2, <1>8, <2>1, ShapedStep DEF PollTick
<1>9. CASE \E t \in Task : WaitEnds(t)
  <2>1. Shaped
    BY <1>1, <1>9, RequestSnapshotShaped DEF WaitEnds, Shaped
  <2> QED BY <1>1, <1>2, <1>9, <2>1, ShapedStep DEF WaitEnds, stream
<1>10. CASE \E t \in Task : OperationReturns(t)
  <2>1. PICK t \in Task : OperationReturns(t)
    BY <1>10
  <2>2. Places(task', commands)
    BY <1>1, <2>1, ShapeBasics DEF OperationReturns, Places, TaskPC
  <2>3. Shaped
    BY <1>1, <2>1, <2>2 DEF OperationReturns, Shaped, desktop
  <2> QED BY <1>1, <1>2, <2>1, <2>3, ShapedStep DEF OperationReturns, desktop, stream
<1> QED BY <1>4, <1>5, <1>6, <1>7, <1>8, <1>9, <1>10

LEMMA TurnShape ==
    ASSUME IInv, Shape, Turn \/ \E t \in Task : Establish(t)
    PROVE  Shape'
<1>1. /\ Statuses(commands) /\ Remembered(model) /\ Places(task, commands) /\ DOMAIN task = Task
      /\ \A t \in Task : DOMAIN task[t] = {"pc", "command", "batch"}
      /\ DOMAIN model = {"scope", "installed", "cursor", "sequence", "seen", "content"}
      /\ IsSequence(buffer) /\ Len(buffer) <= BufferLimit
      /\ busy \in BOOLEAN /\ recovery \in BOOLEAN /\ open \in BOOLEAN /\ other \in BOOLEAN
      /\ poll \in {"off", "armed", "running"} /\ handler.pc \in HandlerPC
      /\ faults \in 0 .. MaxFaults /\ failures \in 0 .. MaxFailures
      /\ "idle" \in TaskPC /\ "applying" \in TaskPC /\ 0 \in 0 .. Len(commands)
  BY ShapeBasics, SpendInRange DEF Shape, TaskPC
<1>2. ASSUME NEW t \in Task, ApplyBuffered(t) PROVE Shape'
  <2> DEFINE ts == [task EXCEPT ![t].batch = Tail(@)]
  <2>1. DOMAIN ts = Task /\ Places(ts, commands)
    BY <1>1 DEF Places
  <2>2. ApplyEnvelope(Head(task[t].batch), ts)
    BY <1>2 DEF ApplyBuffered
  <2> HIDE DEF ts
  <2>3. Shaped
    BY <2>1, <2>2, ApplyEnvelopeShaped
  <2> QED BY <1>1, <1>2, <2>3, ShapedStep DEF ApplyBuffered, stream
<1>3. ASSUME NEW t \in Task, TaskEnds(t) PROVE Shape'
  <2>1. task' = [task EXCEPT ![t] = At("idle", 0, << >>)]
        /\ recovery' \in BOOLEAN /\ poll' \in {"off", "armed", "running"}
    BY <1>1, <1>3 DEF TaskEnds, Idle, At
  <2>2. Places(task', commands)
    BY <1>1, <2>1, PlaceMoves
  <2>3. Shaped
    BY <1>1, <1>3, <2>1, <2>2 DEF TaskEnds, Shaped, desktop
  <2> QED BY <1>1, <1>3, <2>1, <2>3, ShapedStep DEF TaskEnds, desktop
<1>4. ASSUME NEW t \in Task, Establish(t) PROVE Shape'
  <2>1. PICK i \in DOMAIN buffer :
           /\ model' = Baseline(buffer[i], commands[task[t].command].snapshot)
           /\ task' = [task EXCEPT ![t] = At("applying", task[t].command, Behind(i))]
           /\ buffer' = << >>
           /\ UNCHANGED <<desktop, faults, session, open, busy, other, recovery, stream>>
    BY <1>4 DEF Establish, Boundaries
  <2>2. Remembered(model')
    <3>1. <<buffer[i]>> \in Seq({buffer[i]}) /\ Len(<<buffer[i]>>) = 1
      OBVIOUS
    <3>2. IsSequence(<<buffer[i]>>)
      BY <3>1, MembersMakeSequence
    <3> QED BY <1>1, <2>1, <3>1, <3>2, SeenLimitAssumption DEF Baseline, Remembered
  <2>3. Places(task', commands)
    BY <1>1, <2>1, PlaceMoves DEF Places
  <2>4. Shaped /\ IsSequence(buffer') /\ Len(buffer') <= BufferLimit
    BY <1>1, <2>1, <2>2, <2>3, EmptyIsSequence, EmptySeq, ReplicaAssumption DEF Shaped, desktop
  <2> QED BY <1>1, <2>1, <2>4, ShapedStep DEF desktop, stream
<1> QED BY <1>2, <1>3, <1>4 DEF Turn

LEMMA StreamStepShape ==
    ASSUME IInv, Shape,
           \/ Connect \/ Disconnect \/ Skip \/ RecoveryAwaited
           \/ Deliver \/ DeliverGarbled \/ Repeat
    PROVE  Shape'
<1>1. /\ Shape /\ faults \in 0 .. MaxFaults /\ failures \in 0 .. MaxFailures
      /\ poll \in {"off", "armed", "running"} /\ handler.pc \in HandlerPC
      /\ \A f : Spend(f) => faults' \in 0 .. MaxFaults
      /\ MaxFailures \in Nat
      /\ DOMAIN handler = {"pc", "record"}
  BY SpendInRange, ShapeBasics, ReplicaAssumption DEF Shape
<1>2. UNCHANGED <<desktop, session, page>>
  BY DEF Connect, Disconnect, Skip, RecoveryAwaited, Deliver, DeliverGarbled, Repeat, Carries
<1>3. /\ faults' \in 0 .. MaxFaults /\ failures' \in 0 .. MaxFailures
      /\ poll' \in {"off", "armed", "running"}
  BY <1>1 DEF Connect, Disconnect, Skip, RecoveryAwaited, Deliver, DeliverGarbled, Repeat, Carries,
              SchedulePoll
<1>4. handler'.pc \in HandlerPC
  BY <1>1 DEF Connect, Disconnect, Skip, RecoveryAwaited, Deliver, DeliverGarbled, Repeat, Carries,
              Commits, NoRecord, HandlerPC
<1> QED BY <1>2, <1>3, <1>4 DEF Shape, Counters, desktop, page

LEMMA AppendToBuffer ==
    ASSUME Shape, NEW e, ~Full
    PROVE  IsSequence(Append(buffer, e)) /\ Len(Append(buffer, e)) <= BufferLimit
BY AppendToSequence, SequenceBasics, ReplicaAssumption DEF Shape, Full

LEMMA OnRecordShape ==
    ASSUME IInv, Shape, OnRecord \/ \E e \in stale : StaleRecord(e)
    PROVE  Shape'
<1>1. /\ Statuses(commands) /\ Remembered(model) /\ Places(task, commands) /\ DOMAIN task = Task
      /\ DOMAIN model = {"scope", "installed", "cursor", "sequence", "seen", "content"}
      /\ IsSequence(buffer) /\ Len(buffer) <= BufferLimit
      /\ busy \in BOOLEAN /\ recovery \in BOOLEAN /\ open \in BOOLEAN /\ other \in BOOLEAN
      /\ poll \in {"off", "armed", "running"} /\ handler.pc \in HandlerPC
      /\ faults \in 0 .. MaxFaults /\ failures \in 0 .. MaxFailures
      /\ DOMAIN handler = {"pc", "record"} /\ "awaiting" \in HandlerPC /\ "idle" \in HandlerPC
  BY ShapeBasics, SpendInRange DEF Shape, HandlerPC
<1>2. CASE OnRecord
  <2>1. Shaped
    <3>1. CASE AwaitsRecovery
      BY <1>1, <3>1, RequestRecoveryShaped DEF AwaitsRecovery
    <3>2. CASE RecordBuffered
      BY <1>1, <3>2 DEF RecordBuffered, Shaped
    <3>3. CASE RecordApplied
      BY <1>1, <3>3, ApplyEnvelopeShaped DEF RecordApplied
    <3> QED BY <1>2, <3>1, <3>2, <3>3 DEF OnRecord, RecordGarbled, RecordOverflows
  <2>2. IsSequence(buffer') /\ Len(buffer') <= BufferLimit
    BY <1>1, <1>2, AppendToBuffer
    DEF OnRecord, RecordGarbled, RecordOverflows, RecordBuffered, RecordApplied, AwaitsRecovery
  <2>3. handler'.pc \in HandlerPC
    BY <1>1, <1>2
    DEF OnRecord, RecordGarbled, RecordOverflows, RecordBuffered, RecordApplied, AwaitsRecovery,
        Commits, NoRecord
  <2> QED BY <1>1, <1>2, <2>1, <2>2, <2>3, ShapedStep DEF OnRecord
<1>3. CASE \E e \in stale : StaleRecord(e)
  <2>1. PICK e \in stale : StaleRecord(e)
    BY <1>3
  <2>2. Shaped
    BY <1>1, <2>1 DEF StaleRecord, Shaped, desktop
  <2>3. IsSequence(buffer') /\ Len(buffer') <= BufferLimit
    BY <1>1, <2>1, AppendToBuffer DEF StaleRecord
  <2> QED BY <1>1, <2>1, <2>2, <2>3, ShapedStep DEF StaleRecord, desktop
<1> QED BY <1>2, <1>3

LEMMA InitShape == Init => Shape
<1> SUFFICES ASSUME Init PROVE Shape
  OBVIOUS
<1>1. Counters(emitted, faults, session, failures)
  BY ReplicaAssumption DEF Init, Counters
<1>2. Statuses(commands) /\ Remembered(model) /\ Places(task, commands)
  BY EmptyIsSequence, EmptySeq, SeenLimitAssumption
  DEF Init, Statuses, Remembered, Fresh, Places, At, Idle, TaskPC
<1>3. IsSequence(buffer) /\ Len(buffer) <= BufferLimit
  BY EmptyIsSequence, EmptySeq, ReplicaAssumption DEF Init
<1>4. handler.pc \in HandlerPC
  BY DEF Init, NoRecord, HandlerPC
<1> QED BY <1>1, <1>2, <1>3, <1>4 DEF Init, Shape

LEMMA StepShape == IInv /\ Shape /\ [Next]_vars => Shape'
<1> SUFFICES ASSUME IInv, Shape, [Next]_vars PROVE Shape'
  OBVIOUS
<1>1. CASE Turn \/ \E t \in Task : Establish(t)
  BY <1>1, TurnShape
<1>2. CASE \/ \E data \in Emits : DesktopLogs(data)
           \/ \E n \in DOMAIN commands : DesktopTakesSnapshot(n) \/ DesktopRefusesSnapshot(n)
  BY <1>2, DesktopShape
<1>3. CASE \/ OpenReturns \/ OpenFails \/ SelectAgain \/ ManualRefresh
           \/ OtherStarts \/ OtherEnds \/ PollTick
           \/ \E t \in Task : WaitEnds(t) \/ OperationReturns(t)
  BY <1>3, TaskStepShape
<1>4. CASE \E t \in Task : OperationFails(t) \/ BoundaryTimesOut(t)
  <2>1. PICK t \in Task : OperationFails(t) \/ BoundaryTimesOut(t)
    BY <1>4
  <2>2. Fails(t) /\ faults' \in 0 .. MaxFaults /\ busy' \in BOOLEAN
    BY <2>1, SpendInRange, ShapeBasics DEF OperationFails, BoundaryTimesOut
  <2> QED BY <2>2, FailsShape
<1>5. CASE ControlSessionCloses
  BY <1>5, RecreateShape, SpendInRange, ShapeBasics DEF ControlSessionCloses
<1>6. CASE \/ Connect \/ Disconnect \/ Skip \/ RecoveryAwaited
           \/ Deliver \/ DeliverGarbled \/ Repeat
  BY <1>6, StreamStepShape
<1>7. CASE OnRecord \/ \E e \in stale : StaleRecord(e)
  BY <1>7, OnRecordShape
<1>8. CASE UNCHANGED vars
  BY <1>8 DEF vars, desktop, page, stream, Shape, Counters
<1> QED BY <1>1, <1>2, <1>3, <1>4, <1>5, <1>6, <1>7, <1>8 DEF Next

\* The copy, the buffer and the stream stay within their limits: the buffer holds
\* no more than 1000 records (onSelectedRecord), 2048 envelopes are remembered
\* (remember), a task waits only for a command that was queued.
THEOREM ReplicaTypeOK == Spec => []TypeOK
<1>1. IInv /\ Shape => TypeOK
  <2> SUFFICES ASSUME IInv, Shape PROVE TypeOK
    OBVIOUS
  <2>1. Len(log) \in Nat /\ DOMAIN log = 1 .. Len(log)
    BY SequenceBasics DEF IInv, Chain
  <2>2. model.sequence \in 0 .. Len(log) /\ model.scope = session
    BY <2>1 DEF IInv, Copy
  <2>3. session \in Nat \ {0}
    BY DEF IInv, Shape, Counters
  <2>4. cursor \in 0 .. Len(log) /\ link.next \in 1 .. Len(log) + 1
    BY DEF IInv, Position
  <2> QED BY <2>2, <2>3, <2>4 DEF TypeOK, Shape, Statuses, CommandStatus, Remembered,
                                  Places, Counters, HandlerPC
<1> QED BY <1>1, InitIInv, StepIInv, InitShape, StepShape, PTL DEF Spec
=============================================================================
