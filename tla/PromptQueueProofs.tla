-------------------------- MODULE PromptQueueProofs --------------------------
(***************************************************************************)
(* What holds of the prompts of the queue for every set of keys, sessions, *)
(* accounts and calls: local storage is in step with memory, a prompt      *)
(* whose outcome is open is retained, one taken for refused never runs,    *)
(* and the pending operations are those of the session in use but for the  *)
(* ones a late answer has entered.                                         *)
(***************************************************************************)
EXTENDS PromptQueue, SequenceLemmas

-----------------------------------------------------------------------------
(* The inductive invariant *)

Suspended == [pc : {"idle", "posting", "waiting", "cancelling"}, key : Key \cup {NONE},
              command : Key \cup {NONE}, scope : Scope \cup {NONE}, gen : Nat,
              reply : {NONE, "accepted", "conflict", "rejected"}]
Posts == [key : Key, scope : Scope \cup {NONE}, gen : Nat]

\* A call has its key, and while it waits the command it waits for; k is call.
Proper(k) ==
    /\ k.pc # "idle" => k.key \in Key
    /\ k.command \in IF k.pc = "waiting" THEN Key ELSE {NONE}

Typed ==
    /\ gen \in Nat /\ busy \in BOOLEAN /\ open \in BOOLEAN /\ opening \in BOOLEAN
    /\ selected \in Scope \cup {NONE}
    /\ snap = [pc |-> snap.pc, ids |-> snap.ids]
    /\ call \in [Call -> Suspended] /\ \A c \in Call : Proper(call[c])
    /\ cmd \in [Key -> Commands \cup {NONE}]
    /\ posts \subseteq Posts
    /\ outcome \in [Key -> Outcomes]

\* A call of the present generation; k is call, g is gen.
Live(k, g) == k.pc # "idle" /\ k.gen = g

\* There is one at a time, controlBusy is set while it is, and the control session
\* it uses is that of the selection.  So is the session of the store, unless a failed
\* refresh of the devices has taken it away, and what was retained with it.
Present ==
    /\ \A c \in Call : call[c].pc # "idle" => call[c].gen <= gen
    /\ \A c \in Call : Live(call[c], gen) => busy = TRUE /\ open = TRUE /\ call[c].scope = selected
    /\ \A c, d \in Call : Live(call[c], gen) /\ Live(call[d], gen) => c = d
    /\ snap.pc = "running" => busy = TRUE /\ \A c \in Call : ~Live(call[c], gen)
    /\ snap.pc # "none" => open = TRUE
    /\ open = TRUE => /\ opening = FALSE
                      /\ store.scope = selected \/ (store.scope = NONE /\ store.attempt = NONE)
    /\ open = TRUE \/ opening = TRUE => user # NONE /\ selected \in Scope

\* The store: what is in local storage is what is in memory, and belongs to the
\* session in use.
InStep(e) ==
    /\ e = [scope |-> e.scope, persisted |-> e.persisted, attempt |-> e.attempt,
            ids |-> e.ids, disk |-> e.disk]
    /\ e.persisted \in Scope \cup {NONE}
    /\ e.scope \in {NONE, e.persisted}
    /\ e.attempt \in Attempts \cup {NONE}
    /\ e.persisted = NONE => e.attempt = NONE /\ e.ids = << >>
    /\ e.disk = [attempt |-> IF e.attempt = NONE THEN NoItems.attempt
                             ELSE [scope |-> e.persisted, attempt |-> e.attempt],
                 ids |-> IF e.ids = << >> THEN NoItems.ids
                         ELSE [scope |-> e.persisted, ids |-> e.ids]]

Asking(k) == k.pc \in {"posting", "waiting"}

\* The attempt is the prompt whose outcome is open.  A call of an earlier generation
\* may end it under a live call, but not put another in its place.
Kept ==
    /\ \A k \in Key : outcome[k] = "open" <=> HasAttempt(store, k)
    /\ \A c \in Call : Live(call[c], gen) /\ Asking(call[c])
                           => store.attempt = NONE \/ HasAttempt(store, call[c].key)

QueueInv == Typed /\ Present /\ InStep(store) /\ Kept

\* Cloud has not recorded the key, and no POST of it is about that could be.
Barred(k) ==
    /\ cmd[k] = NONE
    /\ \A p \in posts : p.key # k
    /\ \A c \in Call : call[c].pc = "posting" /\ call[c].key = k => call[c].reply # NONE

\* A command that is awaited, or of which Cloud has told the call, has been recorded.
Knows(k) ==
    /\ k.pc = "waiting" => cmd[k.command] # NONE
    /\ k.pc = "posting" /\ k.reply = "accepted" => cmd[k.key] # NONE

\* What the page knows of commands is so.
Informed ==
    /\ \A c \in Call : Knows(call[c])
    /\ store.attempt # NONE /\ store.attempt.command # NONE => cmd[store.attempt.command] # NONE
    /\ \A c \in Call : Live(call[c], gen) /\ call[c].pc = "posting" /\ call[c].reply = "rejected"
                           => Barred(call[c].key)
    /\ \A k \in Key : outcome[k] = "refused"
                           => Barred(k) \/ (cmd[k] # NONE /\ cmd[k].status = "failed")

-----------------------------------------------------------------------------
(* The store *)

LEMMA Nothing == /\ NONE \notin Scope /\ NONE \notin Key /\ NONE \notin Attempts /\ NONE \notin Commands
                 /\ NONE \notin {"accepted", "conflict", "rejected"}
BY PromptQueueAssumption, NoneAssumption

Store(scope, persisted, attempt, ids, disk) ==
    [scope |-> scope, persisted |-> persisted, attempt |-> attempt, ids |-> ids, disk |-> disk]

LEMMA Cleared ==
    ASSUME NEW e, InStep(e)
    PROVE  ClearPersisted(e) = Store(e.scope, NONE, NONE, << >>, NoItems)
<1>1. e = Store(e.scope, e.persisted, e.attempt, e.ids, e.disk)
  BY DEF InStep, Store
<1> DEFINE f == [e EXCEPT !.persisted = NONE]
           g == [f EXCEPT !.attempt = NONE]
           h == [g EXCEPT !.ids = << >>]
           i == [h EXCEPT !.disk = NoItems]
<1>2. f = Store(e.scope, NONE, e.attempt, e.ids, e.disk)
  BY <1>1 DEF Store
<1> HIDE DEF f
<1>3. g = Store(e.scope, NONE, NONE, e.ids, e.disk)
  BY <1>2 DEF Store
<1> HIDE DEF g
<1>4. h = Store(e.scope, NONE, NONE, << >>, e.disk)
  BY <1>3 DEF Store
<1> HIDE DEF h
<1>5. i = Store(e.scope, NONE, NONE, << >>, NoItems)
  BY <1>4 DEF Store
<1> HIDE DEF i
<1>6. ClearPersisted(e) = i
  BY DEF ClearPersisted, i, h, g, f
<1> QED BY <1>5, <1>6

LEMMA ClearKeeps ==
    ASSUME NEW e, InStep(e)
    PROVE  InStep(Clear(e)) /\ Clear(e).attempt = NONE /\ Clear(e).scope = NONE
<1>1. Clear(e) = Store(NONE, NONE, NONE, << >>, NoItems)
  BY Cleared DEF Clear, LeaveScope, Store
<1>2. NoItems = [attempt |-> NoItems.attempt, ids |-> NoItems.ids]
  BY DEF NoItems
<1> QED BY <1>1, <1>2, Nothing DEF InStep, Store

LEMMA LeaveKeeps ==
    ASSUME NEW e, InStep(e)
    PROVE  InStep(LeaveScope(e)) /\ LeaveScope(e).attempt = e.attempt /\ LeaveScope(e).scope = NONE
<1>1. LeaveScope(e) = [scope |-> NONE, persisted |-> e.persisted, attempt |-> e.attempt,
                       ids |-> e.ids, disk |-> e.disk]
  BY DEF LeaveScope, InStep
<1> HIDE DEF LeaveScope
<1> QED BY <1>1 DEF InStep

LEMMA EnterKeeps ==
    ASSUME NEW e, InStep(e), NEW s \in Scope
    PROVE  /\ InStep(EnterScope(e, s)) /\ EnterScope(e, s).scope = s
           /\ EnterScope(e, s).attempt \in {e.attempt, NONE}
<1>1. CASE e.persisted \in {NONE, s}
  <2>1. EnterScope(e, s) = [e EXCEPT !.scope = s, !.persisted = s]
    BY <1>1 DEF EnterScope
  <2>2. EnterScope(e, s) = [scope |-> s, persisted |-> s, attempt |-> e.attempt,
                            ids |-> e.ids, disk |-> e.disk]
    BY <2>1 DEF InStep
  <2> QED BY <1>1, <2>2, Nothing DEF InStep
<1>2. CASE e.persisted \notin {NONE, s}
  <2>1. EnterScope(e, s) = [Store(e.scope, NONE, NONE, << >>, NoItems)
                              EXCEPT !.scope = s, !.persisted = s]
    BY <1>2, Cleared DEF EnterScope
  <2>2. EnterScope(e, s) = Store(s, s, NONE, << >>, NoItems)
    BY <2>1 DEF Store
  <2>3. NoItems = [attempt |-> NoItems.attempt, ids |-> NoItems.ids]
    BY DEF NoItems
  <2> QED BY <2>2, <2>3, Nothing DEF InStep, Store
<1> QED BY <1>1, <1>2

LEMMA FenceKeeps ==
    ASSUME NEW e, InStep(e), NEW sessions
    PROVE  InStep(Fence(e, sessions)) /\ Fence(e, sessions).attempt \in {e.attempt, NONE}
BY ClearKeeps DEF Fence

\* A reload finds what was in memory.
LEMMA LoadFinds ==
    ASSUME NEW e, InStep(e)
    PROVE  /\ InStep(Load(e.disk)) /\ Load(e.disk).scope = NONE
           /\ Load(e.disk).attempt = e.attempt /\ Load(e.disk).ids = e.ids
           /\ e.attempt # NONE \/ e.ids # << >> => Load(e.disk).persisted = e.persisted
<1> DEFINE kept == IF e.attempt = NONE /\ e.ids = << >> THEN NONE ELSE e.persisted
<1>1. /\ e.disk.ids.scope = IF e.ids = << >> THEN NONE ELSE e.persisted
      /\ e.disk.attempt.scope = IF e.attempt = NONE THEN NONE ELSE e.persisted
      /\ e.disk.ids.ids = e.ids /\ e.disk.attempt.attempt = e.attempt
  BY DEF InStep, NoItems
<1>2. Load(e.disk) = [scope |-> NONE, persisted |-> kept, attempt |-> e.attempt,
                      ids |-> e.ids, disk |-> e.disk]
  BY <1>1, Nothing DEF Load, InStep
<1>3. InStep(Load(e.disk))
  BY <1>2, Nothing DEF InStep
<1> QED BY <1>2, <1>3

LEMMA SavedIds ==
    ASSUME NEW e, InStep(e), NEW ids, e.persisted # NONE \/ ids = << >>
    PROVE  /\ InStep(SaveIds([e EXCEPT !.ids = ids]))
           /\ SaveIds([e EXCEPT !.ids = ids]).attempt = e.attempt
           /\ SaveIds([e EXCEPT !.ids = ids]).scope = e.scope
<1> DEFINE f == [e EXCEPT !.ids = ids]
<1>1. f = [scope |-> e.scope, persisted |-> e.persisted, attempt |-> e.attempt,
           ids |-> ids, disk |-> e.disk]
  BY DEF InStep
<1> HIDE DEF f
<1>2. SaveIds(f) = [scope |-> e.scope, persisted |-> e.persisted, attempt |-> e.attempt, ids |-> ids,
                    disk |-> [attempt |-> IF e.attempt = NONE THEN NoItems.attempt
                                          ELSE [scope |-> e.persisted, attempt |-> e.attempt],
                              ids |-> IF ids = << >> THEN NoItems.ids
                                      ELSE [scope |-> e.persisted, ids |-> ids]]]
  BY <1>1 DEF SaveIds, InStep
<1>3. InStep(SaveIds(f))
  BY <1>2 DEF InStep
<1> QED BY <1>2, <1>3 DEF f

LEMMA NothingWithout == ASSUME NEW id PROVE Without(<< >>, id) = << >>
<1> DEFINE r == Without(<< >>, id)
<1>1. IsSequence(<< >>) /\ IsSequence(r) /\ Len(r) <= Len(<< >>)
  BY EmptyIsSequence, WithoutElement
<1> HIDE DEF r
<1>2. Len(<< >>) = 0 /\ Len(r) \in Nat /\ DOMAIN r = 1 .. Len(r) /\ DOMAIN << >> = 1 .. 0
  BY <1>1, SequenceBasics
<1>3. DOMAIN r = DOMAIN << >> /\ \A i \in DOMAIN << >> : FALSE
  BY <1>1, <1>2
<1>4. r = << >>
  BY <1>1, <1>3, SameSequence
<1> QED BY <1>4 DEF r

\* add, remove and replace leave the attempt alone.
LEMMA IdsKeep ==
    ASSUME NEW e, InStep(e), NEW id, NEW ids
    PROVE  /\ InStep(AddId(e, id)) /\ AddId(e, id).attempt = e.attempt /\ AddId(e, id).scope = e.scope
           /\ InStep(ReplaceIds(e, ids)) /\ ReplaceIds(e, ids).attempt = e.attempt
           /\ ReplaceIds(e, ids).scope = e.scope
           /\ InStep(RemoveId(e, id)) /\ RemoveId(e, id).attempt = e.attempt
           /\ RemoveId(e, id).scope = e.scope
<1>0. /\ InStep(RemoveId(e, id)) /\ RemoveId(e, id).attempt = e.attempt
      /\ RemoveId(e, id).scope = e.scope
  <2>1. e.persisted # NONE \/ Without(e.ids, id) = << >>
    BY NothingWithout DEF InStep
  <2> QED BY <2>1, SavedIds DEF RemoveId
<1>1. CASE e.scope = NONE
  BY <1>0, <1>1 DEF AddId, ReplaceIds
<1>2. CASE e.scope # NONE
  <2>1. e.persisted = e.scope /\ e.persisted # NONE
    BY <1>2 DEF InStep
  <2>2. \A new : [e EXCEPT !.persisted = e.scope, !.ids = new] = [e EXCEPT !.ids = new]
    BY <2>1 DEF InStep
  <2>3. /\ AddId(e, id) = SaveIds([e EXCEPT !.ids = Newest(Append(Without(e.ids, id), id))])
        /\ ReplaceIds(e, ids) = SaveIds([e EXCEPT !.ids = Newest(ids)])
    BY <1>2, <2>2 DEF AddId, ReplaceIds
  <2> QED BY <1>0, <2>1, <2>3, SavedIds
<1> QED BY <1>1, <1>2

LEMMA SavedAttempt ==
    ASSUME NEW e, InStep(e), NEW attempt \in Attempts \cup {NONE}, e.persisted # NONE \/ attempt = NONE
    PROVE  /\ InStep(SaveAttempt([e EXCEPT !.attempt = attempt]))
           /\ SaveAttempt([e EXCEPT !.attempt = attempt]).attempt = attempt
           /\ SaveAttempt([e EXCEPT !.attempt = attempt]).scope = e.scope
<1> DEFINE f == [e EXCEPT !.attempt = attempt]
<1>1. f = [scope |-> e.scope, persisted |-> e.persisted, attempt |-> attempt,
           ids |-> e.ids, disk |-> e.disk]
  BY DEF InStep
<1> HIDE DEF f
<1>2. SaveAttempt(f) =
        [scope |-> e.scope, persisted |-> e.persisted, attempt |-> attempt, ids |-> e.ids,
         disk |-> [attempt |-> IF attempt = NONE THEN NoItems.attempt
                               ELSE [scope |-> e.persisted, attempt |-> attempt],
                   ids |-> IF e.ids = << >> THEN NoItems.ids
                           ELSE [scope |-> e.persisted, ids |-> e.ids]]]
  BY <1>1 DEF SaveAttempt, InStep
<1>3. InStep(SaveAttempt(f))
  BY <1>2 DEF InStep
<1> QED BY <1>2, <1>3 DEF f

LEMMA ClearAttemptKeeps ==
    ASSUME NEW e, InStep(e)
    PROVE  /\ InStep(ClearAttempt(e)) /\ ClearAttempt(e).attempt = NONE
           /\ ClearAttempt(e).scope = e.scope
BY SavedAttempt DEF ClearAttempt

\* While a control session is in use an attempt is begun, or goes on.
LEMMA BeginKeeps ==
    ASSUME NEW e, InStep(e), e.scope # NONE, e.attempt = NONE, NEW k \in Key
    PROVE  /\ InStep(BeginAttempt(e, k)) /\ BeginAttempt(e, k).scope = e.scope
           /\ BeginAttempt(e, k).attempt = [key |-> k, command |-> NONE]
<1>1. e.persisted = e.scope
  BY DEF InStep
<1>2. [e EXCEPT !.persisted = e.scope, !.attempt = [key |-> k, command |-> NONE]]
        = [e EXCEPT !.attempt = [key |-> k, command |-> NONE]]
  BY <1>1 DEF InStep
<1>3. BeginAttempt(e, k) = SaveAttempt([e EXCEPT !.attempt = [key |-> k, command |-> NONE]])
  BY <1>2 DEF BeginAttempt
<1>4. [key |-> k, command |-> NONE] \in Attempts
  BY DEF Attempts
<1> QED BY <1>1, <1>3, <1>4, SavedAttempt

LEMMA SetCommandKeeps ==
    ASSUME NEW e, InStep(e), NEW k \in Key
    PROVE  /\ InStep(SetCommand(e, k)) /\ SetCommand(e, k).scope = e.scope
           /\ IF e.scope = NONE \/ e.attempt = NONE THEN SetCommand(e, k) = e
              ELSE SetCommand(e, k).attempt = [key |-> e.attempt.key, command |-> k]
<1>1. CASE e.scope = NONE \/ e.attempt = NONE
  BY <1>1 DEF SetCommand
<1>2. CASE ~(e.scope = NONE \/ e.attempt = NONE)
  <2>1. e.persisted = e.scope /\ e.attempt \in Attempts
    BY <1>2 DEF InStep
  <2>2. [e EXCEPT !.attempt.command = k] = [e EXCEPT !.attempt = [key |-> e.attempt.key, command |-> k]]
    BY <2>1 DEF InStep, Attempts
  <2>3. SetCommand(e, k) = SaveAttempt([e EXCEPT !.attempt = [key |-> e.attempt.key, command |-> k]])
    BY <1>2, <2>2 DEF SetCommand
  <2>4. [key |-> e.attempt.key, command |-> k] \in Attempts
    BY <2>1 DEF Attempts
  <2> QED BY <1>2, <2>1, <2>3, <2>4, SavedAttempt
<1> QED BY <1>1, <1>2

-----------------------------------------------------------------------------
(* Kinds of steps *)

LEMMA IdleTyped == Idle \in Suspended /\ Idle.pc = "idle" /\ Proper(Idle)
BY DEF Idle, Suspended, Proper

Dropped == \E o \in {"left", "forgotten"} : Drops(o)

\* The page goes elsewhere, or gives the attempt up where it is: either no call is of
\* the new generation, or no attempt is left to work on.
Away ==
    /\ call' = call
    /\ (gen' = gen /\ store'.attempt = NONE) \/ \A c \in Call : ~Live(call[c], gen')
    /\ InStep(store') /\ store'.attempt \in {store.attempt, NONE}
    /\ Dropped

LEMMA AwayKeeps == ASSUME QueueInv, Away PROVE Kept'
<1>1. \A k \in Key : outcome'[k] = "open" <=> outcome[k] = "open" /\ HasAttempt(store', k)
  BY DEF Away, Dropped, Drops, QueueInv, Kept
<1>2. \A k \in Key : HasAttempt(store', k) => HasAttempt(store, k)
  BY DEF Away, HasAttempt
<1> QED BY <1>1, <1>2 DEF QueueInv, Kept, Away

\* The attempt stays, and the calls that go on are the same.
Rests ==
    /\ gen' = gen /\ outcome' = outcome
    /\ store'.attempt = store.attempt
    /\ \A c \in Call : \/ ~Live(call'[c], gen)
                       \/ /\ call'[c].pc = call[c].pc /\ call'[c].key = call[c].key
                          /\ call'[c].gen = call[c].gen

LEMMA RestsKeeps == ASSUME QueueInv, Rests PROVE Kept'
BY DEF QueueInv, Kept, Rests, HasAttempt, Live, Asking

\* A call ends, and the attempt with it, whosever it is.
Settles(c, o) ==
    /\ Asking(call[c])
    /\ gen' = gen
    /\ Ends(c)
    /\ store'.attempt = NONE
    /\ Concludes(c, o)

LEMMA SettlesKeeps ==
    ASSUME QueueInv, NEW c \in Call, NEW o \in {"done", "refused"}, Settles(c, o) PROVE Kept'
<1>1. ASSUME NEW k \in Key PROVE outcome'[k] # "open"
  <2>1. outcome[k] = "open" => HasAttempt(store, k)
    BY DEF QueueInv, Kept
  <2>2. ~Late(c) /\ HasAttempt(store, k) => k = call[c].key
    BY DEF QueueInv, Kept, Settles, Late, Live, Asking, HasAttempt
  <2>3. outcome'[k] = CASE outcome[k] # "open" -> outcome[k]
            [] k = call[c].key /\ (call[c].command = k \/ ~(Late(c) \/ Foreign(c))) -> o
            [] HasAttempt(store, k) /\ (Late(c) \/ Foreign(c)) -> "crossed"
            [] OTHER -> "open"
    BY DEF Settles, Concludes
  <2>4. CASE outcome[k] # "open"
    BY <2>3, <2>4
  <2>5. CASE outcome[k] = "open" /\ (Late(c) \/ Foreign(c))
    <3>1. CASE k = call[c].key /\ call[c].command = k
      BY <2>3, <2>5, <3>1
    <3>2. CASE ~(k = call[c].key /\ call[c].command = k)
      BY <2>1, <2>3, <2>5, <3>2
    <3> QED BY <3>1, <3>2
  <2>6. CASE outcome[k] = "open" /\ ~(Late(c) \/ Foreign(c))
    BY <2>1, <2>2, <2>3, <2>6
  <2> QED BY <2>4, <2>5, <2>6
<1> QED BY <1>1 DEF Kept, Settles, HasAttempt

\* What runRemoteOperation leaves at its end.
Leaving(c) ==
    /\ call[c].pc # "idle"
    /\ Ends(c) /\ Release(c)
    /\ UNCHANGED <<user, selected, opening, open, gen>>
    /\ store'.scope = store.scope /\ store'.attempt \in {store.attempt, NONE}
    /\ snap' = snap \/ snap' = WantSnapshot

LEMMA LeavingKeeps ==
    ASSUME QueueInv, NEW c \in Call, Leaving(c)
    PROVE  /\ Present'
           /\ gen' \in Nat /\ busy' \in BOOLEAN /\ open' \in BOOLEAN /\ opening' \in BOOLEAN
           /\ selected' \in Scope \cup {NONE} /\ snap' = [pc |-> snap'.pc, ids |-> snap'.ids]
           /\ call' \in [Call -> Suspended] /\ \A d \in Call : Proper(call'[d])
<1>1. /\ call' \in [Call -> Suspended]
      /\ \A d \in Call : call'[d] = IF d = c THEN Idle ELSE call[d]
  BY IdleTyped DEF QueueInv, Typed, Leaving, Ends
<1>2. snap' = [pc |-> snap'.pc, ids |-> snap'.ids]
  BY DEF QueueInv, Typed, Leaving, WantSnapshot, NoSnapshot
<1>3. snap'.pc = snap.pc \/ (snap.pc = "none" /\ snap'.pc = "wanted" /\ open = TRUE)
  BY DEF QueueInv, Typed, Leaving, WantSnapshot, NoSnapshot
<1>4. \A d \in Call : call'[d].pc # "idle" => call'[d] = call[d] /\ d # c
  BY <1>1, IdleTyped
<1>5. busy' = IF call[c].gen = gen THEN FALSE ELSE busy
  BY DEF QueueInv, Typed, Leaving, Release
<1>6. Present'
  <2>1. \A d \in Call : Live(call'[d], gen) => Live(call[d], gen) /\ d # c /\ call'[d] = call[d]
    BY <1>4 DEF Live
  <2>2. \A d \in Call : Live(call'[d], gen) => busy' = TRUE
    BY <1>5, <2>1 DEF QueueInv, Present, Leaving, Live
  <2>3. snap'.pc = "running" => busy' = TRUE /\ \A d \in Call : ~Live(call'[d], gen)
    BY <1>3, <1>5, <2>1 DEF QueueInv, Present, Leaving, Live
  <2>4. \A d \in Call : call'[d].pc # "idle" => call'[d].gen <= gen
    BY <1>4 DEF QueueInv, Present
  <2> QED BY <1>3, <2>1, <2>2, <2>3, <2>4 DEF QueueInv, Present, Leaving
<1>7. \A d \in Call : Proper(call'[d])
  BY <1>1, IdleTyped DEF QueueInv, Typed
<1> QED BY <1>1, <1>2, <1>5, <1>6, <1>7 DEF QueueInv, Typed, Leaving

-----------------------------------------------------------------------------
(* Selecting, closing, resetting *)

LEMMA NewGenerations ==
    ASSUME QueueInv, NewGeneration
    PROVE  /\ gen' \in Nat /\ open' = FALSE /\ snap' = NoSnapshot
           /\ \A c \in Call : ~Live(call[c], gen') /\ (call[c].pc # "idle" => call[c].gen <= gen')
BY DEF QueueInv, Typed, Present, NewGeneration, Live, Suspended

LEMMA Closed ==
    ASSUME QueueInv, open = FALSE
    PROVE  snap.pc = "none" /\ \A c \in Call : ~Live(call[c], gen)
BY DEF QueueInv, Present

LEMMA Quiet == NoSnapshot.pc = "none" /\ NoSnapshot = [pc |-> NoSnapshot.pc, ids |-> NoSnapshot.ids]
BY DEF NoSnapshot

LEMMA OutcomesTyped == ASSUME QueueInv, Dropped PROVE outcome' \in [Key -> Outcomes]
BY DEF Dropped, Drops, QueueInv, Typed, Outcomes

LEMMA SelectStep == ASSUME QueueInv, NEW s \in Scope, Select(s) PROVE QueueInv' /\ Away
<1>1. /\ gen' \in Nat /\ open' = FALSE /\ snap' = [pc |-> snap'.pc, ids |-> snap'.ids] /\ snap'.pc = "none"
      /\ \A c \in Call : ~Live(call[c], gen') /\ (call[c].pc # "idle" => call[c].gen <= gen')
  <2>1. CASE open /\ NewGeneration
    BY <2>1, NewGenerations, Quiet
  <2>2. CASE ~open /\ UNCHANGED <<gen, open, snap>>
    BY <2>2, Closed DEF QueueInv, Typed, Present
  <2> QED BY <2>1, <2>2 DEF Select
<1>2. InStep(store') /\ store'.attempt \in {store.attempt, NONE}
  BY ClearKeeps DEF Select, QueueInv
<1>3. Away
  BY <1>1, <1>2 DEF Select, Away, Leaves, Dropped
<1>4. Typed'
  BY <1>1, <1>3, OutcomesTyped DEF Select, Away, world, QueueInv, Typed
<1>5. Present'
  BY <1>1 DEF Select, Present
<1> QED BY <1>2, <1>3, <1>4, <1>5, AwayKeeps DEF QueueInv

LEMMA OpenReturnsStep == ASSUME QueueInv, OpenReturns PROVE QueueInv' /\ Away
<1>1. /\ open = FALSE /\ opening = TRUE /\ selected \in Scope /\ user # NONE
  BY DEF OpenReturns, QueueInv, Typed, Present
<1>2. /\ InStep(store') /\ store'.attempt \in {store.attempt, NONE} /\ store'.scope = selected
  BY <1>1, EnterKeeps DEF OpenReturns, QueueInv
<1>3. Away
  BY <1>1, <1>2, Closed DEF OpenReturns, Away, Leaves, Dropped
<1>4. snap' = [pc |-> snap'.pc, ids |-> snap'.ids]
  BY DEF OpenReturns, NoSnapshot, QueueInv, Typed
<1>5. Typed'
  BY <1>3, <1>4, OutcomesTyped DEF OpenReturns, Away, world, QueueInv, Typed
<1>6. Present'
  BY <1>1, <1>2, Closed DEF OpenReturns, QueueInv, Present
<1> QED BY <1>2, <1>3, <1>5, <1>6, AwayKeeps DEF QueueInv

\* Steps that end the generation and leave no selection.
Ended == /\ NewGeneration /\ selected' = NONE /\ opening' = FALSE /\ busy' \in {busy, FALSE}
         /\ call' = call /\ world' = world /\ Dropped

LEMMA EndedKeeps ==
    ASSUME QueueInv, Ended, InStep(store'), store'.attempt \in {store.attempt, NONE}
    PROVE  QueueInv' /\ Away
<1>1. Away
  BY NewGenerations DEF Ended, Away
<1>2. Typed'
  BY NewGenerations, Quiet, OutcomesTyped DEF Ended, world, QueueInv, Typed
<1>3. Present'
  BY NewGenerations, Quiet DEF Ended, Present
<1> QED BY <1>1, <1>2, <1>3, AwayKeeps DEF QueueInv

LEMMA EndingSteps ==
    ASSUME QueueInv, \/ CloseSession \/ ShowDeviceList \/ Logout
                     \/ \E a \in Account : SwitchOrganization(a)
    PROVE  QueueInv' /\ Away
<1> USE DEF QueueInv
<1>1. CASE CloseSession
  <2>1. Ended
    BY <1>1 DEF CloseSession, Ended, Leaves, Dropped
  <2>2. InStep(store') /\ store'.attempt \in {store.attempt, NONE}
    BY <1>1, ClearKeeps, LeaveKeeps DEF CloseSession
  <2> QED BY <2>1, <2>2, EndedKeeps
<1>2. CASE ShowDeviceList
  <2>1. Ended
    BY <1>2 DEF ShowDeviceList, Resets, Ended, Leaves, Dropped
  <2>2. InStep(store') /\ store'.attempt \in {store.attempt, NONE}
    BY <1>2, ClearKeeps, LeaveKeeps DEF ShowDeviceList
  <2> QED BY <2>1, <2>2, EndedKeeps
<1>3. CASE Logout
  <2>1. Ended
    BY <1>3 DEF Logout, Resets, Ended, Leaves, Dropped
  <2>2. InStep(store') /\ store'.attempt \in {store.attempt, NONE}
    BY <1>3, ClearKeeps DEF Logout
  <2> QED BY <2>1, <2>2, EndedKeeps
<1>4. ASSUME NEW a \in Account, SwitchOrganization(a) PROVE QueueInv' /\ Away
  <2>1. Ended
    BY <1>4 DEF SwitchOrganization, Resets, Ended, Leaves, Dropped
  <2>2. InStep(store') /\ store'.attempt \in {store.attempt, NONE}
    BY <1>4, LeaveKeeps, FenceKeeps DEF SwitchOrganization
  <2> QED BY <2>1, <2>2, EndedKeeps
<1> QED BY <1>1, <1>2, <1>3, <1>4

\* Without a control session the store may be left as it is, or cleared.
Apart == /\ open = FALSE /\ UNCHANGED <<selected, open, gen, busy, snap, call, world>>
         /\ opening' \in {opening, FALSE} /\ (opening' = TRUE => user' # NONE)
         /\ Dropped

LEMMA ApartKeeps ==
    ASSUME QueueInv, Apart, InStep(store'), store'.attempt \in {store.attempt, NONE}
    PROVE  QueueInv' /\ Away
<1>1. Away
  BY Closed DEF Apart, Away
<1>2. Typed'
  BY OutcomesTyped DEF Apart, world, QueueInv, Typed
<1>3. Present'
  BY Closed DEF Apart, QueueInv, Present
<1> QED BY <1>1, <1>2, <1>3, AwayKeeps DEF QueueInv

\* An outcome that stays is that of an attempt that stays.
LEMMA NothingLeaves ==
    ASSUME QueueInv, history' = history, store'.attempt = store.attempt PROVE Dropped
BY DEF QueueInv, Typed, Dropped, Drops, HasAttempt, history

LEMMA ApartSteps ==
    ASSUME QueueInv, OpenFails \/ \E a \in Account : SignIn(a) PROVE QueueInv' /\ Away
<1>1. CASE OpenFails
  <2>1. open = FALSE /\ store' = store
    BY <1>1 DEF OpenFails, QueueInv, Typed, Present
  <2>2. Dropped
    BY <1>1, NothingLeaves DEF OpenFails
  <2>3. Apart
    BY <1>1, <2>1, <2>2 DEF OpenFails, Apart
  <2> QED BY <2>1, <2>3, ApartKeeps DEF QueueInv
<1>2. ASSUME NEW a \in Account, SignIn(a) PROVE QueueInv' /\ Away
  <2>1. open = FALSE /\ opening = FALSE
    BY <1>2 DEF SignIn, QueueInv, Typed, Present
  <2>2. Apart
    BY <1>2, <2>1 DEF SignIn, Apart, Leaves, Dropped
  <2>3. InStep(store') /\ store'.attempt \in {store.attempt, NONE}
    BY <1>2, FenceKeeps DEF SignIn, QueueInv
  <2> QED BY <2>2, <2>3, ApartKeeps
<1> QED BY <1>1, <1>2

\* The attempt is given up where the page is.
Abandoned == /\ UNCHANGED <<selected, opening, open, gen, busy, snap, call, world>>
             /\ user' = user /\ Dropped

LEMMA AbandonedKeeps ==
    ASSUME QueueInv, Abandoned, InStep(store'), store'.attempt = NONE,
           store'.scope \in {store.scope, NONE}
    PROVE  QueueInv' /\ Away
<1>1. Away
  BY DEF Abandoned, Away
<1>2. Typed'
  BY OutcomesTyped DEF Abandoned, world, QueueInv, Typed
<1>3. Present'
  BY DEF Abandoned, QueueInv, Present
<1> QED BY <1>1, <1>2, <1>3, AwayKeeps DEF QueueInv

LEMMA LoadDevicesStep == ASSUME QueueInv, LoadDevices PROVE QueueInv' /\ Away
<1>1. InStep(store') /\ store'.attempt = NONE /\ store'.scope = NONE
  BY ClearKeeps DEF LoadDevices, QueueInv
<1>2. CASE open /\ Resets /\ Leaves
  <2>1. Ended
    BY <1>2 DEF LoadDevices, Resets, Ended, Leaves, Dropped
  <2> QED BY <1>1, <2>1, EndedKeeps
<1>3. CASE ~open /\ UNCHANGED <<selected, opening, open, gen, busy, snap>> /\ Leaves
  <2>1. Abandoned
    BY <1>3 DEF LoadDevices, Abandoned, Leaves, Dropped
  <2> QED BY <1>1, <2>1, AbandonedKeeps
<1>4. CASE UNCHANGED <<selected, opening, open, gen, busy, snap>> /\ Drops("forgotten")
  <2>1. Abandoned
    BY <1>4 DEF LoadDevices, Abandoned, Dropped
  <2> QED BY <1>1, <2>1, AbandonedKeeps
<1> QED BY <1>2, <1>3, <1>4 DEF LoadDevices

LEMMA SendUnadvertisedStep == ASSUME QueueInv, SendUnadvertised PROVE QueueInv' /\ Away
<1>1. InStep(store') /\ store'.attempt = NONE /\ store'.scope = store.scope
  BY ClearAttemptKeeps DEF SendUnadvertised, QueueInv
<1>2. Abandoned
  BY DEF SendUnadvertised, Abandoned, Dropped, page
<1> QED BY <1>1, <1>2, AbandonedKeeps

LEMMA ReloadStep == ASSUME QueueInv, Reload PROVE QueueInv'
<1>1. InStep(store') /\ store'.attempt = store.attempt
  BY LoadFinds DEF Reload, QueueInv
<1>2. \A c \in Call : call'[c] = Idle /\ call' \in [Call -> Suspended]
  BY IdleTyped DEF Reload
<1>3. gen' \in Nat /\ open' = FALSE /\ snap' = NoSnapshot
  BY NewGenerations DEF Reload, Resets
<1>4. posts' \subseteq Posts
  BY DEF Reload, QueueInv, Typed, Proper, Suspended, Posts
<1>5. call' \in [Call -> Suspended]
  BY IdleTyped DEF Reload
<1>6. Typed'
  BY <1>2, <1>3, <1>4, <1>5, IdleTyped, Quiet DEF Reload, Resets, history, QueueInv, Typed
<1>7. Present'
  BY <1>2, <1>3, IdleTyped, Quiet DEF Reload, Resets, Present, Live
<1>8. Kept'
  BY <1>1, <1>2, IdleTyped DEF Reload, QueueInv, Kept, Live, HasAttempt, history
<1> QED BY <1>1, <1>6, <1>7, <1>8 DEF QueueInv

-----------------------------------------------------------------------------
(* Snapshots *)

LEMMA SnapshotSteps ==
    ASSUME QueueInv, RecoveryStarts \/ SnapshotStarts \/ SnapshotReturns \/ SnapshotInstalled
    PROVE  QueueInv'
<1>1. /\ UNCHANGED <<user, selected, opening, open, gen, call, world, outcome>>
      /\ open = TRUE
  BY DEF RecoveryStarts, SnapshotStarts, SnapshotReturns, SnapshotInstalled, page, history,
         QueueInv, Typed, Present
<1>2. InStep(store') /\ store'.attempt = store.attempt /\ store'.scope = store.scope
  BY IdsKeep DEF RecoveryStarts, SnapshotStarts, SnapshotReturns, SnapshotInstalled, QueueInv
<1>3. Rests
  BY <1>1, <1>2 DEF Rests
<1>4. snap' = [pc |-> snap'.pc, ids |-> snap'.ids] /\ busy' \in BOOLEAN
  BY DEF RecoveryStarts, SnapshotStarts, SnapshotReturns, SnapshotInstalled, page, WantSnapshot,
         NoSnapshot, QueueInv, Typed
<1>5. Typed'
  BY <1>1, <1>4 DEF world, QueueInv, Typed
<1>6. \/ snap'.pc # "running" /\ (busy' = busy \/ \A c \in Call : ~Live(call[c], gen))
      \/ snap'.pc = "running" /\ busy' = TRUE /\ \A c \in Call : ~Live(call[c], gen)
  <2>1. CASE RecoveryStarts
    BY <2>1 DEF RecoveryStarts, WantSnapshot, NoSnapshot, page
  <2>2. CASE SnapshotStarts
    BY <2>2 DEF SnapshotStarts, QueueInv, Typed, Present
  <2>3. CASE SnapshotReturns
    BY <2>3 DEF SnapshotReturns, QueueInv, Present
  <2>4. CASE SnapshotInstalled
    BY <2>4, Quiet DEF SnapshotInstalled, page
  <2> QED BY <2>1, <2>2, <2>3, <2>4
<1>7. Present'
  BY <1>1, <1>2, <1>6 DEF QueueInv, Present
<1> QED BY <1>2, <1>3, <1>5, <1>7, RestsKeeps DEF QueueInv

LEMMA SnapshotFailsStep == ASSUME QueueInv, SnapshotFails PROVE QueueInv'
<1>1. /\ UNCHANGED <<user, selected, call, world, history, outcome>>
      /\ open = TRUE /\ user # NONE /\ selected \in Scope
      /\ snap.pc \in {"running", "boundary"} /\ busy' = (busy /\ snap.pc # "running")
  BY DEF SnapshotFails, history, QueueInv, Typed, Present
<1>2. CASE snap' = NoSnapshot /\ UNCHANGED <<opening, open, gen, store>>
  <2>1. Rests
    BY <1>1, <1>2 DEF Rests
  <2>2. Typed'
    BY <1>1, <1>2, Quiet DEF world, QueueInv, Typed
  <2>3. \A c \in Call : Live(call[c], gen) => busy' = TRUE
    BY <1>1 DEF QueueInv, Typed, Present
  <2>4. Present'
    BY <1>1, <1>2, <2>3, Quiet DEF QueueInv, Present
  <2> QED BY <1>2, <2>1, <2>2, <2>4, RestsKeeps DEF QueueInv
<1>3. CASE NewGeneration /\ opening' = TRUE /\ store' = LeaveScope(store)
  <2>1. InStep(store') /\ store'.attempt = store.attempt
    BY <1>3, LeaveKeeps DEF QueueInv
  <2>2. Dropped
    BY <1>1, <2>1, NothingLeaves
  <2>3. Away
    BY <1>1, <1>3, <2>1, <2>2, NewGenerations DEF Away
  <2>4. Typed'
    BY <1>1, <1>3, NewGenerations, Quiet DEF world, QueueInv, Typed
  <2>5. Present'
    BY <1>1, <1>3, NewGenerations, Quiet DEF Present
  <2> QED BY <2>1, <2>3, <2>4, <2>5, AwayKeeps DEF QueueInv
<1> QED BY <1>2, <1>3 DEF SnapshotFails

-----------------------------------------------------------------------------
(* Calls *)

LEMMA StartsKeeps ==
    ASSUME QueueInv, NEW c \in Call, NEW pc \in {"posting", "waiting", "cancelling"}, NEW k \in Key,
           NEW command \in IF pc = "waiting" THEN Key ELSE {NONE},
           Starts(c, pc, k, command), store'.scope = store.scope,
           store.scope = NONE => store'.attempt = store.attempt, outcome' \in [Key -> Outcomes]
    PROVE  /\ Typed' /\ Present' /\ gen' = gen
           /\ \A d \in Call : ~Live(call[d], gen)
           /\ \A d \in Call : Live(call'[d], gen) => d = c
           /\ call'[c].pc = pc /\ call'[c].key = k /\ call'[c].command = command
           /\ call'[c].reply = NONE /\ call'[c].scope = selected
           /\ \A d \in Call : d # c => call'[d] = call[d]
<1>1. /\ open = TRUE /\ busy = FALSE /\ busy' = TRUE /\ selected \in Scope
      /\ store.scope = selected \/ (store.scope = NONE /\ store.attempt = NONE)
  BY DEF Starts, QueueInv, Typed, Present
<1>2. \A d \in Call : ~Live(call[d], gen)
  BY <1>1 DEF QueueInv, Present
<1> DEFINE new == [pc |-> pc, key |-> k, command |-> command, scope |-> selected, gen |-> gen,
                   reply |-> NONE]
<1>3. /\ new \in Suspended /\ new.pc = pc /\ new.key = k /\ new.command = command
      /\ new.gen = gen /\ new.reply = NONE /\ new.scope = selected /\ Proper(new)
  BY <1>1 DEF Suspended, Proper, QueueInv, Typed
<1> HIDE DEF new
<1>4. call' \in [Call -> Suspended] /\ \A d \in Call : call'[d] = IF d = c THEN new ELSE call[d]
  BY <1>3 DEF Starts, QueueInv, Typed, new
<1>5. Typed'
  BY <1>1, <1>3, <1>4 DEF Starts, world, QueueInv, Typed
<1>6. Present'
  <2>1. \A d \in Call : Live(call'[d], gen) => d = c
    BY <1>2, <1>4
  <2>2. \A d \in Call : call'[d].pc # "idle" => call'[d].gen <= gen
    BY <1>3, <1>4 DEF QueueInv, Typed, Present
  <2>3. snap.pc # "running"
    BY <1>1 DEF QueueInv, Present
  <2>4. \A d \in Call : Live(call'[d], gen) => call'[d].scope = selected
    BY <1>3, <1>4, <2>1
  <2> QED BY <1>1, <2>1, <2>2, <2>3, <2>4 DEF Starts, QueueInv, Present
<1> QED BY <1>1, <1>2, <1>3, <1>4, <1>5, <1>6 DEF Starts

\* What is retained while a control session is open; without the session of the store
\* nothing is.
LEMMA Retains ==
    ASSUME QueueInv, open
    PROVE  /\ Attempt(store) = store.attempt /\ (store.scope = NONE => store.attempt = NONE)
           /\ store.attempt # NONE => /\ store.attempt.key \in Key
                                      /\ store.attempt.command \in Key \cup {NONE}
                                      /\ HasAttempt(store, store.attempt.key)
<1>1. open = TRUE
  BY DEF QueueInv, Typed
<1>2. selected \in Scope /\ (store.scope = selected \/ (store.scope = NONE /\ store.attempt = NONE))
  BY <1>1 DEF QueueInv, Present
<1>3. store.scope # NONE => store.persisted = store.scope
  BY DEF QueueInv, InStep
<1>4. store.attempt \in Attempts \cup {NONE}
  BY DEF QueueInv, InStep
<1> QED BY <1>2, <1>3, <1>4, Nothing DEF Attempt, InUse, Attempts, HasAttempt

LEMMA SendNewStep ==
    ASSUME QueueInv, NEW c \in Call, NEW k \in Key, SendNew(c, k)
    PROVE  /\ QueueInv' /\ store.attempt = NONE /\ store'.scope = store.scope
           /\ store'.attempt = NONE \/ store'.attempt = [key |-> k, command |-> NONE]
           /\ store.scope = NONE => store' = store
           /\ outcome' \in [Key -> Outcomes] /\ outcome'[k] \in {"open", "forgotten"}
           /\ \A j \in Key : j # k => outcome'[j] = outcome[j]
<1>1. store.attempt = NONE
  BY Retains DEF SendNew, Starts
<1>2. /\ outcome' \in [Key -> Outcomes] /\ outcome'[k] \in {"open", "forgotten"}
      /\ outcome'[k] = "open" <=> store.scope # NONE
      /\ \A j \in Key : j # k => outcome'[j] = outcome[j]
  BY DEF SendNew, QueueInv, Typed, Outcomes
<1>3. /\ InStep(store') /\ store'.scope = store.scope
      /\ store.scope = NONE => store' = store
      /\ store.scope # NONE => store'.attempt = [key |-> k, command |-> NONE] /\ store'.attempt # NONE
  <2>1. CASE store.scope = NONE
    BY <2>1 DEF SendNew, BeginAttempt, QueueInv
  <2>2. CASE store.scope # NONE
    <3>1. [key |-> k, command |-> NONE] \in Attempts
      BY DEF Attempts
    <3> QED BY <1>1, <2>2, <3>1, BeginKeeps, Nothing DEF SendNew, QueueInv
  <2> QED BY <2>1, <2>2
<1>4. Starts(c, "posting", k, NONE)
  BY DEF SendNew
<1>5. /\ Typed' /\ Present' /\ gen' = gen /\ call'[c].key = k
      /\ \A d \in Call : Live(call'[d], gen) => d = c
  BY <1>2, <1>3, <1>4, StartsKeeps
<1>6. \A j \in Key : outcome[j] # "open"
  BY <1>1 DEF QueueInv, Kept, HasAttempt
<1>7. \A j \in Key : outcome'[j] = "open" <=> j = k /\ store.scope # NONE
  BY <1>2, <1>6
<1>8. \A j \in Key : HasAttempt(store', j) <=> j = k /\ store.scope # NONE
  BY <1>1, <1>3 DEF HasAttempt
<1>9. Kept'
  BY <1>1, <1>3, <1>5, <1>7, <1>8 DEF Kept
<1> QED BY <1>1, <1>2, <1>3, <1>5, <1>9 DEF QueueInv

\* Calls that go on with what is retained, or cancel a pending operation.
LEMMA AgainSteps ==
    ASSUME QueueInv, NEW c \in Call,
           SendAgain(c) \/ Resume(c) \/ \E k \in Key : Cancel(c, k)
    PROVE  QueueInv'
<1>1. store' = store /\ outcome' = outcome /\ open
  BY DEF SendAgain, Resume, Cancel, Starts
<1>2. ASSUME NEW pc \in {"posting", "waiting", "cancelling"}, NEW k \in Key,
             NEW command \in IF pc = "waiting" THEN Key ELSE {NONE}, Starts(c, pc, k, command),
             pc # "cancelling" => HasAttempt(store, k)
      PROVE  QueueInv'
  <2>1. outcome' \in [Key -> Outcomes]
    BY <1>1 DEF QueueInv, Typed
  <2>2. Kept'
    BY <1>1, <1>2, <2>1, StartsKeeps DEF QueueInv, Kept, HasAttempt, Asking
  <2> QED BY <1>1, <1>2, <2>1, <2>2, StartsKeeps DEF QueueInv
<1>3. CASE SendAgain(c)
  BY <1>1, <1>2, <1>3, Retains DEF SendAgain
<1>4. CASE Resume(c)
  BY <1>1, <1>2, <1>4, Retains DEF Resume
<1>5. CASE \E k \in Key : Cancel(c, k)
  BY <1>2, <1>5 DEF Cancel
<1> QED BY <1>3, <1>4, <1>5

\* A call that ends leaves the attempt, or settles it.
LEMMA EndingKeeps ==
    ASSUME QueueInv, NEW c \in Call, Leaving(c), UNCHANGED cmd, posts' \subseteq Posts, InStep(store'),
           \/ store'.attempt = store.attempt /\ outcome' = outcome
           \/ \E o \in {"done", "refused"} : Settles(c, o)
    PROVE  QueueInv'
<1>1. outcome' \in [Key -> Outcomes]
  BY DEF Settles, Concludes, QueueInv, Typed, Outcomes
<1>2. Kept'
  <2>1. CASE store'.attempt = store.attempt /\ outcome' = outcome
    <3>1. \A d \in Call : ~Live(call'[d], gen) \/ call'[d] = call[d]
      BY IdleTyped DEF Leaving, Ends, QueueInv, Typed, Live
    <3>2. Rests
      BY <2>1, <3>1 DEF Rests, Leaving
    <3> QED BY <3>2, RestsKeeps
  <2>2. CASE \E o \in {"done", "refused"} : Settles(c, o)
    BY <2>2, SettlesKeeps
  <2> QED BY <2>1, <2>2
<1>3. Typed'
  BY <1>1, LeavingKeeps DEF QueueInv, Typed
<1> QED BY <1>2, <1>3, LeavingKeeps DEF QueueInv

LEMMA GivenUp ==
    ASSUME QueueInv, NEW c \in Call, call[c].pc = "posting", GivesUp(c) PROVE posts' \subseteq Posts
<1>1. call[c] \in Suspended /\ call[c].key \in Key /\ posts \subseteq Posts
  BY DEF QueueInv, Typed, Proper
<1>2. [key |-> call[c].key, scope |-> call[c].scope, gen |-> call[c].gen] \in Posts
  BY <1>1 DEF Suspended, Posts
<1> QED BY <1>1, <1>2 DEF GivesUp

LEMMA PostAcceptedStep ==
    ASSUME QueueInv, NEW c \in Call, PostAccepted(c)
    PROVE  /\ QueueInv'
           /\ \/ store'.attempt = store.attempt
              \/ /\ store.attempt # NONE
                 /\ store'.attempt = [key |-> store.attempt.key, command |-> call[c].key]
           /\ \A d \in Call : \/ /\ d # c /\ call'[d] = call[d]
                             \/ /\ d = c /\ call'[d].pc = "idle"
                             \/ /\ d = c /\ call'[d].pc = "waiting" /\ call'[d].command = call[d].key
                                /\ call'[d].key = call[d].key /\ call'[d].gen = call[d].gen
                                /\ call'[d].scope = call[d].scope
<1>1. /\ call \in [Call -> Suspended] /\ call[c] \in Suspended /\ call[c].pc = "posting"
      /\ call[c].key \in Key /\ Proper(call[c])
  BY DEF PostAccepted, QueueInv, Typed, Proper
<1>2. /\ InStep(store') /\ store'.scope = store.scope
      /\ IF store.scope = NONE \/ store.attempt = NONE THEN store' = store
         ELSE store'.attempt = [key |-> store.attempt.key, command |-> call[c].key]
  BY <1>1, SetCommandKeeps DEF PostAccepted, QueueInv
<1>3. [key |-> store.attempt.key, command |-> call[c].key] # NONE \/ store.attempt = NONE
  BY <1>1, Nothing DEF QueueInv, InStep, Attempts
<1>4. \A k : HasAttempt(store', k) <=> HasAttempt(store, k)
  BY <1>2, <1>3 DEF HasAttempt
<1> DEFINE new == IF Late(c) THEN Idle
                  ELSE [call[c] EXCEPT !.pc = "waiting", !.command = call[c].key, !.reply = NONE]
<1>5. /\ new \in Suspended /\ Proper(new)
      /\ new.pc = "idle" \/ (new.pc = "waiting" /\ new.command = call[c].key /\ new.key = call[c].key
                                /\ new.gen = call[c].gen /\ new.scope = call[c].scope)
  <2>1. CASE Late(c)
    BY <2>1, IdleTyped
  <2>2. CASE ~Late(c)
    BY <1>1, <2>2 DEF Suspended, Proper
  <2> QED BY <2>1, <2>2
<1>6. call' = [call EXCEPT ![c] = new]
  BY <1>1 DEF PostAccepted, Ends
<1> HIDE DEF new
<1>7. \A d \in Call : call'[d] = IF d = c THEN new ELSE call[d]
  BY <1>1, <1>6
<1>8. call' \in [Call -> Suspended]
  BY <1>1, <1>5, <1>6
<1>9. UNCHANGED <<user, selected, opening, open, gen, busy, snap, cmd, posts, queue, outcome>>
  BY DEF PostAccepted, page, world, history
<1>10. Typed'
  BY <1>5, <1>7, <1>8, <1>9 DEF QueueInv, Typed
<1>11. \A d \in Call : Live(call'[d], gen) =>
          /\ Live(call[d], gen) /\ call'[d].key = call[d].key /\ call'[d].scope = call[d].scope
          /\ Asking(call'[d]) => Asking(call[d])
  BY <1>1, <1>5, <1>7 DEF Live, Asking
<1>12. Present'
  <2>1. \A d \in Call : call'[d].pc # "idle" => call'[d].gen <= gen
    BY <1>1, <1>5, <1>7 DEF QueueInv, Present
  <2> QED BY <1>2, <1>9, <1>11, <2>1 DEF QueueInv, Present
<1>13. Kept'
  <2>1. store.attempt = NONE => store'.attempt = NONE
    BY <1>2
  <2>2. \A k \in Key : outcome'[k] = "open" <=> HasAttempt(store', k)
    BY <1>4, <1>9 DEF QueueInv, Kept
  <2>3. \A d \in Call : Live(call'[d], gen) /\ Asking(call'[d])
                           => store'.attempt = NONE \/ HasAttempt(store', call'[d].key)
    BY <1>4, <1>11, <2>1 DEF QueueInv, Kept
  <2> QED BY <1>9, <2>2, <2>3 DEF Kept
<1>14. QueueInv'
  BY <1>2, <1>10, <1>12, <1>13 DEF QueueInv
<1>15. \/ store'.attempt = store.attempt
       \/ /\ store.attempt # NONE
          /\ store'.attempt = [key |-> store.attempt.key, command |-> call[c].key]
  BY <1>2
<1>16. \A d \in Call : \/ /\ d # c /\ call'[d] = call[d]
                     \/ /\ d = c /\ call'[d].pc = "idle"
                     \/ /\ d = c /\ call'[d].pc = "waiting" /\ call'[d].command = call[d].key
                        /\ call'[d].key = call[d].key /\ call'[d].gen = call[d].gen
                        /\ call'[d].scope = call[d].scope
  <2> TAKE d \in Call
  <2>1. CASE d # c
    BY <1>7, <2>1
  <2>2. CASE d = c
    <3>1. call'[d] = new /\ call[d] = call[c]
      BY <1>7, <2>2
    <3> QED BY <1>5, <2>2, <3>1
  <2> QED BY <2>1, <2>2
<1> QED BY <1>14, <1>15, <1>16

\* The attempt is given up with the call.
LEMMA GiveUpKeeps ==
    ASSUME QueueInv, NEW c \in Call, call[c].pc \in {"posting", "waiting"},
           Ends(c), Release(c), UNCHANGED <<user, selected, opening, open, gen, world>>,
           snap' = snap \/ snap' = WantSnapshot,
           NEW e, InStep(e), e.attempt = NONE, e.scope = store.scope, store' = e,
           NEW o \in {"done", "refused"}, Concludes(c, o)
    PROVE  QueueInv'
<1>1. Settles(c, o) /\ Leaving(c)
  BY DEF Settles, Asking, Leaving
<1> QED BY <1>1, EndingKeeps DEF world, QueueInv, Typed

LEMMA SettlingSteps ==
    ASSUME QueueInv, NEW c \in Call,
           PostRejected(c) \/ PostConflicts(c) \/ WaitSucceeds(c) \/ WaitReconciles(c) \/ WaitRefused(c)
    PROVE  QueueInv'
<1> DEFINE e == ClearAttempt(store)
           f == AddId(e, call[c].command)
<1>0. InStep(e) /\ e.attempt = NONE /\ e.scope = store.scope
  BY ClearAttemptKeeps DEF QueueInv
<1> HIDE DEF e
<1>1. /\ InStep(e) /\ e.attempt = NONE /\ e.scope = store.scope
      /\ InStep(f) /\ f.attempt = NONE /\ f.scope = store.scope
  BY <1>0, IdsKeep
<1> HIDE DEF f
<1>2. CASE PostRejected(c)
  BY <1>1, <1>2, GiveUpKeeps DEF PostRejected, e
<1>3. CASE PostConflicts(c)
  BY <1>1, <1>3, GiveUpKeeps DEF PostConflicts, e
<1>4. CASE WaitSucceeds(c)
  <2>1. store' = e \/ store' = f
    BY <1>4 DEF WaitSucceeds, e, f
  <2> QED BY <1>1, <1>4, <2>1, GiveUpKeeps DEF WaitSucceeds, Terminal
<1>5. CASE WaitReconciles(c)
  BY <1>1, <1>5, GiveUpKeeps DEF WaitReconciles, Terminal, e
<1>6. CASE WaitRefused(c)
  BY <1>1, <1>6, GiveUpKeeps DEF WaitRefused, Terminal, e
<1> QED BY <1>2, <1>3, <1>4, <1>5, <1>6

\* Calls that end and leave the attempt: nothing is known, or nothing was about it.
LEMMA FailingSteps ==
    ASSUME QueueInv, NEW c \in Call,
           PostUncertain(c) \/ WaitFails(c) \/ CancelReturns(c) \/ CancelFails(c)
    PROVE  QueueInv'
<1>1. call[c].pc # "idle" /\ UNCHANGED <<cmd, outcome>>
  BY DEF PostUncertain, WaitFails, CancelReturns, CancelFails, world, history
<1>2. InStep(store') /\ store'.attempt = store.attempt /\ store'.scope = store.scope
  BY IdsKeep DEF PostUncertain, WaitFails, CancelReturns, CancelFails, QueueInv
<1>3. posts' \subseteq Posts
  BY GivenUp DEF PostUncertain, WaitFails, CancelReturns, CancelFails, world, QueueInv, Typed
<1>4. Leaving(c)
  BY <1>1, <1>2 DEF Leaving, PostUncertain, WaitFails, CancelReturns, CancelFails
<1> QED BY <1>1, <1>2, <1>3, <1>4, EndingKeeps

-----------------------------------------------------------------------------
(* Cloud and Desktop *)

LEMMA RecordsTyped ==
    ASSUME QueueInv, NEW k \in Key, NEW s \in Scope \cup {NONE}, NEW g \in Nat, Records(k, s, g)
    PROVE  /\ cmd' \in [Key -> Commands \cup {NONE}]
           /\ cmd'[k] # NONE /\ \A j \in Key : j # k => cmd'[j] = cmd[j]
<1>1. [status |-> "queued", scope |-> s, gen |-> g] \in Commands
  BY DEF Commands, Status
<1> QED BY <1>1, Nothing DEF Records, QueueInv, Typed

LEMMA RepliesKeeps ==
    ASSUME QueueInv, NEW c \in Call, NEW reply \in {"accepted", "conflict", "rejected"},
           Replies(c, reply), cmd' \in [Key -> Commands \cup {NONE}]
    PROVE  /\ QueueInv'
           /\ \A d \in Call : /\ call'[d].pc = call[d].pc /\ call'[d].key = call[d].key
                              /\ call'[d].command = call[d].command
                              /\ call'[d].scope = call[d].scope /\ call'[d].gen = call[d].gen
                              /\ call'[d].reply = IF d = c THEN reply ELSE call[d].reply
<1>1. /\ call' \in [Call -> Suspended]
      /\ \A d \in Call : /\ call'[d].pc = call[d].pc /\ call'[d].key = call[d].key
                         /\ call'[d].command = call[d].command
                         /\ call'[d].scope = call[d].scope /\ call'[d].gen = call[d].gen
                         /\ call'[d].reply = IF d = c THEN reply ELSE call[d].reply
  BY DEF Replies, QueueInv, Typed, Suspended
<1>2. Rests
  BY <1>1 DEF Replies, page, history, Rests
<1>3. Typed'
  BY <1>1 DEF Replies, page, history, QueueInv, Typed, Proper
<1>4. Present'
  BY <1>1 DEF Replies, page, QueueInv, Present, Live
<1> QED BY <1>1, <1>2, <1>3, <1>4, RestsKeeps DEF Replies, QueueInv

LEMMA CloudSteps ==
    ASSUME QueueInv, NEW c \in Call, CloudAccepts(c) \/ CloudConflicts(c) \/ CloudRejects(c)
    PROVE  QueueInv'
<1>1. call[c].pc = "posting" /\ call[c] \in Suspended /\ call[c].key \in Key
  BY DEF CloudAccepts, CloudConflicts, CloudRejects, Replies, QueueInv, Typed, Proper
<1>2. call[c].scope \in Scope \cup {NONE} /\ call[c].gen \in Nat
  BY <1>1 DEF Suspended
<1>3. cmd' \in [Key -> Commands \cup {NONE}]
  BY <1>1, <1>2, RecordsTyped DEF CloudAccepts, CloudConflicts, CloudRejects, QueueInv, Typed
<1> QED BY <1>3, RepliesKeeps DEF CloudAccepts, CloudConflicts, CloudRejects

\* Steps out of the page's sight.
LEMMA OutsideKeeps ==
    ASSUME QueueInv, UNCHANGED <<page, store, snap, call, outcome>>,
           cmd' \in [Key -> Commands \cup {NONE}], posts' \subseteq Posts
    PROVE  QueueInv'
<1>1. Rests
  BY DEF page, Rests
<1>2. Typed' /\ Present'
  BY DEF page, QueueInv, Typed, Present
<1> QED BY <1>1, <1>2, RestsKeeps DEF QueueInv

LEMMA DecidesTyped ==
    ASSUME QueueInv, NEW k \in Key, DesktopDecides(k)
    PROVE  /\ cmd' \in [Key -> Commands \cup {NONE}] /\ cmd'[k] # NONE
           /\ \A j \in Key : j # k => cmd'[j] = cmd[j]
<1>1. PICK status \in {"enqueued", "started", "failed"} : cmd' = [cmd EXCEPT ![k].status = status]
  BY DEF DesktopDecides
<1>2. cmd[k] \in Commands
  BY DEF DesktopDecides, QueueInv, Typed
<1>3. [cmd[k] EXCEPT !.status = status] \in Commands
  BY <1>2 DEF Commands, Status
<1> QED BY <1>1, <1>3, Nothing DEF QueueInv, Typed

LEMMA OutsideSteps ==
    ASSUME QueueInv, \/ \E p \in posts : PostArrives(p)
                     \/ \E k \in Key : DesktopDecides(k)
                     \/ \E s \in Scope : DesktopStarts(s)
    PROVE  QueueInv'
<1>1. ASSUME NEW p \in posts, PostArrives(p) PROVE QueueInv'
  <2>1. p.key \in Key /\ p.scope \in Scope \cup {NONE} /\ p.gen \in Nat
    BY DEF QueueInv, Typed, Posts
  <2>2. cmd' \in [Key -> Commands \cup {NONE}]
    BY <1>1, <2>1, RecordsTyped DEF PostArrives, QueueInv, Typed
  <2>3. posts' \subseteq Posts
    BY <1>1 DEF PostArrives, QueueInv, Typed
  <2> QED BY <1>1, <2>2, <2>3, OutsideKeeps DEF PostArrives, history
<1>2. ASSUME NEW k \in Key, DesktopDecides(k) PROVE QueueInv'
  <2>1. UNCHANGED <<page, store, snap, call, outcome, posts>>
    BY <1>2 DEF DesktopDecides, history
  <2> QED BY <1>2, <2>1, DecidesTyped, OutsideKeeps DEF QueueInv, Typed
<1>3. ASSUME NEW s \in Scope, DesktopStarts(s) PROVE QueueInv'
  BY <1>3, OutsideKeeps DEF DesktopStarts, history, QueueInv, Typed
<1> QED BY <1>1, <1>2, <1>3

-----------------------------------------------------------------------------
(* The invariant *)

LEMMA Initially == Init => QueueInv
<1> SUFFICES ASSUME Init PROVE QueueInv
  OBVIOUS
<1>1. InStep(store) /\ store.attempt = NONE
  <2>1. NoItems.ids.scope = NONE /\ NoItems.attempt.scope = NONE
        /\ NoItems.ids.ids = << >> /\ NoItems.attempt.attempt = NONE
    BY DEF NoItems
  <2>2. store = Store(NONE, NONE, NONE, << >>, NoItems)
    BY <2>1 DEF Init, EmptyStore, Load, Store
  <2>3. NoItems = [attempt |-> NoItems.attempt, ids |-> NoItems.ids]
    BY DEF NoItems
  <2> QED BY <2>2, <2>3, Nothing DEF InStep, Store
<1>2. Typed
  BY IdleTyped, Quiet DEF Init, Typed, Outcomes
<1>3. Present
  BY IdleTyped, Quiet DEF Init, Present, Live
<1>4. Kept
  BY <1>1, IdleTyped DEF Init, Kept, Live, HasAttempt
<1> QED BY <1>1, <1>2, <1>3, <1>4 DEF QueueInv

LEMMA Steps == ASSUME QueueInv, [Next]_vars PROVE QueueInv'
<1>1. CASE UNCHANGED vars
  BY <1>1, OutsideKeeps DEF vars, world, history, QueueInv, Typed
<1>2. CASE \E s \in Scope : Select(s) \/ DesktopStarts(s)
  BY <1>2, SelectStep, OutsideSteps
<1>3. CASE \/ OpenReturns \/ OpenFails \/ CloseSession \/ ShowDeviceList \/ Logout \/ Reload
           \/ LoadDevices \/ SendUnadvertised
  BY <1>3, OpenReturnsStep, ApartSteps, EndingSteps, ReloadStep, LoadDevicesStep, SendUnadvertisedStep
<1>4. CASE \E a \in Account : SwitchOrganization(a) \/ SignIn(a)
  BY <1>4, EndingSteps, ApartSteps
<1>5. CASE RecoveryStarts \/ SnapshotStarts \/ SnapshotReturns \/ SnapshotInstalled \/ SnapshotFails
  BY <1>5, SnapshotSteps, SnapshotFailsStep
<1>6. ASSUME NEW c \in Call,
             \/ \E k \in Key : SendNew(c, k) \/ Cancel(c, k)
             \/ SendAgain(c) \/ Resume(c)
      PROVE  QueueInv'
  BY <1>6, SendNewStep, AgainSteps
<1>7. ASSUME NEW c \in Call,
             \/ PostAccepted(c) \/ PostRejected(c) \/ PostConflicts(c) \/ PostUncertain(c)
             \/ WaitSucceeds(c) \/ WaitReconciles(c) \/ WaitRefused(c) \/ WaitFails(c)
             \/ CancelReturns(c) \/ CancelFails(c)
             \/ CloudAccepts(c) \/ CloudConflicts(c) \/ CloudRejects(c)
      PROVE  QueueInv'
  BY <1>7, PostAcceptedStep, SettlingSteps, FailingSteps, CloudSteps
<1>8. CASE (\E p \in posts : PostArrives(p)) \/ (\E k \in Key : DesktopDecides(k))
  BY <1>8, OutsideSteps
<1> QED BY <1>1, <1>2, <1>3, <1>4, <1>5, <1>6, <1>7, <1>8 DEF Next

LEMMA AlwaysQueueInv == Spec => []QueueInv
<1>1. QueueInv /\ [Next]_vars => QueueInv'
  BY Steps
<1> QED BY <1>1, Initially, PTL DEF Spec

\* A reload at any moment finds the attempt and the pending operations of memory, in
\* the same session.
THEOREM ReloadLosesNothingHolds == Spec => []ReloadLosesNothing
<1>1. QueueInv => ReloadLosesNothing
  BY LoadFinds DEF QueueInv, ReloadLosesNothing
<1> QED BY <1>1, AlwaysQueueInv, PTL

\* A prompt whose outcome is open is retained, whatever is lost, refused or reloaded:
\* without an outcome the page gives it up only when it goes elsewhere, when the devices
\* cannot be loaded or session.prompt is not advertised, and when it takes another
\* call's answer for its own.
THEOREM OpenIsRetainedHolds == Spec => []OpenIsRetained
<1>1. QueueInv => OpenIsRetained
  BY DEF QueueInv, Kept, OpenIsRetained
<1> QED BY <1>1, AlwaysQueueInv, PTL

-----------------------------------------------------------------------------
(* Refused prompts *)

Sound == Faults \subseteq {"reject"}

Failed(k) == cmd[k] # NONE /\ cmd[k].status = "failed"

\* Nothing is heard of Cloud, and no call begins.
LEMMA UnheardKeeps ==
    ASSUME QueueInv, Informed, call' = call, world' = world,
           gen' = gen \/ \A c \in Call : ~Live(call[c], gen'),
           store'.attempt \in {store.attempt, NONE},
           \A k \in Key : outcome'[k] = "refused" => outcome[k] = "refused"
    PROVE  Informed'
<1>1. \A k : Barred(k) => Barred(k)'
  BY DEF Barred, world
<1>2. \A c \in Call : Live(call[c], gen') => Live(call[c], gen)
  OBVIOUS
<1> QED BY <1>1, <1>2 DEF Informed, Knows, world

LEMMA LeavingRefusesNone ==
    ASSUME QueueInv, Dropped PROVE \A k \in Key : outcome'[k] = "refused" => outcome[k] = "refused"
BY DEF Dropped, Drops

LEMMA AwayInformed == ASSUME QueueInv, Informed, Away, world' = world PROVE Informed'
BY UnheardKeeps, LeavingRefusesNone DEF Away

\* A call ends, perhaps with its POST under way.
LEMMA EndsInformed ==
    ASSUME QueueInv, Informed, NEW c \in Call, Ends(c), UNCHANGED <<gen, cmd>>,
           posts' = posts \/ (call[c].pc = "posting" /\ GivesUp(c)),
           store'.attempt \in {store.attempt, NONE},
           \A k \in Key : outcome'[k] = "refused" =>
                outcome[k] = "refused" \/ Barred(k) \/ Failed(k)
    PROVE  Informed'
<1>1. \A d \in Call : call'[d] = IF d = c THEN Idle ELSE call[d]
  BY DEF Ends, QueueInv, Typed
<1>2. \A d \in Call : call'[d].pc # "idle" => call'[d] = call[d]
  BY <1>1, IdleTyped
<1>3. ASSUME NEW k, Barred(k) PROVE Barred(k)'
  <2>1. \A p \in posts' : p \in posts \/ (p.key = call[c].key /\ call[c].pc = "posting" /\ call[c].reply = NONE)
    BY DEF GivesUp
  <2>2. \A p \in posts' : p.key # k
    BY <1>3, <2>1 DEF Barred
  <2> QED BY <1>2, <1>3, <2>2 DEF Barred
<1> QED BY <1>2, <1>3, IdleTyped DEF Informed, Knows, Failed

LEMMA StartsInformed ==
    ASSUME QueueInv, Informed, NEW c \in Call, NEW pc \in {"posting", "waiting", "cancelling"},
           NEW k \in Key, NEW command \in IF pc = "waiting" THEN Key ELSE {NONE},
           Starts(c, pc, k, command), store'.scope = store.scope,
           store.scope = NONE => store'.attempt = store.attempt,
           outcome' \in [Key -> Outcomes],
           \A j \in Key : outcome'[j] = "refused" => outcome[j] = "refused",
           pc = "posting" => outcome'[k] # "refused",
           pc = "waiting" => cmd[command] # NONE,
           store'.attempt # NONE /\ store'.attempt.command # NONE => cmd[store'.attempt.command] # NONE
    PROVE  Informed'
<1>0. cmd' = cmd /\ posts' = posts
  BY DEF Starts, world
<1>1. /\ cmd' = cmd /\ posts' = posts /\ gen' = gen
      /\ call'[c].pc = pc /\ call'[c].key = k /\ call'[c].reply = NONE /\ call'[c].command = command
      /\ \A d \in Call : d # c => call'[d] = call[d]
      /\ \A d \in Call : Live(call'[d], gen) => d = c
  BY <1>0, StartsKeeps
<1>2. \A j : Barred(j) /\ (pc = "posting" => j # k) => Barred(j)'
  BY <1>1 DEF Barred
<1>3. \A j \in Key : outcome'[j] = "refused" => Barred(j)' \/ Failed(j)'
  BY <1>1, <1>2 DEF Informed, Failed
<1>4. \A d \in Call : Knows(call[d])'
  BY <1>1, Nothing DEF Informed, Knows
<1> QED BY <1>1, <1>3, <1>4, Nothing DEF Informed, Failed

LEMMA PageInformed ==
    ASSUME QueueInv, Informed,
           \/ \E s \in Scope : Select(s)
           \/ OpenReturns \/ OpenFails \/ CloseSession \/ ShowDeviceList \/ Logout \/ LoadDevices
           \/ SendUnadvertised \/ \E a \in Account : SwitchOrganization(a) \/ SignIn(a)
    PROVE  Informed'
<1>1. Away
  BY SelectStep, OpenReturnsStep, EndingSteps, ApartSteps, LoadDevicesStep, SendUnadvertisedStep
<1>2. world' = world
  BY DEF Select, OpenReturns, OpenFails, CloseSession, ShowDeviceList, Logout, LoadDevices,
         SendUnadvertised, SwitchOrganization, SignIn
<1> QED BY <1>1, <1>2, AwayInformed

LEMMA ReloadInformed == ASSUME QueueInv, Informed, Reload PROVE Informed'
<1>1. store'.attempt = store.attempt
  BY LoadFinds DEF Reload, QueueInv
<1>2. \A c \in Call : call'[c].pc = "idle"
  BY IdleTyped DEF Reload
<1>3. ASSUME NEW k, Barred(k) PROVE Barred(k)'
  <2>1. \A p \in posts' : p \in posts \/ \E d \in Call : p.key = call[d].key /\ call[d].pc = "posting" /\ call[d].reply = NONE
    BY DEF Reload
  <2> QED BY <1>2, <1>3, <2>1 DEF Barred, Reload
<1> QED BY <1>1, <1>2, <1>3, IdleTyped DEF Informed, Knows, Reload, Live, history

LEMMA SnapshotInformed ==
    ASSUME QueueInv, Informed,
           RecoveryStarts \/ SnapshotStarts \/ SnapshotReturns \/ SnapshotInstalled \/ SnapshotFails
    PROVE  Informed'
<1>1. call' = call /\ world' = world /\ outcome' = outcome
  BY DEF RecoveryStarts, SnapshotStarts, SnapshotReturns, SnapshotInstalled, SnapshotFails, history
<1>2. store'.attempt = store.attempt
  BY IdsKeep, LeaveKeeps
     DEF RecoveryStarts, SnapshotStarts, SnapshotReturns, SnapshotInstalled, SnapshotFails, QueueInv
<1>3. gen' = gen \/ \A c \in Call : ~Live(call[c], gen')
  BY NewGenerations
     DEF RecoveryStarts, SnapshotStarts, SnapshotReturns, SnapshotInstalled, SnapshotFails, page
<1> QED BY <1>1, <1>2, <1>3, UnheardKeeps

LEMMA StartingInformed ==
    ASSUME QueueInv, Informed, NEW c \in Call,
           \/ \E k \in Key : SendNew(c, k) \/ Cancel(c, k)
           \/ SendAgain(c) \/ Resume(c)
    PROVE  Informed'
<1>1. open
  BY DEF SendNew, Cancel, SendAgain, Resume, Starts
<1>2. outcome \in [Key -> Outcomes]
  BY DEF QueueInv, Typed
<1>3. store.attempt # NONE => outcome[store.attempt.key] = "open"
  BY <1>1, Retains DEF QueueInv, Kept
<1>4. CASE SendAgain(c)
  BY <1>1, <1>2, <1>3, <1>4, Retains, StartsInformed DEF SendAgain, Informed
<1>5. CASE Resume(c)
  BY <1>1, <1>2, <1>5, Retains, StartsInformed DEF Resume, Informed
<1>6. ASSUME NEW k \in Key, Cancel(c, k) PROVE Informed'
  BY <1>2, <1>6, StartsInformed DEF Cancel, Informed
<1>7. ASSUME NEW k \in Key, SendNew(c, k) PROVE Informed'
  <2>1. /\ store'.scope = store.scope /\ (store.scope = NONE => store'.attempt = store.attempt)
        /\ store'.attempt # NONE => store'.attempt.command = NONE
        /\ outcome' \in [Key -> Outcomes] /\ outcome'[k] # "refused"
        /\ \A j \in Key : outcome'[j] = "refused" => outcome[j] = "refused"
    <3>1. /\ store'.scope = store.scope /\ (store.scope = NONE => store' = store)
          /\ store'.attempt = NONE \/ store'.attempt = [key |-> k, command |-> NONE]
          /\ outcome' \in [Key -> Outcomes] /\ outcome'[k] \in {"open", "forgotten"}
          /\ \A j \in Key : j # k => outcome'[j] = outcome[j]
      BY <1>7, SendNewStep
    <3> QED BY <3>1
  <2>2. Starts(c, "posting", k, NONE)
    BY <1>7 DEF SendNew
  <2> QED BY <2>1, <2>2, StartsInformed
<1> QED BY <1>4, <1>5, <1>6, <1>7

LEMMA PostAcceptedInformed ==
    ASSUME QueueInv, Informed, NEW c \in Call, PostAccepted(c) PROVE Informed'
<1>1. /\ call[c].pc = "posting" /\ cmd[call[c].key] # NONE
      /\ UNCHANGED <<gen, cmd, posts, outcome>>
  BY DEF PostAccepted, Informed, Knows, page, world, history
<1>2. /\ \/ store'.attempt = store.attempt
         \/ store'.attempt = [key |-> store.attempt.key, command |-> call[c].key]
      /\ \A d \in Call : \/ call'[d] = call[d]
                        \/ call'[d].pc = "idle"
                        \/ /\ call'[d].pc = "waiting" /\ call'[d].command = call[c].key
  BY PostAcceptedStep
<1>3. store'.attempt # NONE /\ store'.attempt.command # NONE => cmd[store'.attempt.command] # NONE
  BY <1>1, <1>2 DEF Informed
<1>4. \A k : Barred(k) => Barred(k)'
  BY <1>1, <1>2 DEF Barred
<1>5. \A d \in Call : Knows(call[d])'
  BY <1>1, <1>2 DEF Informed, Knows
<1>6. \A d \in Call : \A k :
         Live(call'[d], gen) /\ call'[d].pc = "posting" /\ call'[d].reply = "rejected"
           /\ k = call'[d].key => Barred(k)'
  BY <1>2, <1>4 DEF Informed, Live
<1> QED BY <1>1, <1>3, <1>4, <1>5, <1>6 DEF Informed, Failed, Live

\* The page concludes that a prompt was refused only when Cloud has refused its only
\* POST, or its command has failed.
LEMMA ConcludingInformed ==
    ASSUME Sound, QueueInv, Informed, NEW c \in Call,
           PostRejected(c) \/ PostConflicts(c) \/ WaitSucceeds(c) \/ WaitReconciles(c) \/ WaitRefused(c)
    PROVE  Informed'
<1>1. Asking(call[c]) /\ Ends(c) /\ UNCHANGED <<gen, cmd, posts>>
  BY DEF PostRejected, PostConflicts, WaitSucceeds, WaitReconciles, WaitRefused, Terminal, world, Asking
<1>2. Proper(call[c]) /\ call[c].key \in Key
  BY <1>1 DEF QueueInv, Typed, Proper, Asking
<1>3. store'.attempt = NONE
  <2> DEFINE e == ClearAttempt(store)
  <2>1. InStep(e) /\ e.attempt = NONE
    BY ClearAttemptKeeps DEF QueueInv
  <2> HIDE DEF e
  <2>2. AddId(e, call[c].command).attempt = NONE
    BY <2>1, IdsKeep
  <2> QED BY <2>1, <2>2
          DEF PostRejected, PostConflicts, WaitSucceeds, WaitReconciles, WaitRefused, e
<1>4. ASSUME NEW o, Concludes(c, o), NEW k \in Key, outcome'[k] = "refused"
      PROVE  \/ outcome[k] = "refused"
             \/ /\ k = call[c].key /\ o = "refused"
                /\ call[c].command = k \/ ~(Late(c) \/ Foreign(c))
  BY <1>4 DEF Concludes
<1>5. CASE PostRejected(c)
  <2>1. call[c].pc = "posting" /\ call[c].reply = "rejected" /\ call[c].command = NONE
    BY <1>2, <1>5 DEF PostRejected, Proper
  <2>2. ~Late(c) => Barred(call[c].key)
    BY <2>1 DEF Informed, Live, Late
  <2>3. \A k \in Key : outcome'[k] = "refused" => outcome[k] = "refused" \/ Barred(k)
    BY <1>2, <1>4, <1>5, <2>1, <2>2, Nothing DEF PostRejected
  <2> QED BY <1>1, <1>3, <2>3, EndsInformed
<1>6. CASE WaitRefused(c)
  <2>1. call[c].pc = "waiting" /\ call[c].command \in Key
    BY <1>2, <1>6 DEF WaitRefused, Terminal, Proper
  <2>2. Failed(call[c].command)
    BY <1>6, <2>1 DEF WaitRefused, Terminal, Sound, Informed, Knows, Failed
  <2>3. ~Foreign(c) => call[c].command = call[c].key
    BY <2>1, Nothing DEF Foreign
  <2>4. \A k \in Key : outcome'[k] = "refused" => outcome[k] = "refused" \/ Failed(k)
    BY <1>4, <1>6, <2>2, <2>3 DEF WaitRefused
  <2> QED BY <1>1, <1>3, <2>4, EndsInformed
<1>7. CASE PostConflicts(c) \/ WaitSucceeds(c) \/ WaitReconciles(c)
  <2>1. \A k \in Key : outcome'[k] = "refused" => outcome[k] = "refused"
    BY <1>4, <1>7 DEF PostConflicts, WaitSucceeds, WaitReconciles
  <2> QED BY <1>1, <1>3, <2>1, EndsInformed
<1> QED BY <1>5, <1>6, <1>7

LEMMA FailingInformed ==
    ASSUME QueueInv, Informed, NEW c \in Call,
           PostUncertain(c) \/ WaitFails(c) \/ CancelReturns(c) \/ CancelFails(c)
    PROVE  Informed'
<1>1. /\ Ends(c) /\ UNCHANGED <<gen, cmd, outcome>>
      /\ posts' = posts \/ (call[c].pc = "posting" /\ GivesUp(c))
  BY DEF PostUncertain, WaitFails, CancelReturns, CancelFails, world, history
<1>2. store'.attempt = store.attempt
  BY IdsKeep DEF PostUncertain, WaitFails, CancelReturns, CancelFails, QueueInv
<1> QED BY <1>1, <1>2, EndsInformed

LEMMA CloudInformed ==
    ASSUME Sound, QueueInv, Informed, NEW c \in Call,
           CloudAccepts(c) \/ CloudConflicts(c) \/ CloudRejects(c)
    PROVE  Informed'
<1>1. call[c].pc = "posting" /\ call[c] \in Suspended /\ call[c].key \in Key /\ call[c].reply = NONE
  BY DEF CloudAccepts, CloudConflicts, CloudRejects, Replies, QueueInv, Typed, Proper
<1>2. call[c].scope \in Scope \cup {NONE} /\ call[c].gen \in Nat
  BY <1>1 DEF Suspended
<1>3. CASE CloudAccepts(c)
  <2>1. /\ cmd' \in [Key -> Commands \cup {NONE}] /\ cmd'[call[c].key] # NONE
        /\ \A j \in Key : cmd[j] # NONE => cmd'[j] = cmd[j]
        /\ \A j \in Key : j # call[c].key => cmd'[j] = cmd[j]
    BY <1>1, <1>2, <1>3, RecordsTyped DEF CloudAccepts, QueueInv, Typed
  <2>2. \A d \in Call : /\ call'[d].pc = call[d].pc /\ call'[d].key = call[d].key
                        /\ call'[d].command = call[d].command /\ call'[d].gen = call[d].gen
                        /\ call'[d].reply = IF d = c THEN "accepted" ELSE call[d].reply
    BY <1>3, <2>1, RepliesKeeps DEF CloudAccepts
  <2>3. UNCHANGED <<gen, store, posts, outcome>>
    BY <1>3 DEF CloudAccepts, Replies, page, history
  <2>4. \A k \in Key : Barred(k) => Barred(k)'
    BY <1>1, <2>1, <2>2, <2>3, Nothing DEF Barred
  <2>5. \A k \in Key : Failed(k) => Failed(k)'
    BY <2>1 DEF Failed
  <2>6. store.attempt # NONE => store.attempt.command \in Key \cup {NONE}
    BY DEF QueueInv, InStep, Attempts
  <2>7. \A d \in Call : call[d].pc # "idle" => call[d].key \in Key
    BY DEF QueueInv, Typed, Proper
  <2>8. \A d \in Call : call[d].pc = "waiting" => call[d].command \in Key
    BY DEF QueueInv, Typed, Proper
  <2>9. \A d \in Call : Knows(call[d])'
    BY <2>1, <2>2, <2>7, <2>8 DEF Informed, Knows
  <2> QED BY <2>1, <2>2, <2>3, <2>4, <2>5, <2>6, <2>7, <2>9 DEF Informed, Failed, Live
<1>4. ASSUME NEW reply \in {"conflict", "rejected"}, Replies(c, reply), cmd' = cmd,
             reply = "rejected" => OnlyPost(c)
      PROVE  Informed'
  <2>1. \A d \in Call : /\ call'[d].pc = call[d].pc /\ call'[d].key = call[d].key
                        /\ call'[d].command = call[d].command /\ call'[d].gen = call[d].gen
                        /\ call'[d].reply = IF d = c THEN reply ELSE call[d].reply
    BY <1>4, RepliesKeeps DEF QueueInv, Typed
  <2>2. UNCHANGED <<gen, store, posts, outcome, cmd>>
    BY <1>4 DEF Replies, page, history
  <2>3. \A k \in Key : Barred(k) => Barred(k)'
    BY <2>1, <2>2, Nothing DEF Barred
  <2>4. \A k \in Key : reply = "rejected" /\ k = call[c].key => Barred(k)'
    BY <1>4, <2>1, <2>2, Nothing DEF Barred, OnlyPost
  <2>5. \A d \in Call : call[d].pc # "idle" => call[d].key \in Key
    BY DEF QueueInv, Typed, Proper
  <2>6. \A d \in Call : \A k \in Key :
           Live(call'[d], gen) /\ call'[d].pc = "posting" /\ call'[d].reply = "rejected"
             /\ k = call'[d].key => Barred(k)'
    BY <2>1, <2>3, <2>4 DEF Informed, Live
  <2>7. \A d \in Call : Knows(call[d])'
    BY <1>4, <2>1, <2>2 DEF Informed, Knows
  <2> QED BY <2>1, <2>2, <2>3, <2>5, <2>6, <2>7 DEF Informed, Failed, Live
<1>5. CASE CloudConflicts(c)
  BY <1>4, <1>5 DEF CloudConflicts
<1>6. CASE CloudRejects(c)
  BY <1>4, <1>6 DEF CloudRejects, Sound
<1> QED BY <1>3, <1>5, <1>6

\* A command that is recorded or decided belongs to a key that is not barred.
LEMMA OutsideInformed ==
    ASSUME QueueInv, Informed,
           \/ \E p \in posts : PostArrives(p)
           \/ \E k \in Key : DesktopDecides(k)
           \/ \E s \in Scope : DesktopStarts(s)
    PROVE  Informed'
<1>1. UNCHANGED <<gen, store, call, outcome>> /\ posts' \subseteq posts
  BY DEF PostArrives, DesktopDecides, DesktopStarts, page, history
<1>2. ASSUME \A j \in Key : cmd[j] # NONE => cmd'[j] # NONE,
             \A j \in Key : Failed(j) => Failed(j)',
             \A j \in Key : Barred(j) => cmd'[j] = cmd[j]
      PROVE  Informed'
  <2>1. \A j \in Key : Barred(j) => Barred(j)'
    BY <1>1, <1>2 DEF Barred
  <2>2. store.attempt # NONE => store.attempt.command \in Key \cup {NONE}
    BY DEF QueueInv, InStep, Attempts
  <2>3. \A d \in Call : Knows(call[d])'
    BY <1>1, <1>2 DEF QueueInv, Typed, Proper, Informed, Knows
  <2>4. \A d \in Call : call[d].pc # "idle" => call[d].key \in Key
    BY DEF QueueInv, Typed, Proper
  <2> QED BY <1>1, <1>2, <2>1, <2>2, <2>3, <2>4 DEF Informed, Failed, Live
<1>3. ASSUME NEW p \in posts, PostArrives(p) PROVE Informed'
  <2>1. p.key \in Key /\ p.scope \in Scope \cup {NONE} /\ p.gen \in Nat
    BY DEF QueueInv, Typed, Posts
  <2>2. CASE cmd[p.key] = NONE /\ Records(p.key, p.scope, p.gen)
    BY <1>2, <2>1, <2>2, RecordsTyped DEF Failed, Barred
  <2>3. CASE UNCHANGED cmd
    BY <1>2, <2>3 DEF Failed
  <2> QED BY <1>3, <2>2, <2>3 DEF PostArrives
<1>4. ASSUME NEW k \in Key, DesktopDecides(k) PROVE Informed'
  <2>1. cmd[k] # NONE /\ cmd[k].status = "queued"
    BY <1>4 DEF DesktopDecides
  <2>2. \A j \in Key : Barred(j) \/ Failed(j) => j # k
    BY <2>1 DEF Barred, Failed
  <2>3. /\ cmd'[k] # NONE /\ \A j \in Key : j # k => cmd'[j] = cmd[j]
    BY <1>4, DecidesTyped
  <2> QED BY <1>2, <2>2, <2>3 DEF Failed
<1>5. ASSUME NEW s \in Scope, DesktopStarts(s) PROVE Informed'
  BY <1>2, <1>5 DEF DesktopStarts, Failed
<1> QED BY <1>3, <1>4, <1>5

LEMMA InformedSteps == ASSUME Sound, QueueInv, Informed, [Next]_vars PROVE Informed'
<1>1. CASE UNCHANGED vars
  BY <1>1, UnheardKeeps DEF vars, page, world, history
<1>2. CASE \/ \E s \in Scope : Select(s) \/ DesktopStarts(s)
           \/ OpenReturns \/ OpenFails \/ CloseSession \/ ShowDeviceList \/ Logout \/ Reload
           \/ LoadDevices \/ SendUnadvertised
           \/ \E a \in Account : SwitchOrganization(a) \/ SignIn(a)
           \/ RecoveryStarts \/ SnapshotStarts \/ SnapshotReturns \/ SnapshotInstalled \/ SnapshotFails
  BY <1>2, PageInformed, OutsideInformed, ReloadInformed, SnapshotInformed
<1>3. ASSUME NEW c \in Call,
             \/ \E k \in Key : SendNew(c, k) \/ Cancel(c, k)
             \/ SendAgain(c) \/ Resume(c)
      PROVE  Informed'
  BY <1>3, StartingInformed
<1>4. ASSUME NEW c \in Call,
             \/ PostAccepted(c) \/ PostRejected(c) \/ PostConflicts(c) \/ PostUncertain(c)
             \/ WaitSucceeds(c) \/ WaitReconciles(c) \/ WaitRefused(c) \/ WaitFails(c)
             \/ CancelReturns(c) \/ CancelFails(c)
             \/ CloudAccepts(c) \/ CloudConflicts(c) \/ CloudRejects(c)
      PROVE  Informed'
  BY <1>4, PostAcceptedInformed, ConcludingInformed, FailingInformed, CloudInformed
<1>5. CASE (\E p \in posts : PostArrives(p)) \/ (\E k \in Key : DesktopDecides(k))
  BY <1>5, OutsideInformed
<1> QED BY <1>1, <1>2, <1>3, <1>4, <1>5 DEF Next

\* If Cloud refuses no retry and terminals can be read: a prompt the page takes for
\* refused, by an answer of the present generation or its own command's terminal, is
\* never queued or started, so that it may be sent again under a new key.
THEOREM RefusedNeverRunsHolds ==
    ASSUME Faults \subseteq {"reject"} PROVE Spec => []RefusedNeverRuns
<1>1. Init => QueueInv /\ Informed
  <2>1. Init => Informed
    <3> SUFFICES ASSUME Init PROVE Informed
      OBVIOUS
    <3>1. store.attempt = NONE
      BY DEF Init, EmptyStore, Load, NoItems
    <3> QED BY <3>1, IdleTyped DEF Init, Informed, Knows, Live
  <2> QED BY <2>1, Initially
<1>2. QueueInv /\ Informed /\ [Next]_vars => (QueueInv /\ Informed)'
  BY Steps, InformedSteps DEF Sound
<1>3. QueueInv /\ Informed => RefusedNeverRuns
  BY DEF Informed, Barred, RefusedNeverRuns
<1> QED BY <1>1, <1>2, <1>3, PTL DEF Spec

-----------------------------------------------------------------------------
(* The shape of the state, whatever goes wrong: nothing of it depends on the  *)
(* faults.                                                                    *)

IdList == {s \in Seq(Key) : Len(s) <= Limit}
SomeScope == Scope \cup {NONE}
SomeAttempt == Attempts \cup {NONE}
Disk == [attempt : [scope : SomeScope, attempt : SomeAttempt],
         ids : [scope : SomeScope, ids : IdList]]
Stores == [scope : SomeScope, persisted : SomeScope, attempt : SomeAttempt, ids : IdList, disk : Disk]

Snapshots == [pc : {"none", "wanted", "running", "boundary"}, ids : Seq(Key)]

Shape ==
    /\ user \in Account \cup {NONE} /\ selected \in SomeScope
    /\ opening \in BOOLEAN /\ open \in BOOLEAN /\ busy \in BOOLEAN /\ gen \in 1 .. MaxGeneration
    /\ open = TRUE \/ opening = TRUE => selected \in Scope
    /\ snap \in Snapshots /\ (snap.pc # "none" => open = TRUE)
    /\ store \in Stores
    /\ call \in [Call -> Suspended] /\ \A c \in Call : Proper(call[c])
    /\ queue \in [Scope -> Seq(Key)]
    /\ outcome \in [Key -> Outcomes] /\ stray \subseteq Key

LEMMA EmptyIds == << >> \in IdList /\ << >> \in Seq(Key)
BY EmptySeq, LimitAssumption DEF IdList

LEMMA WithoutIds ==
    ASSUME NEW s \in Seq(Key), NEW id
    PROVE  /\ Without(s, id) \in Seq(Key) /\ Len(Without(s, id)) <= Len(s)
           /\ ToSet(Without(s, id)) = ToSet(s) \ {id}
<1>1. IsSequence(s)
  BY MembersMakeSequence
<1> DEFINE r == Without(s, id)
<1>2. IsSequence(r) /\ Len(r) <= Len(s) /\ ToSet(r) = ToSet(s) \ {id}
  BY <1>1, WithoutElement
<1> HIDE DEF r
<1>3. DOMAIN s = 1 .. Len(s) /\ \A i \in DOMAIN s : s[i] \in Key
  BY LenProperties
<1>4. \A n \in DOMAIN r : r[n] \in Key
  BY <1>2, <1>3 DEF ToSet
<1>5. r \in Seq(Key)
  <2> DEFINE T == {r[i] : i \in DOMAIN r}
  <2>1. r \in Seq(T) /\ T \subseteq Key
    BY <1>2, <1>4 DEF IsSequence
  <2> HIDE DEF T
  <2>2. Len(r) \in Nat /\ r \in [1 .. Len(r) -> T]
    BY <2>1, LenProperties
  <2> QED BY <2>1, <2>2
<1> QED BY <1>2, <1>5 DEF r

LEMMA NewestIds ==
    ASSUME NEW s \in Seq(Key)
    PROVE  /\ Newest(s) \in IdList
           /\ \A i \in DOMAIN Newest(s) : \E j \in DOMAIN s : Newest(s)[i] = s[j]
<1> DEFINE m == IF Len(s) > Limit THEN Len(s) - Limit + 1 ELSE 1
<1>1. Len(s) \in Nat /\ Limit \in Nat \ {0} /\ DOMAIN s = 1 .. Len(s)
      /\ s \in [1 .. Len(s) -> Key]
  BY LenProperties, LimitAssumption
<1>2. m \in 1 .. Len(s) + 1 /\ Len(s) - m + 1 <= Limit
  BY <1>1
<1>3. Newest(s) = SubSeq(s, m, Len(s))
  BY DEF Newest
<1> HIDE DEF m
<1>4. m \in Int /\ Len(s) \in Int /\ \A i \in m .. Len(s) : i \in 1 .. Len(s) /\ s[i] \in Key
  BY <1>1, <1>2
<1>5. /\ Newest(s) \in Seq(Key)
      /\ Len(Newest(s)) = IF m <= Len(s) THEN Len(s) - m + 1 ELSE 0
      /\ \A i \in 1 .. Len(s) - m + 1 : Newest(s)[i] = s[m + i - 1]
  BY <1>3, <1>4, SubSeqProperties
<1>6. Len(Newest(s)) = Len(s) - m + 1 /\ DOMAIN Newest(s) = 1 .. Len(s) - m + 1
  BY <1>1, <1>2, <1>5, LenProperties
<1>7. \A i \in 1 .. Len(s) - m + 1 : m + i - 1 \in DOMAIN s
  BY <1>1, <1>2
<1> QED BY <1>2, <1>5, <1>6, <1>7 DEF IdList

LEMMA StoresSaved ==
    ASSUME NEW e \in Stores
    PROVE  SaveIds(e) \in Stores /\ SaveAttempt(e) \in Stores
BY EmptyIds DEF SaveIds, SaveAttempt, Stores, Disk, NoItems, SomeScope, SomeAttempt

LEMMA StoresCleared ==
    ASSUME NEW e \in Stores
    PROVE  ClearPersisted(e) \in Stores /\ LeaveScope(e) \in Stores /\ Clear(e) \in Stores
<1>1. \A f \in Stores : ClearPersisted(f) \in Stores
  BY EmptyIds DEF ClearPersisted, Stores, Disk, NoItems, SomeScope, SomeAttempt
<1>2. \A f \in Stores : LeaveScope(f) \in Stores
  BY DEF LeaveScope, Stores, SomeScope
<1> QED BY <1>1, <1>2 DEF Clear

LEMMA StoresEntered ==
    ASSUME NEW e \in Stores
    PROVE  /\ \A s \in Scope : EnterScope(e, s) \in Stores
           /\ \A sessions : Fence(e, sessions) \in Stores
           /\ Load(e.disk) \in Stores
<1>1. \A s \in Scope : EnterScope(e, s) \in Stores
  <2> TAKE s \in Scope
  <2>1. \A f \in Stores : [f EXCEPT !.scope = s, !.persisted = s] \in Stores
    BY DEF Stores, SomeScope
  <2> QED BY <2>1, StoresCleared DEF EnterScope
<1>2. \A sessions : Fence(e, sessions) \in Stores
  BY StoresCleared DEF Fence
<1>3. Load(e.disk) \in Stores
  <2> DEFINE found == [scope |-> NONE,
                  persisted |-> IF e.disk.ids.scope # NONE THEN e.disk.ids.scope ELSE e.disk.attempt.scope,
                  attempt |-> e.disk.attempt.attempt,
                  ids |-> e.disk.ids.ids,
                  disk |-> e.disk]
  <2>1. found \in Stores
    BY DEF Stores, Disk, SomeScope
  <2>2. Load(e.disk) \in {found, ClearPersisted(found)}
    BY DEF Load
  <2> HIDE DEF found
  <2> QED BY <2>1, <2>2, StoresCleared
<1> QED BY <1>1, <1>2, <1>3

LEMMA StoresListed ==
    ASSUME NEW e \in Stores, NEW k \in Key
    PROVE  AddId(e, k) \in Stores /\ RemoveId(e, k) \in Stores
<1>1. \A ids \in IdList : /\ [e EXCEPT !.persisted = e.scope, !.ids = ids] \in Stores
                          /\ [e EXCEPT !.ids = ids] \in Stores
  BY DEF Stores
<1>2. e.ids \in Seq(Key) /\ Len(e.ids) <= Limit
  BY DEF Stores, IdList
<1>3. Newest(Append(Without(e.ids, k), k)) \in IdList
  <2>1. Without(e.ids, k) \in Seq(Key)
    BY <1>2, WithoutIds
  <2>2. Append(Without(e.ids, k), k) \in Seq(Key)
    BY <2>1, AppendProperties
  <2> QED BY <2>2, NewestIds
<1>4. AddId(e, k) \in Stores
  BY <1>1, <1>3, StoresSaved DEF AddId
<1>5. Without(e.ids, k) \in IdList
  <2>1. /\ Without(e.ids, k) \in Seq(Key) /\ Len(Without(e.ids, k)) <= Len(e.ids)
        /\ Len(Without(e.ids, k)) \in Nat /\ Len(e.ids) \in Nat /\ Limit \in Nat
    BY <1>2, WithoutIds, LenProperties, LimitAssumption
  <2> QED BY <1>2, <2>1 DEF IdList
<1>6. RemoveId(e, k) \in Stores
  BY <1>1, <1>5, StoresSaved DEF RemoveId
<1> QED BY <1>4, <1>6

LEMMA StoresReplaced ==
    ASSUME NEW e \in Stores, NEW ids \in Seq(Key)
    PROVE  ReplaceIds(e, ids) \in Stores
<1>1. \A new \in IdList : [e EXCEPT !.persisted = e.scope, !.ids = new] \in Stores
  BY DEF Stores
<1> QED BY <1>1, NewestIds, StoresSaved DEF ReplaceIds

LEMMA StoresFreed ==
    ASSUME NEW e \in Stores
    PROVE  ClearAttempt(e) \in Stores
<1>1. [e EXCEPT !.attempt = NONE] \in Stores
  BY DEF Stores, SomeAttempt
<1> QED BY <1>1, StoresSaved DEF ClearAttempt

LEMMA StoresAttempted ==
    ASSUME NEW e \in Stores, NEW k \in Key
    PROVE  BeginAttempt(e, k) \in Stores /\ SetCommand(e, k) \in Stores
<1>1. [e EXCEPT !.persisted = e.scope, !.attempt = [key |-> k, command |-> NONE]] \in Stores
  BY DEF Stores, SomeAttempt, Attempts
<1>2. ASSUME e.attempt # NONE PROVE [e EXCEPT !.attempt.command = k] \in Stores
  <2>1. e.attempt \in Attempts
    BY <1>2 DEF Stores, SomeAttempt
  <2>2. [e.attempt EXCEPT !.command = k] \in Attempts
    BY <2>1 DEF Attempts
  <2>3. [e EXCEPT !.attempt = [e.attempt EXCEPT !.command = k]] \in Stores
    BY <2>2 DEF Stores, SomeAttempt
  <2> QED BY <2>3
<1> QED BY <1>1, <1>2, StoresSaved DEF BeginAttempt, SetCommand

\* What the steps leave of calls, of the queue and of the outcomes.
LEMMA OutcomesShaped ==
    ASSUME Shape
    PROVE  /\ Dropped => outcome' \in [Key -> Outcomes] /\ stray' \subseteq Key
           /\ \A c, o : o \in Outcomes /\ Concludes(c, o) => outcome' \in [Key -> Outcomes]
<1>1. Dropped => outcome' \in [Key -> Outcomes] /\ stray' \subseteq Key
  BY DEF Shape, Dropped, Drops, Outcomes
<1>2. ASSUME NEW c, NEW o \in Outcomes, Concludes(c, o) PROVE outcome' \in [Key -> Outcomes]
  BY <1>2 DEF Shape, Concludes, Outcomes
<1> QED BY <1>1, <1>2

LEMMA EndsShaped ==
    ASSUME Shape, NEW c \in Call, Ends(c)
    PROVE  /\ call' \in [Call -> Suspended]
           /\ \A d \in Call : Proper(call'[d])
BY IdleTyped DEF Shape, Ends

LEMMA NewGenerationShaped ==
    ASSUME Shape, NewGeneration
    PROVE  gen' \in 1 .. MaxGeneration /\ open' = FALSE /\ snap' \in Snapshots /\ snap'.pc = "none"
BY EmptyIds, PromptQueueAssumption DEF Shape, NewGeneration, NoSnapshot, Snapshots

LEMMA WantedShaped ==
    ASSUME Shape
    PROVE  WantSnapshot \in Snapshots /\ (WantSnapshot.pc # "none" => open = TRUE)
BY EmptyIds DEF Shape, WantSnapshot, NoSnapshot, Snapshots

\* Steps of the page that leave calls and the queue alone.
LEMMA SelectingShape ==
    ASSUME Shape,
           \/ \E s \in Scope : Select(s)
           \/ OpenReturns \/ OpenFails \/ CloseSession \/ ShowDeviceList \/ Logout \/ LoadDevices
           \/ SendUnadvertised \/ \E a \in Account : SwitchOrganization(a) \/ SignIn(a)
    PROVE  Shape'
<1>1. UNCHANGED <<call, queue>>
  BY DEF Select, OpenReturns, OpenFails, CloseSession, ShowDeviceList, Logout, LoadDevices,
         SendUnadvertised, SwitchOrganization, SignIn, page, world
<1>2. outcome' \in [Key -> Outcomes] /\ stray' \subseteq Key
  <2>1. Dropped \/ UNCHANGED <<outcome, stray>>
    BY DEF Select, OpenReturns, OpenFails, CloseSession, ShowDeviceList, Logout, LoadDevices,
           SendUnadvertised, SwitchOrganization, SignIn, Leaves, Dropped, history
  <2> QED BY <2>1, OutcomesShaped DEF Shape
<1>3. store' \in Stores
  <2>1. /\ store \in Stores /\ Clear(store) \in Stores /\ LeaveScope(store) \in Stores
        /\ \A sessions : Fence(store, sessions) \in Stores
        /\ \A sessions : Fence(LeaveScope(store), sessions) \in Stores
        /\ opening = TRUE => EnterScope(store, selected) \in Stores
        /\ ClearAttempt(store) \in Stores
    BY StoresCleared, StoresEntered, StoresFreed DEF Shape
  <2> QED BY <2>1 DEF Select, OpenReturns, OpenFails, CloseSession, ShowDeviceList, Logout,
                      LoadDevices, SendUnadvertised, SwitchOrganization, SignIn, Shape
<1>4. /\ user' \in Account \cup {NONE} /\ selected' \in SomeScope /\ opening' \in BOOLEAN
      /\ open' \in BOOLEAN /\ busy' \in BOOLEAN
  BY DEF Select, OpenReturns, OpenFails, CloseSession, ShowDeviceList, Logout, LoadDevices,
         SendUnadvertised, SwitchOrganization, SignIn, Resets, NewGeneration, Shape, SomeScope, page
<1>5. gen' \in 1 .. MaxGeneration
  BY NewGenerationShaped
  DEF Select, OpenReturns, OpenFails, CloseSession, ShowDeviceList, Logout, LoadDevices,
      SendUnadvertised, page, SwitchOrganization, SignIn, Resets, Shape
<1>6. open' = TRUE \/ opening' = TRUE => selected' \in Scope
  BY DEF Select, OpenReturns, OpenFails, CloseSession, ShowDeviceList, Logout, LoadDevices,
         SendUnadvertised, SwitchOrganization, SignIn, Resets, NewGeneration, Shape, page
<1>7. snap' \in Snapshots /\ (snap'.pc # "none" => open' = TRUE)
  <2>1. CASE NewGeneration
    BY <2>1, NewGenerationShaped
  <2>2. CASE UNCHANGED snap /\ (UNCHANGED open \/ open' = TRUE)
    BY <2>2 DEF Shape
  <2>3. CASE OpenReturns
    BY <2>3, EmptyIds DEF OpenReturns, NoSnapshot, Snapshots, Shape
  <2>4. NewGeneration \/ (UNCHANGED snap /\ (UNCHANGED open \/ open' = TRUE)) \/ OpenReturns
    BY DEF Select, OpenReturns, OpenFails, CloseSession, ShowDeviceList, Logout, LoadDevices,
           SendUnadvertised, SwitchOrganization, SignIn, Resets, page
  <2> QED BY <2>1, <2>2, <2>3, <2>4
<1> QED BY <1>1, <1>2, <1>3, <1>4, <1>5, <1>6, <1>7 DEF Shape

LEMMA ReloadShape == ASSUME Shape, Reload PROVE Shape'
<1>1. /\ gen' \in 1 .. MaxGeneration /\ open' = FALSE /\ snap' \in Snapshots /\ snap'.pc = "none"
      /\ selected' = NONE /\ opening' = FALSE /\ busy' = FALSE
  BY NewGenerationShaped DEF Reload, Resets
<1>2. store' \in Stores
  BY StoresEntered DEF Reload, Shape
<1>3. call' \in [Call -> Suspended] /\ \A c \in Call : Proper(call'[c])
  BY IdleTyped DEF Reload
<1> QED BY <1>1, <1>2, <1>3 DEF Reload, Shape, SomeScope, history

LEMMA SnapshotShape ==
    ASSUME Shape,
           RecoveryStarts \/ SnapshotStarts \/ SnapshotReturns \/ SnapshotInstalled \/ SnapshotFails
    PROVE  Shape'
<1>1. CASE RecoveryStarts
  BY <1>1, WantedShaped DEF RecoveryStarts, Shape, page, world, history
<1>2. CASE SnapshotStarts
  BY <1>2 DEF SnapshotStarts, Shape, Snapshots, world, history
<1>3. CASE SnapshotReturns
  <2>1. selected \in Scope /\ queue[selected] \in Seq(Key) /\ open = TRUE
    BY <1>3 DEF SnapshotReturns, Shape
  <2>2. snap' \in Snapshots
    BY <1>3, <2>1 DEF SnapshotReturns, Snapshots
  <2> QED BY <1>3, <2>1, <2>2 DEF SnapshotReturns, Shape, world, history
<1>4. CASE SnapshotInstalled
  <2>1. snap.ids \in Seq(Key) /\ store \in Stores
    BY DEF Shape, Snapshots
  <2>2. store' \in Stores
    BY <1>4, <2>1, StoresReplaced DEF SnapshotInstalled
  <2> QED BY <1>4, <2>2, EmptyIds DEF SnapshotInstalled, Shape, page, world, NoSnapshot, Snapshots
<1>5. CASE SnapshotFails
  <2>1. open = TRUE /\ selected \in Scope
    BY <1>5 DEF SnapshotFails, Shape
  <2>2. store' \in Stores
    BY <1>5, StoresCleared DEF SnapshotFails, Shape
  <2>3. /\ gen' \in 1 .. MaxGeneration /\ open' \in BOOLEAN /\ opening' \in BOOLEAN
        /\ snap' \in Snapshots /\ snap'.pc = "none"
    <3>1. CASE NewGeneration /\ opening' = TRUE
      BY <3>1, NewGenerationShaped
    <3>2. CASE snap' = NoSnapshot /\ UNCHANGED <<opening, open, gen, store>>
      BY <3>2, EmptyIds DEF Shape, NoSnapshot, Snapshots
    <3> QED BY <1>5, <3>1, <3>2 DEF SnapshotFails
  <2> QED BY <1>5, <2>1, <2>2, <2>3 DEF SnapshotFails, Shape, world, history
<1> QED BY <1>1, <1>2, <1>3, <1>4, <1>5

\* A call starts.
LEMMA StartingShape ==
    ASSUME Shape, NEW c \in Call,
           \/ \E k \in Key : SendNew(c, k) \/ Cancel(c, k)
           \/ SendAgain(c) \/ Resume(c)
    PROVE  Shape'
<1>1. store \in Stores /\ store.attempt \in SomeAttempt /\ outcome \in [Key -> Outcomes]
  BY DEF Shape, Stores
<1>2. \E k \in Key, pc \in {"posting", "waiting", "cancelling"} :
         \E command \in IF pc = "waiting" THEN Key ELSE {NONE} : Starts(c, pc, k, command)
  <2>1. Attempt(store) # NONE => Attempt(store).key \in Key /\ Attempt(store).command \in Key \cup {NONE}
    BY <1>1 DEF Attempt, SomeAttempt, Attempts
  <2> QED BY <2>1 DEF SendNew, Cancel, SendAgain, Resume
<1>3. PICK k \in Key, pc \in {"posting", "waiting", "cancelling"} :
         \E command \in IF pc = "waiting" THEN Key ELSE {NONE} : Starts(c, pc, k, command)
  BY <1>2
<1>4. PICK command \in IF pc = "waiting" THEN Key ELSE {NONE} : Starts(c, pc, k, command)
  BY <1>3
<1>5. call' \in [Call -> Suspended] /\ \A d \in Call : Proper(call'[d])
  <2> DEFINE new == [pc |-> pc, key |-> k, command |-> command, scope |-> selected, gen |-> gen,
                     reply |-> NONE]
  <2>1. new \in Suspended /\ Proper(new)
    BY PromptQueueAssumption DEF Suspended, Proper, Shape, SomeScope
  <2>2. call' = [call EXCEPT ![c] = new]
    BY <1>4 DEF Starts
  <2> HIDE DEF new
  <2> QED BY <2>1, <2>2 DEF Shape
<1>6. store' \in Stores
  BY <1>1, StoresAttempted DEF SendNew, Cancel, SendAgain, Resume
<1>7. outcome' \in [Key -> Outcomes]
  BY <1>1 DEF SendNew, Cancel, SendAgain, Resume, Outcomes
<1> QED BY <1>4, <1>5, <1>6, <1>7 DEF Starts, Shape, world

\* A call ends.
LEMMA EndingShape ==
    ASSUME Shape, NEW c \in Call,
           \/ PostRejected(c) \/ PostConflicts(c) \/ PostUncertain(c)
           \/ WaitSucceeds(c) \/ WaitReconciles(c) \/ WaitRefused(c) \/ WaitFails(c)
           \/ CancelReturns(c) \/ CancelFails(c)
    PROVE  Shape'
<1> USE DEF Terminal
<1>1. /\ call[c].pc # "idle" /\ call[c].key \in Key /\ Ends(c) /\ Release(c)
      /\ UNCHANGED <<user, selected, opening, open, gen>>
  BY DEF Shape, Proper, PostRejected, PostConflicts, PostUncertain, WaitSucceeds, WaitReconciles,
         WaitRefused, WaitFails, CancelReturns, CancelFails
<1>2. call' \in [Call -> Suspended] /\ \A d \in Call : Proper(call'[d])
  BY <1>1, EndsShaped
<1>3. busy' \in BOOLEAN
  BY <1>1 DEF Release, Shape
<1>4. snap' \in Snapshots /\ (snap'.pc # "none" => open' = TRUE)
  <2>1. snap' = snap \/ snap' = WantSnapshot
    BY DEF PostRejected, PostConflicts, PostUncertain, WaitSucceeds, WaitReconciles, WaitRefused,
           WaitFails, CancelReturns, CancelFails
  <2> QED BY <1>1, <2>1, WantedShaped DEF Shape
<1>5. outcome' \in [Key -> Outcomes]
  <2>1. UNCHANGED outcome \/ Concludes(c, "refused") \/ Concludes(c, "done")
    BY DEF PostRejected, PostConflicts, PostUncertain, WaitSucceeds, WaitReconciles, WaitRefused,
           WaitFails, CancelReturns, CancelFails, history
  <2> QED BY <2>1, OutcomesShaped DEF Shape, Outcomes
<1>6. store' \in Stores
  <2>1. /\ store \in Stores /\ ClearAttempt(store) \in Stores
        /\ RemoveId(store, call[c].key) \in Stores
        /\ call[c].pc = "waiting" => AddId(ClearAttempt(store), call[c].command) \in Stores
    BY <1>1, StoresFreed, StoresListed DEF Shape, Proper
  <2> QED BY <2>1 DEF PostRejected, PostConflicts, PostUncertain, WaitSucceeds, WaitReconciles,
                      WaitRefused, WaitFails, CancelReturns, CancelFails
<1>7. queue' \in [Scope -> Seq(Key)]
  <2>1. CASE UNCHANGED queue
    BY <2>1 DEF Shape
  <2>2. CASE Cancelled(c)
    <3>1. \A s \in Scope : Without(queue[s], call[c].key) \in Seq(Key)
      BY WithoutIds DEF Shape
    <3> QED BY <2>2, <3>1 DEF Cancelled, Shape
  <2> QED BY <2>1, <2>2 DEF PostRejected, PostConflicts, PostUncertain, WaitSucceeds, WaitReconciles,
                            WaitRefused, WaitFails, CancelReturns, CancelFails, world
<1>8. stray' \subseteq Key
  <2>1. UNCHANGED stray \/ (call[c].pc = "waiting" /\ stray' \subseteq stray \cup {call[c].command})
    BY DEF PostRejected, PostConflicts, PostUncertain, WaitSucceeds, WaitReconciles, WaitRefused,
           WaitFails, CancelReturns, CancelFails, history
  <2> QED BY <2>1 DEF Shape, Proper
<1> QED BY <1>1, <1>2, <1>3, <1>4, <1>5, <1>6, <1>7, <1>8 DEF Shape

\* An answer comes, or the Desktop does something.
LEMMA OutsideShape ==
    ASSUME Shape,
           \/ \E c \in Call : PostAccepted(c) \/ CloudAccepts(c) \/ CloudConflicts(c) \/ CloudRejects(c)
           \/ \E p \in posts : PostArrives(p)
           \/ \E k \in Key : DesktopDecides(k)
           \/ \E s \in Scope : DesktopStarts(s)
    PROVE  Shape'
<1>1. ASSUME NEW c \in Call, PostAccepted(c) PROVE Shape'
  <2>1. call[c].key \in Key /\ call \in [Call -> Suspended] /\ call[c] \in Suspended
    BY <1>1 DEF PostAccepted, Shape, Proper
  <2>2. store' \in Stores
    BY <1>1, <2>1, StoresAttempted DEF PostAccepted, Shape
  <2>3. call' \in [Call -> Suspended] /\ \A d \in Call : Proper(call'[d])
    <3>1. CASE Ends(c)
      BY <3>1, EndsShaped
    <3>2. CASE call' = [call EXCEPT ![c].pc = "waiting", ![c].command = call[c].key, ![c].reply = NONE]
      <4> DEFINE new == [call[c] EXCEPT !.pc = "waiting", !.command = call[c].key, !.reply = NONE]
      <4>1. new \in Suspended /\ Proper(new)
        BY <2>1 DEF Suspended, Proper
      <4>2. call' = [call EXCEPT ![c] = new]
        BY <2>1, <3>2
      <4> HIDE DEF new
      <4> QED BY <2>1, <4>1, <4>2 DEF Shape
    <3> QED BY <1>1, <3>1, <3>2 DEF PostAccepted
  <2> QED BY <1>1, <2>2, <2>3 DEF PostAccepted, Shape, page, world, history
<1>2. ASSUME NEW c \in Call, CloudAccepts(c) \/ CloudConflicts(c) \/ CloudRejects(c) PROVE Shape'
  <2>1. PICK reply \in {"accepted", "conflict", "rejected"} : Replies(c, reply)
    BY <1>2 DEF CloudAccepts, CloudConflicts, CloudRejects
  <2>2. call \in [Call -> Suspended]
    BY DEF Shape
  <2>3. call' \in [Call -> Suspended] /\ \A d \in Call : Proper(call'[d])
    <3> DEFINE new == [call[c] EXCEPT !.reply = reply]
    <3>1. new \in Suspended /\ Proper(new)
      BY <2>2 DEF Suspended, Shape, Proper
    <3>2. call' = [call EXCEPT ![c] = new]
      BY <2>1, <2>2 DEF Replies
    <3> HIDE DEF new
    <3> QED BY <2>2, <3>1, <3>2 DEF Shape
  <2> QED BY <2>1, <2>3 DEF Replies, Shape, page, history
<1>3. CASE \E p \in posts : PostArrives(p)
  BY <1>3 DEF PostArrives, Shape, page, history
<1>4. ASSUME NEW k \in Key, DesktopDecides(k) PROVE Shape'
  <2>1. \A s \in Scope : Append(queue[s], k) \in Seq(Key)
    BY AppendProperties DEF Shape
  <2>2. queue' = queue \/ queue' = [queue EXCEPT ![cmd[k].scope] = Append(@, k)]
    BY <1>4 DEF DesktopDecides
  <2>3. queue' \in [Scope -> Seq(Key)]
    <3> DEFINE scope == cmd[k].scope
    <3>1. [queue EXCEPT ![scope] = Append(@, k)] \in [Scope -> Seq(Key)]
      <4> HIDE DEF scope
      <4> QED BY <2>1 DEF Shape
    <3> QED BY <2>2, <3>1 DEF Shape
  <2> QED BY <1>4, <2>3 DEF DesktopDecides, Shape, page, history
<1>5. ASSUME NEW s \in Scope, DesktopStarts(s) PROVE Shape'
  <2>1. queue[s] \in Seq(Key) /\ queue[s] # << >>
    BY <1>5 DEF DesktopStarts, Shape
  <2>2. Tail(queue[s]) \in Seq(Key)
    BY <2>1, HeadTailProperties
  <2> QED BY <1>5, <2>2 DEF DesktopStarts, Shape, page, history
<1> QED BY <1>1, <1>2, <1>3, <1>4, <1>5

LEMMA InitShape == Init => Shape
<1> SUFFICES ASSUME Init PROVE Shape
  OBVIOUS
<1>1. NoItems \in Disk
  BY EmptyIds DEF NoItems, Disk, SomeScope, SomeAttempt
<1>2. EmptyStore \in Stores
  <2> DEFINE e == [scope |-> NONE, persisted |-> NONE, attempt |-> NONE, ids |-> << >>, disk |-> NoItems]
  <2>1. e \in Stores
    BY <1>1, EmptyIds DEF Stores, SomeScope, SomeAttempt
  <2>2. Load(e.disk) \in Stores
    BY <2>1, StoresEntered
  <2> QED BY <2>2 DEF EmptyStore
<1>3. snap \in Snapshots /\ snap.pc = "none"
  BY EmptyIds DEF Init, NoSnapshot, Snapshots
<1>4. call \in [Call -> Suspended] /\ \A c \in Call : Proper(call[c])
  BY IdleTyped DEF Init
<1>5. gen \in 1 .. MaxGeneration
  BY PromptQueueAssumption DEF Init
<1> QED BY <1>2, <1>3, <1>4, <1>5, EmptyIds DEF Init, Shape, SomeScope, Outcomes

LEMMA StepShape == Shape /\ [Next]_vars => Shape'
<1> SUFFICES ASSUME Shape, [Next]_vars PROVE Shape'
  OBVIOUS
<1>1. CASE UNCHANGED vars
  BY <1>1 DEF vars, page, world, history, Shape
<1>2. CASE \/ \E s \in Scope : Select(s)
           \/ OpenReturns \/ OpenFails \/ CloseSession \/ ShowDeviceList \/ Logout \/ LoadDevices
           \/ SendUnadvertised \/ \E a \in Account : SwitchOrganization(a) \/ SignIn(a)
  BY <1>2, SelectingShape
<1>3. CASE Reload
  BY <1>3, ReloadShape
<1>4. CASE RecoveryStarts \/ SnapshotStarts \/ SnapshotReturns \/ SnapshotInstalled \/ SnapshotFails
  BY <1>4, SnapshotShape
<1>5. ASSUME NEW c \in Call,
             \/ \E k \in Key : SendNew(c, k) \/ Cancel(c, k)
             \/ SendAgain(c) \/ Resume(c)
             \/ PostAccepted(c) \/ PostRejected(c) \/ PostConflicts(c) \/ PostUncertain(c)
             \/ WaitSucceeds(c) \/ WaitReconciles(c) \/ WaitRefused(c) \/ WaitFails(c)
             \/ CancelReturns(c) \/ CancelFails(c)
             \/ CloudAccepts(c) \/ CloudConflicts(c) \/ CloudRejects(c)
      PROVE  Shape'
  BY <1>5, StartingShape, EndingShape, OutsideShape
<1>6. CASE \/ \E p \in posts : PostArrives(p)
           \/ \E k \in Key : DesktopDecides(k)
           \/ \E s \in Scope : DesktopStarts(s)
  BY <1>6, OutsideShape
<1> QED BY <1>1, <1>2, <1>3, <1>4, <1>5, <1>6 DEF Next

\* Whatever goes wrong: the store keeps keys and sessions only, and no more pending
\* operations than it may (busy-session-state.js keeps 100).
THEOREM QueueTypeOK == Spec => []TypeOK
<1>1. Shape => TypeOK
  <2> SUFFICES ASSUME Shape PROVE TypeOK
    OBVIOUS
  <2>1. ToSet(store.ids) \subseteq Key /\ Len(store.ids) <= Limit
    <3>1. store.ids \in Seq(Key) /\ Len(store.ids) <= Limit
      BY DEF Shape, Stores, IdList
    <3>2. \A i \in DOMAIN store.ids : store.ids[i] \in Key
      BY <3>1, LenProperties
    <3> QED BY <3>1, <3>2 DEF ToSet
  <2>2. store.attempt # NONE => store.attempt.key \in Key /\ store.attempt.command \in Key \cup {NONE}
    BY DEF Shape, Stores, SomeAttempt, Attempts
  <2>3. \A c \in Call : call[c].pc \in {"idle", "posting", "waiting", "cancelling"}
    BY DEF Shape, Suspended
  <2>4. store.scope \in Scope \cup {NONE} /\ store.persisted \in Scope \cup {NONE}
    BY DEF Shape, Stores, SomeScope
  <2>5. snap.pc \in {"none", "wanted", "running", "boundary"}
    BY DEF Shape, Snapshots
  <2> QED BY <2>1, <2>2, <2>3, <2>4, <2>5 DEF Shape, TypeOK, SomeScope, Outcomes
<1> QED BY <1>1, InitShape, StepShape, PTL DEF Spec

-----------------------------------------------------------------------------
(* Pending operations *)

\* The operation is one the Desktop has queued for the session s.
Pending(id, s) == id \in Key /\ cmd[id] # NONE /\ cmd[id].scope = s /\ cmd[id].status = "enqueued"
AllPending(ids, s) == \A id \in ToSet(ids) : Pending(id, s)

\* The page has entered it for the session of the store, or in answer to a call of
\* another generation.
Entered(id) ==
    /\ id \in Key /\ cmd[id] # NONE /\ cmd[id].status = "enqueued"
    /\ cmd[id].scope = store.persisted \/ id \in stray

\* So are those the page has; those of a snapshot on its way and those of the Desktop
\* are of their session.
Listing ==
    /\ \A id \in ToSet(store.ids) : Entered(id)
    /\ snap.pc = "boundary" => AllPending(snap.ids, selected)
    /\ \A s \in Scope : AllPending(queue[s], s)

\* Whatever has been posted of the key was posted for the session s.
PostedFor(k, s) ==
    /\ \A p \in posts : p.key = k => p.scope = s
    /\ \A c \in Call : call[c].pc = "posting" /\ call[c].key = k => call[c].scope = s
    /\ cmd[k] # NONE => cmd[k].scope = s

Unposted(k) ==
    /\ \A p \in posts : p.key # k
    /\ \A c \in Call : call[c].pc = "posting" => call[c].key # k
    /\ cmd[k] = NONE

\* The prompt retained has been posted for the session of the store only, that of a
\* live call for the session of the call, and the commands the page knows of have
\* been recorded.
Posting ==
    /\ \A k \in Key : HasAttempt(store, k) => PostedFor(k, store.persisted)
    /\ \A c \in Call : Live(call[c], gen) /\ Asking(call[c]) => PostedFor(call[c].key, call[c].scope)
    /\ \A k \in Key : outcome[k] = "unused" => Unposted(k)
    /\ \A c \in Call : Knows(call[c])
    /\ store.attempt # NONE /\ store.attempt.command # NONE => cmd[store.attempt.command] # NONE

HandleInv == QueueInv /\ Shape /\ Listing /\ Posting

\* What a step of the page may make of the store: parts of it go, and what stays
\* stays with its session.
Shrinks(e, f) ==
    /\ f.ids = << >> \/ (f.ids = e.ids /\ f.persisted = e.persisted)
    /\ f.attempt = NONE \/ (f.attempt = e.attempt /\ f.persisted = e.persisted)

LEMMA ClearShrinks ==
    ASSUME NEW e, InStep(e)
    PROVE  Shrinks(e, Clear(e)) /\ Shrinks(e, LeaveScope(e))
<1>1. Clear(e) = Store(NONE, NONE, NONE, << >>, NoItems)
  BY Cleared DEF Clear, LeaveScope, Store
<1>2. LeaveScope(e) = [scope |-> NONE, persisted |-> e.persisted, attempt |-> e.attempt,
                       ids |-> e.ids, disk |-> e.disk]
  BY DEF LeaveScope, InStep
<1> QED BY <1>1, <1>2 DEF Shrinks, Store

LEMMA PageShrinks ==
    ASSUME NEW e, InStep(e)
    PROVE  /\ \A sessions : Shrinks(e, Fence(e, sessions)) /\ Shrinks(e, Fence(LeaveScope(e), sessions))
           /\ \A s \in Scope : Shrinks(e, EnterScope(e, s))
           /\ Shrinks(e, Load(e.disk))
<1>1. \A sessions : Shrinks(e, Fence(e, sessions))
  BY ClearShrinks DEF Fence, Shrinks
<1>2. \A sessions : Shrinks(e, Fence(LeaveScope(e), sessions))
  <2> DEFINE f == LeaveScope(e)
  <2>1. InStep(f) /\ Shrinks(e, f)
    BY LeaveKeeps, ClearShrinks
  <2> HIDE DEF f
  <2>2. Shrinks(f, Clear(f))
    BY <2>1, ClearShrinks
  <2>3. Shrinks(e, Clear(f))
    BY <2>1, <2>2 DEF Shrinks
  <2> QED BY <2>1, <2>3 DEF Fence, f
<1>3. ASSUME NEW s \in Scope PROVE Shrinks(e, EnterScope(e, s))
  <2>1. CASE e.persisted \in {NONE, s}
    <3>1. EnterScope(e, s) = [e EXCEPT !.scope = s, !.persisted = s]
      BY <2>1 DEF EnterScope
    <3>2. EnterScope(e, s) = [scope |-> s, persisted |-> s, attempt |-> e.attempt,
                              ids |-> e.ids, disk |-> e.disk]
      BY <3>1 DEF InStep
    <3> QED BY <2>1, <3>2 DEF InStep, Shrinks
  <2>2. CASE e.persisted \notin {NONE, s}
    <3>1. EnterScope(e, s) = [Store(e.scope, NONE, NONE, << >>, NoItems)
                                EXCEPT !.scope = s, !.persisted = s]
      BY <2>2, Cleared DEF EnterScope
    <3> QED BY <3>1 DEF Shrinks, Store
  <2> QED BY <2>1, <2>2
<1>4. Shrinks(e, Load(e.disk))
  BY LoadFinds DEF Shrinks
<1> QED BY <1>1, <1>2, <1>3, <1>4

\* What is filed is filed under the session in use, and only while there is one.
LEMMA Filed ==
    ASSUME NEW e, InStep(e), NEW id, NEW ids
    PROVE  /\ RemoveId(e, id).ids = Without(e.ids, id) /\ RemoveId(e, id).persisted = e.persisted
           /\ AddId(e, id).persisted = e.persisted /\ ReplaceIds(e, ids).persisted = e.persisted
           /\ IF e.scope = NONE THEN AddId(e, id) = e /\ ReplaceIds(e, ids) = e
              ELSE /\ e.persisted = e.scope
                   /\ AddId(e, id).ids = Newest(Append(Without(e.ids, id), id))
                   /\ ReplaceIds(e, ids).ids = Newest(ids)
<1>1. \A new : /\ SaveIds([e EXCEPT !.ids = new]).ids = new
               /\ SaveIds([e EXCEPT !.ids = new]).persisted = e.persisted
  BY DEF SaveIds, InStep
<1>2. RemoveId(e, id).ids = Without(e.ids, id) /\ RemoveId(e, id).persisted = e.persisted
  BY <1>1 DEF RemoveId
<1>3. CASE e.scope = NONE
  BY <1>2, <1>3 DEF AddId, ReplaceIds
<1>4. CASE e.scope # NONE
  <2>1. e.persisted = e.scope
    BY <1>4 DEF InStep
  <2>2. \A new : [e EXCEPT !.persisted = e.scope, !.ids = new] = [e EXCEPT !.ids = new]
    BY <2>1 DEF InStep
  <2>3. /\ AddId(e, id) = SaveIds([e EXCEPT !.ids = Newest(Append(Without(e.ids, id), id))])
        /\ ReplaceIds(e, ids) = SaveIds([e EXCEPT !.ids = Newest(ids)])
    BY <1>4, <2>2 DEF AddId, ReplaceIds
  <2> QED BY <1>1, <1>2, <1>4, <2>1, <2>3
<1> QED BY <1>3, <1>4

\* What concerns the attempt leaves the pending operations alone.
LEMMA AttemptApart ==
    ASSUME NEW e, InStep(e), NEW k
    PROVE  /\ ClearAttempt(e).ids = e.ids /\ ClearAttempt(e).persisted = e.persisted
           /\ SetCommand(e, k).ids = e.ids /\ SetCommand(e, k).persisted = e.persisted
           /\ BeginAttempt(e, k).ids = e.ids /\ BeginAttempt(e, k).persisted = e.persisted
<1>1. ASSUME NEW a
      PROVE  /\ SaveAttempt([e EXCEPT !.attempt = a]).ids = e.ids
             /\ SaveAttempt([e EXCEPT !.attempt = a]).persisted = e.persisted
  BY DEF SaveAttempt, InStep
<1>2. e.scope # NONE => \A a : [e EXCEPT !.persisted = e.scope, !.attempt = a] = [e EXCEPT !.attempt = a]
  BY DEF InStep
<1>3. [e EXCEPT !.attempt.command = k] = [e EXCEPT !.attempt = [e.attempt EXCEPT !.command = k]]
  BY DEF InStep
<1>4. ClearAttempt(e).ids = e.ids /\ ClearAttempt(e).persisted = e.persisted
  BY <1>1 DEF ClearAttempt
<1>5. SetCommand(e, k).ids = e.ids /\ SetCommand(e, k).persisted = e.persisted
  BY <1>1, <1>3 DEF SetCommand
<1>6. BeginAttempt(e, k).ids = e.ids /\ BeginAttempt(e, k).persisted = e.persisted
  <2>1. CASE e.scope = NONE
    BY <2>1 DEF BeginAttempt
  <2>2. CASE e.scope # NONE
    BY <1>1, <1>2, <2>2 DEF BeginAttempt
  <2> QED BY <2>1, <2>2
<1> QED BY <1>4, <1>5, <1>6

LEMMA FewerIds ==
    ASSUME NEW s \in Seq(Key), NEW k \in Key
    PROVE  /\ ToSet(Newest(s)) \subseteq ToSet(s)
           /\ ToSet(Append(s, k)) = ToSet(s) \cup {k} /\ Append(s, k) \in Seq(Key)
           /\ s # << >> => ToSet(Tail(s)) \subseteq ToSet(s)
<1>1. ToSet(Newest(s)) \subseteq ToSet(s)
  BY NewestIds DEF ToSet
<1>2. IsSequence(s)
  BY MembersMakeSequence
<1>3. ToSet(Append(s, k)) = ToSet(s) \cup {k}
  <2> DEFINE r == Append(s, k)
  <2>1. /\ DOMAIN r = 1 .. Len(s) + 1 /\ DOMAIN s = 1 .. Len(s) /\ Len(s) \in Nat
        /\ \A i \in DOMAIN s : r[i] = s[i]
        /\ r[Len(s) + 1] = k
    BY <1>2, AppendToSequence, SequenceBasics
  <2> HIDE DEF r
  <2>2. \A i \in DOMAIN r : i \in DOMAIN s \/ i = Len(s) + 1
    BY <2>1
  <2>3. Len(s) + 1 \in DOMAIN r /\ \A i \in DOMAIN s : i \in DOMAIN r
    BY <2>1
  <2>4. ToSet(r) \subseteq ToSet(s) \cup {k}
    BY <2>1, <2>2 DEF ToSet
  <2>5. ToSet(s) \cup {k} \subseteq ToSet(r)
    BY <2>1, <2>3 DEF ToSet
  <2> QED BY <2>4, <2>5 DEF r
<1>4. s # << >> => ToSet(Tail(s)) \subseteq ToSet(s)
  BY <1>2, TailOfSequence DEF ToSet
<1> QED BY <1>1, <1>3, <1>4, AppendProperties

\* What is recorded of a command stays, but for the Desktop's decision.
Grows ==
    \A k \in Key : cmd[k] # NONE =>
        /\ cmd'[k] # NONE /\ cmd'[k].scope = cmd[k].scope
        /\ cmd[k].status = "enqueued" => cmd'[k].status = "enqueued"

LEMMA CommandsGrow == ASSUME QueueInv, [Next]_vars PROVE Grows
<1>1. CASE UNCHANGED cmd
  BY <1>1 DEF Grows
<1>2. ASSUME NEW k \in Key, NEW s \in Scope \cup {NONE}, NEW g \in Nat, Records(k, s, g), cmd[k] = NONE
      PROVE  Grows
  BY <1>2, RecordsTyped DEF Grows
<1>3. ASSUME NEW c \in Call, CloudAccepts(c) PROVE Grows
  <2>1. call[c].pc = "posting" /\ call[c] \in Suspended /\ call[c].key \in Key
    BY <1>3 DEF CloudAccepts, Replies, QueueInv, Typed, Proper
  <2>2. call[c].scope \in Scope \cup {NONE} /\ call[c].gen \in Nat
    BY <2>1 DEF Suspended
  <2> QED BY <1>1, <1>2, <1>3, <2>1, <2>2 DEF CloudAccepts
<1>4. ASSUME NEW p \in posts, PostArrives(p) PROVE Grows
  <2>1. p.key \in Key /\ p.scope \in Scope \cup {NONE} /\ p.gen \in Nat
    BY DEF QueueInv, Typed, Posts
  <2> QED BY <1>1, <1>2, <1>4, <2>1 DEF PostArrives
<1>5. ASSUME NEW k \in Key, DesktopDecides(k) PROVE Grows
  <2>1. PICK status \in {"enqueued", "started", "failed"} : cmd' = [cmd EXCEPT ![k].status = status]
    BY <1>5 DEF DesktopDecides
  <2>2. cmd[k] \in Commands /\ cmd[k].status = "queued"
    BY <1>5 DEF DesktopDecides, QueueInv, Typed
  <2>3. cmd'[k].scope = cmd[k].scope
    BY <2>1, <2>2 DEF QueueInv, Typed, Commands
  <2> QED BY <1>5, <2>2, <2>3, DecidesTyped DEF Grows
<1>6. \/ UNCHANGED cmd \/ \E c \in Call : CloudAccepts(c)
      \/ \E p \in posts : PostArrives(p)
      \/ \E k \in Key : DesktopDecides(k)
  BY DEF Next, vars, world, Select, DesktopStarts, OpenReturns, OpenFails, CloseSession, ShowDeviceList,
         Logout, Reload, LoadDevices, SendUnadvertised, SwitchOrganization, SignIn, RecoveryStarts,
         SnapshotStarts, SnapshotReturns, SnapshotInstalled, SnapshotFails, SendNew, Cancel, SendAgain, Resume, Starts,
         PostAccepted, PostRejected, PostConflicts, PostUncertain, WaitSucceeds, WaitReconciles,
         WaitRefused, WaitFails, Terminal, CancelReturns, CancelFails, CloudConflicts, CloudRejects
<1> QED BY <1>1, <1>3, <1>4, <1>5, <1>6

LEMMA PendingStays ==
    ASSUME Grows PROVE \A id, s : Pending(id, s) => Pending(id, s)'
BY DEF Grows, Pending

\* The session of a live call is the one everything in the store belongs to, unless
\* the store has none.
LEMMA InUseNow ==
    ASSUME HandleInv, open = TRUE
    PROVE  /\ selected \in Scope
           /\ store.scope # NONE => store.scope = selected /\ store.persisted = selected
           /\ store.scope = NONE => store.attempt = NONE
BY Nothing DEF HandleInv, QueueInv, Present, InStep, Shape

LEMMA StoreShrinks ==
    ASSUME HandleInv,
           \/ \E s \in Scope : Select(s)
           \/ OpenReturns \/ OpenFails \/ CloseSession \/ ShowDeviceList \/ Logout \/ LoadDevices
           \/ SendUnadvertised \/ \E a \in Account : SwitchOrganization(a) \/ SignIn(a)
           \/ Reload \/ RecoveryStarts \/ SnapshotStarts \/ SnapshotReturns \/ SnapshotFails
    PROVE  Shrinks(store, store') /\ stray' = stray
<1>1. InStep(store) /\ (opening = TRUE => selected \in Scope)
  BY DEF HandleInv, QueueInv, Shape
<1>2. Shrinks(store, store)
  BY DEF Shrinks
<1>3. Shrinks(store, ClearAttempt(store))
  BY <1>1, ClearAttemptKeeps, AttemptApart DEF Shrinks
<1>4. stray' = stray
  BY DEF Select, OpenReturns, OpenFails, CloseSession, ShowDeviceList, Logout, LoadDevices,
         SendUnadvertised, SwitchOrganization, SignIn, Reload, RecoveryStarts, SnapshotStarts,
         SnapshotReturns, SnapshotFails, Leaves, Drops, history
<1>5. Shrinks(store, store')
  BY <1>1, <1>2, <1>3, ClearShrinks, PageShrinks
     DEF HandleInv, Shape, Select, OpenReturns, OpenFails, CloseSession, ShowDeviceList, Logout, LoadDevices,
         SendUnadvertised, SwitchOrganization, SignIn, Reload, RecoveryStarts, SnapshotStarts,
         SnapshotReturns, SnapshotFails
<1> QED BY <1>4, <1>5

LEMMA QueueListed ==
    ASSUME HandleInv, [Next]_vars PROVE \A s \in Scope : \A id \in ToSet(queue'[s]) : Pending(id, s)'
<1>1. \A s \in Scope : AllPending(queue[s], s) /\ queue[s] \in Seq(Key)
  BY DEF HandleInv, Listing, Shape
<1>2. Grows
  BY CommandsGrow DEF HandleInv
<1>3. CASE UNCHANGED queue
  BY <1>1, <1>2, <1>3, PendingStays DEF AllPending
<1>4. ASSUME NEW c \in Call, Cancelled(c) PROVE \A s \in Scope : \A id \in ToSet(queue'[s]) : Pending(id, s)'
  <2>1. \A s \in Scope : ToSet(Without(queue[s], call[c].key)) \subseteq ToSet(queue[s])
    BY <1>1, WithoutIds
  <2>2. \A s \in Scope : queue'[s] \in {queue[s], Without(queue[s], call[c].key)}
    BY <1>4 DEF Cancelled, HandleInv, Shape
  <2>3. \A s \in Scope : ToSet(queue'[s]) \subseteq ToSet(queue[s])
    BY <2>1, <2>2
  <2> QED BY <1>1, <1>2, <2>3, PendingStays DEF AllPending
<1>5. ASSUME NEW k \in Key, DesktopDecides(k) PROVE \A s \in Scope : \A id \in ToSet(queue'[s]) : Pending(id, s)'
  <2>1. cmd[k] \in Commands
    BY <1>5 DEF DesktopDecides, HandleInv, QueueInv, Typed
  <2>2. PICK status \in {"enqueued", "started", "failed"} :
           /\ cmd' = [cmd EXCEPT ![k].status = status]
           /\ queue' = IF status = "enqueued"
                       THEN [queue EXCEPT ![cmd[k].scope] = Append(@, k)] ELSE queue
    BY <1>5 DEF DesktopDecides
  <2>3. CASE status # "enqueued"
    BY <1>3, <2>2, <2>3
  <2>4. CASE status = "enqueued"
    <3>0. PICK scope : scope = cmd[k].scope
      OBVIOUS
    <3>1. Pending(k, scope)'
      <4>1. [cmd[k] EXCEPT !.status = status].scope = scope
            /\ [cmd[k] EXCEPT !.status = status].status = status
        BY <2>1, <3>0 DEF Commands
      <4>2. cmd'[k] = [cmd[k] EXCEPT !.status = status]
        BY <2>2 DEF HandleInv, QueueInv, Typed
      <4>3. cmd'[k] # NONE
        BY <1>5, DecidesTyped DEF HandleInv
      <4> QED BY <2>4, <4>1, <4>2, <4>3 DEF Pending
    <3>2. queue' = [queue EXCEPT ![scope] = Append(@, k)]
      BY <2>2, <2>4, <3>0
    <3>3. \A s \in Scope : queue'[s] = queue[s] \/ (s = scope /\ queue'[s] = Append(queue[s], k))
      BY <3>2 DEF HandleInv, Shape
    <3>4. \A s \in Scope : ToSet(Append(queue[s], k)) = ToSet(queue[s]) \cup {k}
      BY <1>1, FewerIds
    <3>5. ASSUME NEW s \in Scope, NEW id \in ToSet(queue'[s]) PROVE Pending(id, s)'
      <4>1. id \in ToSet(queue[s]) \/ (id = k /\ s = scope)
        <5>1. CASE queue'[s] = queue[s]
          BY <5>1
        <5>2. CASE s = scope /\ queue'[s] = Append(queue[s], k)
          BY <3>4, <5>2
        <5> QED BY <3>3, <5>1, <5>2
      <4>2. CASE id \in ToSet(queue[s])
        BY <1>1, <1>2, <4>2, PendingStays DEF AllPending
      <4> QED BY <3>1, <4>1, <4>2
    <3> QED BY <3>5 DEF AllPending
  <2> QED BY <2>3, <2>4
<1>6. ASSUME NEW s \in Scope, DesktopStarts(s) PROVE \A r \in Scope : \A id \in ToSet(queue'[r]) : Pending(id, r)'
  <2>1. \A r \in Scope : queue'[r] = queue[r] \/ (r = s /\ queue'[r] = Tail(queue[r]))
    BY <1>6 DEF DesktopStarts, HandleInv, Shape
  <2>2. \E k : k \in Key
    <3>1. queue[s] \in Seq(Key) /\ queue[s] # << >>
      BY <1>1, <1>6 DEF DesktopStarts
    <3> QED BY <3>1, HeadTailProperties
  <2>3. ToSet(Tail(queue[s])) \subseteq ToSet(queue[s])
    BY <1>1, <1>6, <2>2, FewerIds DEF DesktopStarts
  <2>4. \A r \in Scope : ToSet(queue'[r]) \subseteq ToSet(queue[r])
    BY <2>1, <2>3
  <2> QED BY <1>1, <1>2, <2>4, PendingStays DEF AllPending
<1>7. \/ UNCHANGED queue \/ \E c \in Call : Cancelled(c)
      \/ \E k \in Key : DesktopDecides(k)
      \/ \E s \in Scope : DesktopStarts(s)
  BY DEF Next, vars, world, Select, OpenReturns, OpenFails, CloseSession, ShowDeviceList,
         Logout, Reload, LoadDevices, SendUnadvertised, SwitchOrganization, SignIn, RecoveryStarts,
         SnapshotStarts, SnapshotReturns, SnapshotInstalled, SnapshotFails, SendNew, Cancel, SendAgain, Resume, Starts,
         PostAccepted, PostRejected, PostConflicts, PostUncertain, WaitSucceeds, WaitReconciles,
         WaitRefused, WaitFails, Terminal, CancelReturns, CancelFails, CloudAccepts, CloudConflicts,
         CloudRejects, Replies, PostArrives
<1> QED BY <1>3, <1>4, <1>5, <1>6, <1>7

LEMMA SnapshotListed ==
    ASSUME HandleInv, [Next]_vars, snap'.pc = "boundary"
    PROVE  AllPending(snap.ids, selected)'
<1>1. Grows
  BY CommandsGrow DEF HandleInv
<1>2. CASE SnapshotReturns
  <2>1. selected \in Scope /\ snap'.ids = queue[selected] /\ selected' = selected
    BY <1>2 DEF SnapshotReturns, HandleInv, Shape
  <2> QED BY <1>1, <2>1 DEF HandleInv, Listing, AllPending, Pending, Grows
<1>3. CASE snap' = snap /\ (selected' = selected \/ open = FALSE)
  <2>1. snap.pc = "boundary" /\ selected' = selected
    BY <1>3 DEF HandleInv, Shape
  <2> QED BY <1>1, <1>3, <2>1 DEF HandleInv, Listing, AllPending, Pending, Grows
<1>4. SnapshotReturns \/ (snap' = snap /\ (selected' = selected \/ ~open))
  <2>1. NoSnapshot.pc = "none" /\ [NoSnapshot EXCEPT !.pc = "wanted"].pc = "wanted"
        /\ [NoSnapshot EXCEPT !.pc = "running"].pc = "running"
        /\ [snap EXCEPT !.pc = "running"].pc = "running"
    BY DEF NoSnapshot, HandleInv, Shape, Snapshots
  <2> HIDE DEF NoSnapshot
  <2>2. \/ SnapshotReturns
        \/ snap' = WantSnapshot /\ selected' = selected
        \/ snap' = snap /\ (selected' = selected \/ ~open)
        \/ snap' = NoSnapshot
        \/ snap' = [NoSnapshot EXCEPT !.pc = "running"]
        \/ snap' = [snap EXCEPT !.pc = "running"]
    <3>1. CASE \/ \E s \in Scope : Select(s)
               \/ OpenReturns \/ OpenFails \/ CloseSession \/ ShowDeviceList \/ Logout \/ LoadDevices
               \/ SendUnadvertised \/ \E a \in Account : SwitchOrganization(a) \/ SignIn(a)
               \/ Reload
      BY <3>1 DEF Select, OpenReturns, OpenFails, CloseSession, ShowDeviceList, Logout, LoadDevices,
                  SendUnadvertised, SwitchOrganization, SignIn, Reload, NewGeneration, Resets, page
    <3>2. CASE RecoveryStarts \/ SnapshotStarts \/ SnapshotReturns \/ SnapshotInstalled \/ SnapshotFails
      BY <3>2 DEF RecoveryStarts, SnapshotStarts, SnapshotInstalled, SnapshotFails, NewGeneration, page
    <3>3. ASSUME NEW c \in Call,
             \/ \E k \in Key : SendNew(c, k) \/ Cancel(c, k)
             \/ SendAgain(c) \/ Resume(c)
             \/ PostAccepted(c) \/ PostRejected(c) \/ PostConflicts(c) \/ PostUncertain(c)
             \/ WaitSucceeds(c) \/ WaitReconciles(c) \/ WaitRefused(c) \/ WaitFails(c)
             \/ CancelReturns(c) \/ CancelFails(c)
             \/ CloudAccepts(c) \/ CloudConflicts(c) \/ CloudRejects(c)
          PROVE  selected' = selected /\ (snap' = snap \/ snap' = WantSnapshot)
      BY <3>3 DEF page, SendNew, Cancel, SendAgain, Resume, Starts, PostAccepted, PostRejected,
                  PostConflicts, PostUncertain, WaitSucceeds, WaitReconciles, WaitRefused, WaitFails,
                  Terminal, CancelReturns, CancelFails, CloudAccepts, CloudConflicts, CloudRejects, Replies
    <3>4. CASE \/ \E p \in posts : PostArrives(p)
               \/ \E k \in Key : DesktopDecides(k)
               \/ \E s \in Scope : DesktopStarts(s)
               \/ UNCHANGED vars
      BY <3>4 DEF PostArrives, DesktopDecides, DesktopStarts, vars, page
    <3> QED BY <3>1, <3>2, <3>3, <3>4 DEF Next
  <2> QED BY <2>1, <2>2 DEF WantSnapshot
<1> QED BY <1>2, <1>3, <1>4 DEF HandleInv, Shape

\* Without a snapshot nothing that was entered by a late answer is forgotten.
LEMMA StrayKeeps ==
    ASSUME [Next]_vars PROVE stray \subseteq stray' \/ SnapshotInstalled
<1>1. CASE \/ \E s \in Scope : Select(s) \/ DesktopStarts(s)
           \/ OpenReturns \/ OpenFails \/ CloseSession \/ ShowDeviceList \/ Logout \/ Reload
           \/ LoadDevices \/ SendUnadvertised
           \/ \E a \in Account : SwitchOrganization(a) \/ SignIn(a)
           \/ RecoveryStarts \/ SnapshotStarts \/ SnapshotReturns \/ SnapshotFails
  BY <1>1 DEF Select, DesktopStarts, OpenReturns, OpenFails, CloseSession, ShowDeviceList, Logout,
              LoadDevices, SendUnadvertised, SwitchOrganization, SignIn, Reload, RecoveryStarts,
              SnapshotStarts, SnapshotReturns, SnapshotFails, Leaves, Drops, history
<1>2. ASSUME NEW c \in Call,
             \/ \E k \in Key : SendNew(c, k) \/ Cancel(c, k)
             \/ SendAgain(c) \/ Resume(c)
             \/ PostAccepted(c) \/ PostRejected(c) \/ PostConflicts(c) \/ PostUncertain(c)
             \/ WaitSucceeds(c) \/ WaitReconciles(c) \/ WaitRefused(c) \/ WaitFails(c)
             \/ CancelReturns(c) \/ CancelFails(c)
             \/ CloudAccepts(c) \/ CloudConflicts(c) \/ CloudRejects(c)
      PROVE  stray \subseteq stray'
  BY <1>2 DEF SendNew, Cancel, SendAgain, Resume, Starts, PostAccepted, PostRejected, PostConflicts,
              PostUncertain, WaitSucceeds, WaitReconciles, WaitRefused, WaitFails, CancelReturns,
              CancelFails, CloudAccepts, CloudConflicts, CloudRejects, Replies, history
<1>3. CASE (\E p \in posts : PostArrives(p)) \/ (\E k \in Key : DesktopDecides(k)) \/ UNCHANGED vars
  BY <1>3 DEF PostArrives, DesktopDecides, vars, history
<1> QED BY <1>1, <1>2, <1>3 DEF Next

\* What was entered stays so as long as it is kept with its session.
LEMMA EnteredKeeps ==
    ASSUME HandleInv, Grows, stray \subseteq stray', ToSet(store'.ids) \subseteq ToSet(store.ids),
           store'.persisted = store.persisted
    PROVE  \A id \in ToSet(store'.ids) : Entered(id)'
BY DEF HandleInv, Listing, Entered, Grows

\* A prompt that succeeds goes from the attempt to the pending operations.
LEMMA SucceedsListed ==
    ASSUME HandleInv, Grows, NEW c \in Call, WaitSucceeds(c)
    PROVE  \A id \in ToSet(store'.ids) : Entered(id)'
<1>0. InStep(store) /\ store.ids \in Seq(Key)
  BY DEF HandleInv, QueueInv, Shape, Stores, IdList
<1>1. /\ call[c].pc = "waiting" /\ call[c].key \in Key /\ call[c].command \in Key
      /\ cmd[call[c].command] # NONE /\ call[c].gen \in Nat
  BY DEF WaitSucceeds, Terminal, HandleInv, Shape, Suspended, Proper, Posting, Knows
<1>k. PICK k : k = call[c].command
  OBVIOUS
<1> DEFINE e == ClearAttempt(store)
<1>2. InStep(e) /\ e.ids = store.ids /\ e.persisted = store.persisted /\ e.scope = store.scope
  BY <1>0, ClearAttemptKeeps, AttemptApart
<1>3. /\ store' = IF cmd[k].status = "enqueued" THEN AddId(e, k) ELSE e
      /\ stray' = IF cmd[k].status = "enqueued" /\ (Late(c) \/ Foreign(c)) THEN stray \cup {k} ELSE stray
  BY <1>k DEF WaitSucceeds
<1> HIDE DEF e
<1>4. CASE cmd[k].status # "enqueued" \/ store.scope = NONE
  <2>1. store' = e \/ (store' = AddId(e, k) /\ store.scope = NONE)
    BY <1>3, <1>4
  <2>2. store'.ids = store.ids /\ store'.persisted = store.persisted
    BY <1>2, <2>1, Filed
  <2> QED BY <1>3, <2>2, EnteredKeeps
<1>5. CASE cmd[k].status = "enqueued" /\ store.scope # NONE
  <2>1. Entered(k)'
    <3>1. cmd'[k] # NONE /\ cmd'[k].status = "enqueued" /\ cmd'[k].scope = cmd[k].scope
      BY <1>k, <1>1, <1>5 DEF Grows
    <3>2. store'.persisted = store.persisted
      BY <1>2, <1>3, <1>5, Filed
    <3>3. CASE Late(c) \/ Foreign(c)
      BY <1>k, <1>1, <1>3, <1>5, <3>1, <3>3 DEF Entered
    <3>4. CASE ~(Late(c) \/ Foreign(c))
      <4>1. k = call[c].key /\ Live(call[c], gen) /\ Asking(call[c])
        BY <1>k, <1>1, <3>4, Nothing DEF Late, Foreign, Live, Asking
      <4>2. call[c].scope = selected /\ open = TRUE
        BY <4>1 DEF HandleInv, QueueInv, Present
      <4>3. store.persisted = selected
        BY <1>5, <4>2, InUseNow
      <4>4. cmd[k].scope = call[c].scope
        BY <1>k, <1>1, <4>1 DEF HandleInv, Posting, PostedFor
      <4> QED BY <1>k, <1>1, <1>5, <3>1, <3>2, <4>2, <4>3, <4>4 DEF Entered
    <3> QED BY <3>3, <3>4
  <2>2. store'.ids = Newest(Append(Without(store.ids, k), k)) /\ store'.persisted = store.persisted
    BY <1>2, <1>3, <1>5, Filed
  <2>3. ToSet(store'.ids) \subseteq ToSet(store.ids) \cup {k}
    <3>1. Without(store.ids, k) \in Seq(Key) /\ ToSet(Without(store.ids, k)) \subseteq ToSet(store.ids)
      BY <1>0, WithoutIds
    <3>2. /\ Append(Without(store.ids, k), k) \in Seq(Key)
          /\ ToSet(Append(Without(store.ids, k), k)) \subseteq ToSet(store.ids) \cup {k}
      BY <1>k, <1>1, <3>1, FewerIds
    <3>3. ToSet(Newest(Append(Without(store.ids, k), k))) \subseteq ToSet(Append(Without(store.ids, k), k))
      BY <1>k, <1>1, <3>2, FewerIds
    <3> QED BY <2>2, <3>2, <3>3
  <2>4. \A id \in ToSet(store.ids) : Entered(id)'
    BY <1>3, <2>2 DEF HandleInv, Listing, Entered, Grows
  <2> QED BY <2>1, <2>3, <2>4
<1> QED BY <1>4, <1>5

\* A snapshot replaces what the page has by what the Desktop has for the session.
LEMMA InstalledListed ==
    ASSUME HandleInv, Grows, SnapshotInstalled
    PROVE  \A id \in ToSet(store'.ids) : Entered(id)'
<1>1. open = TRUE /\ snap.pc = "boundary" /\ snap.ids \in Seq(Key) /\ InStep(store)
  BY DEF SnapshotInstalled, HandleInv, QueueInv, Shape, Snapshots
<1>2. CASE store.scope = NONE
  <2>1. store' = store /\ stray' = stray
    BY <1>1, <1>2, Filed DEF SnapshotInstalled
  <2> QED BY <2>1, EnteredKeeps
<1>3. CASE store.scope # NONE
  <2>1. store'.ids = Newest(snap.ids) /\ store'.persisted = selected
    BY <1>1, <1>3, Filed, InUseNow DEF SnapshotInstalled
  <2>2. ToSet(Newest(snap.ids)) \subseteq ToSet(snap.ids)
    BY <1>1, NewestIds DEF ToSet
  <2>3. AllPending(snap.ids, selected)
    BY <1>1 DEF HandleInv, Listing
  <2> QED BY <2>1, <2>2, <2>3 DEF AllPending, Pending, Entered, Grows
<1> QED BY <1>2, <1>3

LEMMA StoreListed ==
    ASSUME HandleInv, [Next]_vars
    PROVE  \A id \in ToSet(store'.ids) : Entered(id)'
<1> DEFINE Goal == \A id \in ToSet(store'.ids) : Entered(id)'
<1> SUFFICES Goal
  OBVIOUS
<1>0. InStep(store) /\ store.ids \in Seq(Key) /\ call \in [Call -> Suspended]
  BY DEF HandleInv, QueueInv, Shape, Stores, IdList
<1>1. Grows
  BY CommandsGrow DEF HandleInv
<1>2. ASSUME stray \subseteq stray', ToSet(store'.ids) \subseteq ToSet(store.ids),
             store'.persisted = store.persisted
      PROVE  Goal
  BY <1>1, <1>2, EnteredKeeps
<1> HIDE DEF Goal
<1>3. ASSUME stray \subseteq stray', store'.ids = store.ids, store'.persisted = store.persisted PROVE Goal
  BY <1>2, <1>3
<1>4. CASE \/ \E s \in Scope : Select(s)
           \/ OpenReturns \/ OpenFails \/ CloseSession \/ ShowDeviceList \/ Logout \/ LoadDevices
           \/ SendUnadvertised \/ \E a \in Account : SwitchOrganization(a) \/ SignIn(a)
           \/ Reload \/ RecoveryStarts \/ SnapshotStarts \/ SnapshotReturns \/ SnapshotFails
  <2>1. Shrinks(store, store') /\ stray' = stray
    BY <1>4, StoreShrinks
  <2>2. ToSet(<< >>) = {}
    BY DEF ToSet
  <2>3. store'.ids = << >> => Goal
    BY <2>2 DEF Goal
  <2> QED BY <1>3, <2>1, <2>3 DEF Shrinks
<1>5. CASE SnapshotInstalled
  BY <1>1, <1>5, InstalledListed DEF Goal
<1>6. ASSUME NEW c \in Call,
             \/ \E k \in Key : SendNew(c, k) \/ Cancel(c, k)
             \/ SendAgain(c) \/ Resume(c)
             \/ PostAccepted(c) \/ PostRejected(c) \/ PostConflicts(c) \/ PostUncertain(c)
             \/ WaitSucceeds(c) \/ WaitReconciles(c) \/ WaitRefused(c) \/ WaitFails(c)
             \/ CancelReturns(c) \/ CancelFails(c)
             \/ CloudAccepts(c) \/ CloudConflicts(c) \/ CloudRejects(c),
             ~SnapshotInstalled
      PROVE  Goal
  <2>1. CASE WaitSucceeds(c)
    BY <1>1, <2>1, SucceedsListed DEF Goal
  <2>2. stray \subseteq stray'
    BY <1>6, StrayKeeps
  <2>3. CASE CancelReturns(c)
    <3>1. store'.ids = Without(store.ids, call[c].key) /\ store'.persisted = store.persisted
      BY <1>0, <2>3, Filed DEF CancelReturns
    <3> QED BY <1>0, <1>2, <2>2, <3>1, WithoutIds
  <2>4. CASE store' \in {store, ClearAttempt(store)} \/ PostAccepted(c) \/ \E k \in Key : SendNew(c, k)
    <3>1. store'.ids = store.ids /\ store'.persisted = store.persisted
      BY <1>0, <2>4, AttemptApart DEF PostAccepted, SendNew
    <3> QED BY <1>3, <2>2, <3>1
  <2>5. \/ store' \in {store, ClearAttempt(store)} \/ PostAccepted(c) \/ WaitSucceeds(c)
        \/ CancelReturns(c) \/ \E k \in Key : SendNew(c, k)
    BY <1>6 DEF Cancel, SendAgain, Resume, PostRejected, PostConflicts, PostUncertain,
         WaitReconciles, WaitRefused, WaitFails, CancelFails, CloudAccepts, CloudConflicts,
         CloudRejects, Replies
  <2> QED BY <2>1, <2>3, <2>4, <2>5
<1>7. CASE \/ \E p \in posts : PostArrives(p)
           \/ \E k \in Key : DesktopDecides(k)
           \/ \E s \in Scope : DesktopStarts(s)
           \/ UNCHANGED vars
  <2>1. UNCHANGED <<store, stray>>
    BY <1>7 DEF PostArrives, DesktopDecides, DesktopStarts, vars, history
  <2> QED BY <1>3, <2>1
<1> QED BY <1>4, <1>5, <1>6, <1>7 DEF Next

LEMMA ListingStep == ASSUME HandleInv, [Next]_vars PROVE Listing'
BY QueueListed, SnapshotListed, StoreListed DEF Listing, AllPending

-----------------------------------------------------------------------------
(* What has been posted *)

\* Nothing is posted that was not under way.
Traced ==
    /\ \A p \in posts' : \/ p \in posts
                         \/ \E c \in Call : call[c].pc = "posting" /\ call[c].key = p.key
                                               /\ call[c].scope = p.scope
    /\ \A c \in Call : call'[c].pc = "posting" =>
                           call[c].pc = "posting" /\ call'[c].key = call[c].key
                             /\ call'[c].scope = call[c].scope
    /\ \A k \in Key : cmd'[k] # NONE =>
          \/ cmd[k] # NONE /\ cmd'[k].scope = cmd[k].scope
          \/ \E p \in posts : p.key = k /\ p.scope = cmd'[k].scope
          \/ \E c \in Call : call[c].pc = "posting" /\ call[c].key = k /\ call[c].scope = cmd'[k].scope

LEMMA TracedKeeps ==
    ASSUME Traced
    PROVE  /\ \A k \in Key : \A s : PostedFor(k, s) => PostedFor(k, s)'
           /\ \A k \in Key : Unposted(k) => Unposted(k)'
BY DEF Traced, PostedFor, Unposted

\* The live call is the one there was, and the page hears of a command when it has
\* been recorded.
Heard ==
    /\ \A c \in Call : Live(call'[c], gen') /\ Asking(call'[c]) =>
                           /\ Live(call[c], gen) /\ Asking(call[c])
                           /\ call'[c].key = call[c].key /\ call'[c].scope = call[c].scope
    /\ \A c \in Call : call'[c] = call[c] \/ Knows(call[c])'
    /\ \/ store'.attempt \in {NONE, store.attempt}
       \/ store'.attempt.command = NONE
       \/ cmd'[store'.attempt.command] # NONE

Retained ==
    /\ store'.attempt = NONE \/ (store'.attempt # NONE /\ store.attempt # NONE
                                   /\ store'.attempt.key = store.attempt.key /\ store'.persisted = store.persisted)
    /\ \A k \in Key : outcome'[k] = "unused" => outcome[k] = "unused"

LEMMA HeardKeeps ==
    ASSUME HandleInv, Grows, Heard
    PROVE  /\ \A c \in Call : Knows(call[c])'
           /\ store'.attempt # NONE /\ store'.attempt.command # NONE => cmd'[store'.attempt.command] # NONE
<1>1. \A c \in Call : Proper(call[c]) /\ Knows(call[c])
  BY DEF HandleInv, Shape, Posting
<1>2. store.attempt # NONE => store.attempt.command \in Key \cup {NONE}
  BY DEF HandleInv, QueueInv, InStep, Attempts
<1>3. \A c \in Call : call'[c] = call[c] => Knows(call[c])'
  BY <1>1 DEF Proper, Knows, Grows
<1>4. \A c \in Call : Knows(call[c])'
  BY <1>3 DEF Heard
<1> QED BY <1>2, <1>4 DEF HandleInv, Posting, Grows, Heard

LEMMA PostingKeeps ==
    ASSUME HandleInv, Grows, Heard, Retained, Traced
    PROVE  Posting'
<1>1. \A k \in Key : HasAttempt(store, k)' => HasAttempt(store, k) /\ store'.persisted = store.persisted
  BY DEF Retained, HasAttempt
<1>2. \A k \in Key : HasAttempt(store, k)' => PostedFor(k, store.persisted)'
  BY <1>1, TracedKeeps DEF HandleInv, Posting, PostedFor
<1>3. \A k \in Key : outcome'[k] = "unused" => Unposted(k)'
  BY TracedKeeps DEF HandleInv, Posting, Retained
<1>4. ASSUME NEW c \in Call, NEW k, NEW s, Live(call'[c], gen'), Asking(call'[c]),
             k = call'[c].key, s = call'[c].scope
      PROVE  PostedFor(k, s)'
  <2>1. PostedFor(k, s) /\ k \in Key
    <3>1. Live(call[c], gen) /\ Asking(call[c]) /\ k = call[c].key /\ s = call[c].scope
      BY <1>4 DEF Heard
    <3>2. call[c].key \in Key
      BY <3>1 DEF HandleInv, Shape, Proper, Live
    <3> QED BY <3>1, <3>2 DEF HandleInv, Posting
  <2> QED BY <2>1, TracedKeeps
<1>5. \A c \in Call : Live(call[c], gen)' /\ Asking(call[c])' => PostedFor(call[c].key, call[c].scope)'
  BY <1>4 DEF Live, Asking, PostedFor
<1> QED BY <1>2, <1>3, <1>5, HeardKeeps DEF Posting

\* Steps without calls.
LEMMA PagePosting ==
    ASSUME HandleInv, Grows,
           \/ \E s \in Scope : Select(s)
           \/ OpenReturns \/ OpenFails \/ CloseSession \/ ShowDeviceList \/ Logout \/ LoadDevices
           \/ SendUnadvertised \/ \E a \in Account : SwitchOrganization(a) \/ SignIn(a)
           \/ Reload \/ RecoveryStarts \/ SnapshotStarts \/ SnapshotReturns \/ SnapshotFails
    PROVE  Posting'
<1>1. Shrinks(store, store')
  BY StoreShrinks
<1>2. Retained
  <2>1. outcome' = outcome \/ Dropped
    BY DEF Select, OpenReturns, OpenFails, CloseSession, ShowDeviceList, Logout, LoadDevices,
           SendUnadvertised, SwitchOrganization, SignIn, Reload, RecoveryStarts, SnapshotStarts,
           SnapshotReturns, SnapshotFails, Leaves, Dropped, history
  <2>2. \A k \in Key : outcome'[k] = "unused" => outcome[k] = "unused"
    BY <2>1 DEF Dropped, Drops, HandleInv, QueueInv, Typed
  <2> QED BY <1>1, <2>2 DEF Retained, Shrinks
<1>3. Reload \/ (UNCHANGED <<call, world>> /\ gen' \in {gen, gen + 1})
  BY DEF Select, OpenReturns, OpenFails, CloseSession, ShowDeviceList, Logout, LoadDevices,
         SendUnadvertised, SwitchOrganization, SignIn, RecoveryStarts, SnapshotStarts, SnapshotReturns,
         SnapshotFails, page, NewGeneration, Resets
<1>4. Traced
  <2>1. CASE UNCHANGED <<call, world>>
    BY <2>1 DEF Traced, world
  <2>2. CASE Reload
    BY <2>2, IdleTyped DEF Reload, Traced
  <2> QED BY <1>3, <2>1, <2>2
<1>5. Heard
  <2>1. CASE call' = call /\ gen' \in {gen, gen + 1}
    <3>1. \A c \in Call : Live(call[c], gen') => Live(call[c], gen)
      BY <2>1 DEF HandleInv, QueueInv, Typed, Present, Live, Suspended
    <3> QED BY <1>1, <2>1, <3>1 DEF Heard, Shrinks
  <2>2. CASE Reload
    <3>1. \A c \in Call : call'[c].pc = "idle"
      BY <2>2, IdleTyped DEF Reload
    <3> QED BY <1>1, <3>1 DEF Heard, Shrinks, Live, Knows
  <2> QED BY <1>3, <2>1, <2>2
<1> QED BY <1>2, <1>4, <1>5, PostingKeeps

LEMMA InstalledPosting == ASSUME HandleInv, Grows, SnapshotInstalled PROVE Posting'
<1>1. UNCHANGED <<call, world, outcome, gen>>
  BY DEF SnapshotInstalled, page
<1>2. store'.attempt = store.attempt /\ store'.persisted = store.persisted
  BY IdsKeep, Filed DEF SnapshotInstalled, HandleInv, QueueInv
<1>3. Heard /\ Retained /\ Traced
  BY <1>1, <1>2 DEF Heard, Retained, Traced, world
<1> QED BY <1>3, PostingKeeps

\* A call starts: a key is posted for the session of the store.
LEMMA StartsPosting ==
    ASSUME HandleInv, NEW c \in Call, NEW pc \in {"posting", "waiting", "cancelling"}, NEW k \in Key,
           NEW command \in IF pc = "waiting" THEN Key ELSE {NONE}, Starts(c, pc, k, command),
           store'.scope = store.scope, store.scope = NONE => store'.attempt = store.attempt,
           outcome' \in [Key -> Outcomes],
           \A j \in Key : outcome'[j] = "unused" => outcome[j] = "unused" /\ (pc = "posting" => j # k),
           pc # "cancelling" => PostedFor(k, selected), pc = "waiting" => cmd[command] # NONE,
           store'.attempt # NONE /\ store'.attempt.command # NONE => cmd[store'.attempt.command] # NONE,
           \A j \in Key : HasAttempt(store, j)' =>
              PostedFor(j, store'.persisted) /\ (pc = "posting" /\ j = k => store'.persisted = selected)
    PROVE  Posting'
<1>1. UNCHANGED world /\ selected' = selected
  BY DEF Starts
<1>2. /\ gen' = gen /\ \A d \in Call : Live(call'[d], gen) => d = c
      /\ call'[c].pc = pc /\ call'[c].key = k /\ call'[c].scope = selected
      /\ call'[c].reply = NONE /\ call'[c].command = command
      /\ \A d \in Call : d # c => call'[d] = call[d]
  BY StartsKeeps DEF HandleInv
<1>3. \A j, s : PostedFor(j, s) /\ (pc = "posting" /\ j = k => s = selected) => PostedFor(j, s)'
  BY <1>1, <1>2 DEF PostedFor, world
<1>4. \A j \in Key : HasAttempt(store, j)' => PostedFor(j, store.persisted)'
  <2>1. \A j \in Key : \A s : HasAttempt(store, j)' /\ s = store'.persisted => PostedFor(j, s)'
    BY <1>3
  <2> QED BY <2>1 DEF PostedFor, HasAttempt
<1>5. \A j \in Key : outcome'[j] = "unused" => Unposted(j)'
  BY <1>1, <1>2 DEF HandleInv, Posting, Unposted, world
<1>6. \A d \in Call : Knows(call[d])'
  BY <1>1, <1>2, Nothing DEF HandleInv, Posting, Knows, world
<1>7. \A d \in Call : Live(call[d], gen)' /\ Asking(call[d])' => PostedFor(call[d].key, call[d].scope)'
  <2>1. pc # "cancelling" => PostedFor(k, selected)'
    BY <1>1, <1>2 DEF PostedFor, world
  <2>2. \A d \in Call : Live(call'[d], gen') /\ Asking(call'[d]) =>
           pc # "cancelling" /\ call'[d].key = k /\ call'[d].scope = selected
    BY <1>2 DEF Asking
  <2> QED BY <1>1, <2>1, <2>2 DEF PostedFor, Live, Asking
<1>8. store'.attempt # NONE /\ store'.attempt.command # NONE => cmd'[store'.attempt.command] # NONE
  BY <1>1 DEF world
<1> QED BY <1>4, <1>5, <1>6, <1>7, <1>8 DEF Posting

LEMMA StartingPosting ==
    ASSUME HandleInv, NEW c \in Call,
           \/ \E k \in Key : SendNew(c, k) \/ Cancel(c, k)
           \/ SendAgain(c) \/ Resume(c)
    PROVE  Posting'
<1>1. open /\ open = TRUE /\ outcome \in [Key -> Outcomes] /\ QueueInv
  BY DEF SendNew, Cancel, SendAgain, Resume, Starts, HandleInv, Shape
<1>2. ASSUME NEW pc \in {"posting", "waiting", "cancelling"}, NEW k \in Key,
             NEW command \in IF pc = "waiting" THEN Key ELSE {NONE}, Starts(c, pc, k, command),
             UNCHANGED <<store, outcome>>, pc # "cancelling" => HasAttempt(store, k),
             pc = "waiting" => cmd[command] # NONE
      PROVE  Posting'
  <2>1. \A j \in Key : HasAttempt(store, j) => store.persisted = selected /\ outcome[j] = "open"
                                                 /\ PostedFor(j, store.persisted)
    BY <1>1, InUseNow DEF HandleInv, QueueInv, Kept, Posting, HasAttempt
  <2>2. \A j \in Key : HasAttempt(store, j)' => HasAttempt(store, j) /\ store'.persisted = store.persisted
    BY <1>2 DEF HasAttempt
  <2>3. store'.attempt # NONE /\ store'.attempt.command # NONE => cmd[store'.attempt.command] # NONE
    BY <1>2 DEF HandleInv, Posting
  <2>4. \A j \in Key : HasAttempt(store, j)' =>
           PostedFor(j, store'.persisted) /\ (pc = "posting" /\ j = k => store'.persisted = selected)
    BY <1>2, <2>1, <2>2
  <2>5. \A j \in Key : outcome'[j] = "unused" => outcome[j] = "unused" /\ (pc = "posting" => j # k)
    BY <1>2, <2>1
  <2>6. pc # "cancelling" => PostedFor(k, selected)
    BY <1>2, <2>1
  <2> QED BY <1>1, <1>2, <2>3, <2>4, <2>5, <2>6, StartsPosting
<1>3. CASE SendAgain(c)
  BY <1>1, <1>2, <1>3, Retains DEF SendAgain
<1>4. CASE Resume(c)
  BY <1>1, <1>2, <1>4, Retains DEF Resume, HandleInv, Posting
<1>5. ASSUME NEW k \in Key, Cancel(c, k) PROVE Posting'
  BY <1>2, <1>5 DEF Cancel
<1>6. ASSUME NEW k \in Key, SendNew(c, k) PROVE Posting'
  <2>1. Starts(c, "posting", k, NONE) /\ Unposted(k)
    BY <1>6 DEF SendNew, HandleInv, Posting
  <2>2. /\ store.attempt = NONE /\ store'.scope = store.scope
        /\ store'.attempt = NONE \/ store'.attempt = [key |-> k, command |-> NONE]
        /\ store.scope = NONE => store' = store
        /\ outcome' \in [Key -> Outcomes] /\ outcome'[k] \in {"open", "forgotten"}
        /\ \A j \in Key : j # k => outcome'[j] = outcome[j]
    BY <1>1, <1>6, SendNewStep
  <2>3. \A s : PostedFor(k, s)
    BY <2>1 DEF Unposted, PostedFor
  <2>4. \A j \in Key : HasAttempt(store, j)' => j = k /\ store'.persisted = selected
    <3>1. store'.persisted = store.persisted
      BY <1>1, <1>6, AttemptApart DEF SendNew, QueueInv
    <3>2. \A j : HasAttempt(store, j)' => j = k /\ store.scope # NONE
      BY <2>2 DEF HasAttempt
    <3> QED BY <1>1, <3>1, <3>2, InUseNow
  <2>5. \A j \in Key : HasAttempt(store, j)' =>
           PostedFor(j, store'.persisted) /\ ("posting" = "posting" /\ j = k => store'.persisted = selected)
    BY <2>3, <2>4
  <2>6. \A j \in Key : outcome'[j] = "unused" => outcome[j] = "unused" /\ ("posting" = "posting" => j # k)
    BY <2>2
  <2>7. store'.attempt # NONE => store'.attempt.command = NONE
    BY <2>2
  <2>8. store.scope = NONE => store'.attempt = store.attempt
    BY <2>2
  <2> QED BY <2>1, <2>2, <2>3, <2>5, <2>6, <2>7, <2>8, StartsPosting
<1> QED BY <1>3, <1>4, <1>5, <1>6

LEMMA EndingPosting ==
    ASSUME HandleInv, Grows, NEW c \in Call,
           \/ PostRejected(c) \/ PostConflicts(c) \/ PostUncertain(c)
           \/ WaitSucceeds(c) \/ WaitReconciles(c) \/ WaitRefused(c) \/ WaitFails(c)
           \/ CancelReturns(c) \/ CancelFails(c)
    PROVE  Posting'
<1> USE DEF Terminal
<1>0. InStep(store) /\ outcome \in [Key -> Outcomes] /\ call \in [Call -> Suspended]
  BY DEF HandleInv, QueueInv, Shape
<1>1. /\ Ends(c) /\ cmd' = cmd /\ gen' = gen
      /\ UNCHANGED posts \/ (call[c].pc = "posting" /\ GivesUp(c))
  BY DEF PostRejected, PostConflicts, PostUncertain, WaitSucceeds, WaitReconciles, WaitRefused,
         WaitFails, CancelReturns, CancelFails, world
<1>2. \A d \in Call : call'[d] = call[d] \/ (call'[d] = Idle /\ call'[d].pc = "idle")
  BY <1>0, <1>1, IdleTyped DEF Ends
<1>3. Traced
  BY <1>1, <1>2 DEF Traced, GivesUp
<1>4. \A k \in Key : outcome'[k] = "unused" => outcome[k] = "unused"
  <2>1. UNCHANGED outcome \/ Concludes(c, "refused") \/ Concludes(c, "done")
    BY DEF PostRejected, PostConflicts, PostUncertain, WaitSucceeds, WaitReconciles, WaitRefused,
           WaitFails, CancelReturns, CancelFails, history
  <2> QED BY <1>0, <2>1 DEF Concludes
<1>5. store'.attempt = NONE \/ (store'.attempt = store.attempt /\ store'.persisted = store.persisted)
  <2>1. CASE UNCHANGED store
    BY <2>1
  <2>2. CASE store' = ClearAttempt(store)
    BY <1>0, <2>2, ClearAttemptKeeps
  <2>3. CASE WaitSucceeds(c)
    <3> DEFINE e == ClearAttempt(store)
    <3>1. InStep(e) /\ e.attempt = NONE
      BY <1>0, ClearAttemptKeeps
    <3> HIDE DEF e
    <3>2. AddId(e, call[c].command).attempt = NONE
      BY <3>1, IdsKeep
    <3> QED BY <2>3, <3>1, <3>2 DEF WaitSucceeds, e
  <2>4. CASE CancelReturns(c)
    BY <1>0, <2>4, IdsKeep, Filed DEF CancelReturns
  <2> QED BY <2>1, <2>2, <2>3, <2>4
          DEF PostRejected, PostConflicts, PostUncertain, WaitReconciles, WaitRefused, WaitFails, CancelFails
<1>6. Retained /\ Heard
  <2>1. \A d \in Call : call'[d].pc = "idle" => Knows(call[d])'
    BY DEF Knows
  <2> QED BY <1>1, <1>2, <1>4, <1>5, <2>1 DEF Retained, Heard, Live
<1> QED BY <1>3, <1>6, PostingKeeps

LEMMA AcceptedPosting ==
    ASSUME HandleInv, Grows, NEW c \in Call, PostAccepted(c) PROVE Posting'
<1>1. /\ call[c].pc = "posting" /\ cmd[call[c].key] # NONE
      /\ UNCHANGED <<gen, cmd, posts, outcome>>
  BY DEF PostAccepted, HandleInv, Posting, Knows, page, world, history
<1>2. /\ \/ store'.attempt = store.attempt
         \/ /\ store.attempt # NONE
            /\ store'.attempt = [key |-> store.attempt.key, command |-> call[c].key]
      /\ \A d \in Call : \/ /\ d # c /\ call'[d] = call[d]
                        \/ /\ d = c /\ call'[d].pc = "idle"
                        \/ /\ d = c /\ call'[d].pc = "waiting" /\ call'[d].command = call[d].key
                           /\ call'[d].key = call[d].key /\ call'[d].gen = call[d].gen
                           /\ call'[d].scope = call[d].scope
  BY PostAcceptedStep DEF HandleInv
<1>3. store'.persisted = store.persisted
  BY AttemptApart DEF PostAccepted, HandleInv, QueueInv
<1>4. Traced
  BY <1>1, <1>2 DEF Traced
<1>5. Heard
  <2>1. \A d \in Call : call'[d] = call[d] \/ Knows(call[d])'
    BY <1>1, <1>2 DEF Knows
  <2>2. store'.attempt = store.attempt \/ cmd'[store'.attempt.command] # NONE
    BY <1>1, <1>2
  <2>3. \A d \in Call : Live(call'[d], gen') /\ Asking(call'[d]) =>
                           /\ Live(call[d], gen) /\ Asking(call[d])
                           /\ call'[d].key = call[d].key /\ call'[d].scope = call[d].scope
    BY <1>1, <1>2 DEF Live, Asking
  <2> QED BY <2>1, <2>2, <2>3 DEF Heard
<1>6. Retained
  BY <1>1, <1>2, <1>3 DEF Retained
<1> QED BY <1>4, <1>5, <1>6, PostingKeeps

LEMMA OutsidePosting ==
    ASSUME HandleInv, Grows,
           \/ \E c \in Call : CloudAccepts(c) \/ CloudConflicts(c) \/ CloudRejects(c)
           \/ \E p \in posts : PostArrives(p)
           \/ \E k \in Key : DesktopDecides(k)
           \/ \E s \in Scope : DesktopStarts(s)
           \/ UNCHANGED vars
    PROVE  Posting'
<1>1. UNCHANGED <<store, outcome>>
  BY DEF CloudAccepts, CloudConflicts, CloudRejects, Replies, PostArrives, DesktopDecides, DesktopStarts,
         vars, history
<1>2. Retained
  BY <1>1 DEF Retained
<1>3. call \in [Call -> Suspended] /\ cmd \in [Key -> Commands \cup {NONE}]
  BY DEF HandleInv, QueueInv, Typed
<1>4. ASSUME NEW k \in Key, NEW s, NEW g, Records(k, s, g)
      PROVE  cmd'[k].scope = s /\ \A j \in Key : j # k => cmd'[j] = cmd[j]
  BY <1>3, <1>4 DEF Records
<1>5. ASSUME NEW c \in Call, CloudAccepts(c) \/ CloudConflicts(c) \/ CloudRejects(c) PROVE Traced /\ Heard
  <2>1. call[c].pc = "posting" /\ call[c].key \in Key /\ posts' = posts
    BY <1>5 DEF CloudAccepts, CloudConflicts, CloudRejects, Replies, HandleInv, Shape, Proper
  <2>2. PICK reply \in {"accepted", "conflict", "rejected"} :
           /\ call' = [call EXCEPT ![c].reply = reply]
           /\ reply = "accepted" => CloudAccepts(c)
    BY <1>5 DEF CloudAccepts, CloudConflicts, CloudRejects, Replies
  <2>3. \A d \in Call : /\ call'[d].pc = call[d].pc /\ call'[d].key = call[d].key
                        /\ call'[d].scope = call[d].scope /\ call'[d].gen = call[d].gen
                        /\ d # c => call'[d] = call[d]
                        /\ d = c => call'[d].reply = reply
    BY <1>3, <2>2 DEF Suspended
  <2>4. cmd' = cmd \/ Records(call[c].key, call[c].scope, call[c].gen)
    BY <1>5 DEF CloudAccepts, CloudConflicts, CloudRejects
  <2>5. Traced
    <3>1. CASE cmd' = cmd
      BY <2>1, <2>3, <3>1 DEF Traced
    <3>2. CASE Records(call[c].key, call[c].scope, call[c].gen)
      <4>1. cmd'[call[c].key].scope = call[c].scope /\ \A j \in Key : j # call[c].key => cmd'[j] = cmd[j]
        BY <1>4, <2>1, <3>2
      <4> QED BY <2>1, <2>3, <4>1 DEF Traced
    <3> QED BY <2>4, <3>1, <3>2
  <2>6. reply = "accepted" => cmd'[call[c].key] # NONE
    <3>1. SUFFICES ASSUME CloudAccepts(c) PROVE cmd'[call[c].key] # NONE
      BY <2>2
    <3>2. call[c] \in Suspended
      BY <1>3
    <3>3. call[c].scope \in Scope \cup {NONE} /\ call[c].gen \in Nat
      BY <3>2 DEF Suspended
    <3> QED BY <2>1, <3>1, <3>3, RecordsTyped DEF CloudAccepts, HandleInv
  <2>7. Heard
    <3>1. gen' = gen
      BY <1>5 DEF CloudAccepts, CloudConflicts, CloudRejects, Replies, page
    <3>2. \A d \in Call : call'[d] = call[d] \/ Knows(call[d])'
      BY <2>1, <2>3, <2>6 DEF Knows
    <3> QED BY <1>1, <2>3, <3>1, <3>2 DEF Heard, Live, Asking
  <2> QED BY <2>5, <2>7
<1>6. ASSUME NEW p \in posts, PostArrives(p) PROVE Traced /\ Heard
  <2>1. p.key \in Key
    BY DEF HandleInv, QueueInv, Typed, Posts
  <2>2. UNCHANGED <<store, call, gen>> /\ posts' = posts \ {p}
    BY <1>6 DEF PostArrives, page
  <2>3. CASE cmd' = cmd
    BY <2>2, <2>3 DEF Traced, Heard
  <2>4. CASE Records(p.key, p.scope, p.gen)
    <3>1. cmd'[p.key].scope = p.scope /\ \A j \in Key : j # p.key => cmd'[j] = cmd[j]
      BY <1>4, <2>1, <2>4
    <3> QED BY <2>2, <3>1 DEF Traced, Heard
  <2> QED BY <1>6, <2>3, <2>4 DEF PostArrives
<1>7. ASSUME NEW k \in Key, DesktopDecides(k) PROVE Traced /\ Heard
  <2>1. \A j \in Key : cmd'[j] # NONE => cmd[j] # NONE /\ cmd'[j].scope = cmd[j].scope
    <3>1. cmd[k] # NONE /\ cmd'[k].scope = cmd[k].scope
      BY <1>7 DEF DesktopDecides, Grows
    <3> QED BY <1>7, <3>1, DecidesTyped DEF HandleInv
  <2> QED BY <1>1, <1>7, <2>1 DEF DesktopDecides, Traced, Heard, page
<1>8. ASSUME (\E s \in Scope : DesktopStarts(s)) \/ UNCHANGED vars PROVE Traced /\ Heard
  <2>1. UNCHANGED <<store, call, cmd, posts, gen>>
    BY <1>8 DEF DesktopStarts, vars, world, page
  <2>2. Traced
    BY <2>1 DEF Traced
  <2>3. Heard
    BY <2>1 DEF Heard
  <2> QED BY <2>2, <2>3
<1>9. Traced /\ Heard
  BY <1>5, <1>6, <1>7, <1>8
<1> QED BY <1>2, <1>9, PostingKeeps

LEMMA PostingStep == ASSUME HandleInv, [Next]_vars PROVE Posting'
<1>1. Grows
  BY CommandsGrow DEF HandleInv
<1>2. CASE \/ \E s \in Scope : Select(s)
           \/ OpenReturns \/ OpenFails \/ CloseSession \/ ShowDeviceList \/ Logout \/ LoadDevices
           \/ SendUnadvertised \/ \E a \in Account : SwitchOrganization(a) \/ SignIn(a)
           \/ Reload \/ RecoveryStarts \/ SnapshotStarts \/ SnapshotReturns \/ SnapshotFails
  BY <1>1, <1>2, PagePosting
<1>3. CASE SnapshotInstalled
  BY <1>1, <1>3, InstalledPosting
<1>4. ASSUME NEW c \in Call,
             \/ \E k \in Key : SendNew(c, k) \/ Cancel(c, k)
             \/ SendAgain(c) \/ Resume(c)
             \/ PostAccepted(c) \/ PostRejected(c) \/ PostConflicts(c) \/ PostUncertain(c)
             \/ WaitSucceeds(c) \/ WaitReconciles(c) \/ WaitRefused(c) \/ WaitFails(c)
             \/ CancelReturns(c) \/ CancelFails(c)
             \/ CloudAccepts(c) \/ CloudConflicts(c) \/ CloudRejects(c)
      PROVE  Posting'
  BY <1>1, <1>4, StartingPosting, AcceptedPosting, EndingPosting, OutsidePosting
<1>5. CASE \/ \E p \in posts : PostArrives(p)
           \/ \E k \in Key : DesktopDecides(k)
           \/ \E s \in Scope : DesktopStarts(s)
           \/ UNCHANGED vars
  BY <1>1, <1>5, OutsidePosting
<1> QED BY <1>2, <1>3, <1>4, <1>5 DEF Next

\* Every pending operation on the page is one the Desktop has queued, and queued for
\* the session the page shows, unless a late answer, or that to another prompt's
\* command, has entered it, for which app.js 1004 compares no generation.  Failed
\* refreshes and whatever Cloud refuses or cannot say make no difference.
THEOREM HandlesOfScopeHolds == Spec => []HandlesOfScope
<1>1. Init => HandleInv
  <2> SUFFICES ASSUME Init PROVE HandleInv
    OBVIOUS
  <2>1. QueueInv /\ Shape
    BY Initially, InitShape
  <2>2. store.attempt = NONE /\ store.ids = << >>
    BY DEF Init, EmptyStore, Load, NoItems
  <2>3. ToSet(<< >>) = {}
    BY DEF ToSet
  <2>4. Listing
    BY <2>2, <2>3 DEF Init, NoSnapshot, Listing, AllPending
  <2>5. Posting
    BY <2>2, IdleTyped DEF Init, Posting, HasAttempt, Unposted, Knows, Live
  <2> QED BY <2>1, <2>4, <2>5 DEF HandleInv
<1>2. HandleInv /\ [Next]_vars => HandleInv'
  BY Steps, StepShape, ListingStep, PostingStep DEF HandleInv
<1>3. HandleInv => HandlesOfScope
  BY DEF HandleInv, Listing, Entered, HandlesOfScope, Listed, InUse
<1> QED BY <1>1, <1>2, <1>3, PTL DEF Spec
=============================================================================
