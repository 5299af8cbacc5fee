---------------------------- MODULE EnqueueStore ----------------------------
(***************************************************************************)
(* createPendingEnqueueState (busy-session-state.js): what the page knows  *)
(* of prompts it asked the Desktop to queue, in memory and in local        *)
(* storage.                                                                *)
(*                                                                         *)
(* A store is a record: scope is the session in use (currentScope),        *)
(* persisted the one everything else belongs to (persistedScope), attempt  *)
(* the enqueue whose outcome is open, ids the pending operations, the      *)
(* oldest first, and disk the two items in local storage; an item that is  *)
(* not there is of no session.  An attempt names its idempotency key and   *)
(* its command, NONE as long as the page knows of no command.              *)
(***************************************************************************)
EXTENDS Naturals, Sequences, SequencesExt, Filtering

CONSTANTS
    Limit,  \* how many ids are kept (100 in the code)
    NONE    \* null

ASSUME LimitAssumption == Limit \in Nat \ {0}

NoItems == [attempt |-> [scope |-> NONE, attempt |-> NONE],
            ids |-> [scope |-> NONE, ids |-> << >>]]

\* persistHandles and persistAttempt
SaveIds(e) ==
    [e EXCEPT !.disk.ids = IF e.persisted = NONE \/ e.ids = << >> THEN NoItems.ids
                           ELSE [scope |-> e.persisted, ids |-> e.ids]]

SaveAttempt(e) ==
    [e EXCEPT !.disk.attempt = IF e.persisted = NONE \/ e.attempt = NONE THEN NoItems.attempt
                               ELSE [scope |-> e.persisted, attempt |-> e.attempt]]

ClearPersisted(e) ==
    [e EXCEPT !.persisted = NONE, !.attempt = NONE, !.ids = << >>, !.disk = NoItems]

\* What the page makes of local storage when it is loaded.
Load(disk) ==
    LET ids == disk.ids
        attempt == disk.attempt
        found == [scope |-> NONE,
                  persisted |-> IF ids.scope # NONE THEN ids.scope ELSE attempt.scope,
                  attempt |-> attempt.attempt,
                  ids |-> ids.ids,
                  disk |-> disk]
    IN  IF NONE \notin {ids.scope, attempt.scope} /\ ids.scope # attempt.scope
        THEN ClearPersisted(found) ELSE found

EmptyStore == Load(NoItems)

LeaveScope(e) == [e EXCEPT !.scope = NONE]

EnterScope(e, s) ==
    LET own == IF e.persisted \in {NONE, s} THEN e ELSE ClearPersisted(e)
    IN  [own EXCEPT !.scope = s, !.persisted = s]

Clear(e) == LeaveScope(ClearPersisted(e))

\* fenceAuthentication, with the sessions the new account can have.
Fence(e, sessions) == IF e.persisted \in sessions \cup {NONE} THEN e ELSE Clear(e)

\* Mutant: no limit.
AllOf(ids) == ids

Newest(ids) == SubSeq(ids, IF Len(ids) > Limit THEN Len(ids) - Limit + 1 ELSE 1, Len(ids))

AddId(e, id) ==
    IF e.scope = NONE THEN e
    ELSE SaveIds([e EXCEPT !.persisted = e.scope, !.ids = Newest(Append(Without(@, id), id))])

\* Mutant: the removal is not persisted.
RemovesInMemory(e, id) == [e EXCEPT !.ids = Without(@, id)]

RemoveId(e, id) == SaveIds([e EXCEPT !.ids = Without(@, id)])

ReplaceIds(e, ids) ==
    IF e.scope = NONE THEN e
    ELSE SaveIds([e EXCEPT !.persisted = e.scope, !.ids = Newest(ids)])

BeginAttempt(e, key) ==
    IF e.scope = NONE \/ e.attempt # NONE THEN e
    ELSE SaveAttempt([e EXCEPT !.persisted = e.scope, !.attempt = [key |-> key, command |-> NONE]])

SetCommand(e, c) ==
    IF e.scope = NONE \/ e.attempt = NONE THEN e
    ELSE SaveAttempt([e EXCEPT !.attempt.command = c])

ClearAttempt(e) == SaveAttempt([e EXCEPT !.attempt = NONE])

\* list() and attempt()
InUse(e) == e.scope # NONE /\ e.scope = e.persisted
Listed(e) == IF InUse(e) THEN ToSet(e.ids) ELSE {}
Attempt(e) == IF InUse(e) THEN e.attempt ELSE NONE
=============================================================================
