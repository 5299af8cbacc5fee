------------------------- MODULE RemoteSessionState -------------------------
(***************************************************************************)
(* The reducer of remote-session-state.js: the page's copy of a session,   *)
(* kept as a map of items with a separate order, and updated by snapshots  *)
(* and events.  Whatever envelopes arrive, the copy is the session the     *)
(* accepted ones describe.                                                 *)
(***************************************************************************)
EXTENDS DesktopSession, EventEnvelope

CONSTANT MaxSequence  \* bound of cursors and sequence numbers

ASSUME SequenceAssumption == MaxSequence \in Nat

VARIABLES
    state,   \* the remote session state
    session  \* history: the session at the last event state has taken

vars == <<state, session>>

Lifecycle == [type |-> "command.lifecycle"]

\* Snapshots list an item once: validateSnapshot refuses any other.
SnapshotContent ==
    {c \in [items : BoundedSeq(ListItem, Cardinality(Item)), todos : {NONE}, run : Run \cup {NONE}] :
        IsInjective([i \in DOMAIN c.items |-> c.items[i].id])}

Envelope == [eventId : 1..MaxSequence, cursor : 1..MaxSequence, sequence : 1..MaxSequence,
             scope : {"own", "other"}, data : SessionData(SnapshotContent) \cup {Lifecycle}]

-----------------------------------------------------------------------------
(* The copy *)

\* installRemoteSnapshot: everything but cursor, sequence and seen is replaced.
Install(s, content) ==
    [s EXCEPT !.installed = TRUE,
              !.items = [m \in {i.id : i \in ToSet(content.items)} |->
                            (CHOOSE i \in ToSet(content.items) : i.id = m).value],
              !.order = [i \in DOMAIN content.items |-> content.items[i].id],
              !.todos = content.todos,
              !.run = content.run]

\* Mutant: an item that is there is listed once more.
ListsAgain(s, m, v) ==
    [s EXCEPT !.items = [x \in DOMAIN @ \cup {m} |-> IF x = m THEN v ELSE @[x]],
              !.order = Append(@, m)]

\* message.upsert, interaction.upsert
Upsert(s, m, v) ==
    [s EXCEPT !.items = [x \in DOMAIN @ \cup {m} |-> IF x = m THEN v ELSE @[x]],
              !.order = IF m \in DOMAIN s.items THEN @ ELSE Append(@, m)]

\* message.remove, interaction.remove: also of an item that is not there.
RemoveItem(s, m) ==
    [s EXCEPT !.items = [x \in DOMAIN @ \ {m} |-> @[x]], !.order = Without(@, m)]

\* message.part.upsert: the message stays where it is in the order.
UpsertPart(s, m, v) == [s EXCEPT !.items[m] = v]

\* Mutant: the end of any run clears the active one.
ClearsAnyRun(s, run, terminal) == IF terminal THEN [s EXCEPT !.run = NONE] ELSE s

\* run.status: only the active run's own end clears it.
RunStatus(s, run, terminal) ==
    IF terminal /\ s.run = run THEN [s EXCEPT !.run = NONE] ELSE s

\* What fails although the envelope is the next one.
Applicable(s, data) == data.type = "message.part.upsert" => data.id \in DOMAIN s.items

Apply(s, data) ==
    CASE data.type = "message.upsert" -> Upsert(s, data.id, data.value)
      [] data.type = "message.part.upsert" -> UpsertPart(s, data.id, data.value)
      [] data.type = "message.remove" -> RemoveItem(s, data.id)
      [] data.type = "todos.replace" -> [s EXCEPT !.todos = data.value]
      [] data.type = "session.status" -> [s EXCEPT !.run = data.run]
      [] data.type = "run.status" -> RunStatus(s, data.run, data.terminal)
      [] data.type = "snapshot" -> Install(s, data.content)
      [] data.type \in {"snapshot_required", "command.lifecycle"} -> s

Advance(s, e) == [s EXCEPT !.cursor = e.cursor, !.sequence = e.sequence,
                           !.seen = Remember(@, e)]

-----------------------------------------------------------------------------
(* createRemoteSessionState *)
Init ==
    /\ state = [scope |-> "own", installed |-> FALSE, cursor |-> 0, sequence |-> 0,
                seen |-> << >>, items |-> << >>, order |-> << >>, todos |-> NONE, run |-> NONE]
    /\ session = Blank

(* establishRemoteSnapshotBaseline at the terminal lifecycle event e. *)
Establish(content, e) ==
    /\ InScope(state, e)
    /\ e.data.type = "command.lifecycle"
    /\ state' = Advance([Install(state, content) EXCEPT !.seen = << >>], e)
    /\ session' = content

(* applyRemoteSessionEvent takes the event. *)
Take(e) ==
    /\ Accepts(state, e)
    /\ Applicable(state, e.data)
    /\ state' = Advance(Apply(state, e.data), e)
    /\ session' = Effect(session, e.data)

(* refreshSelectedSnapshot (app.js): the copy waits for a new baseline. *)
Uninstall ==
    /\ state.installed
    /\ state' = [state EXCEPT !.installed = FALSE]
    /\ UNCHANGED session

Next ==
    \/ Uninstall
    \/ \E e \in Envelope : Take(e) \/ \E content \in SnapshotContent : Establish(content, e)

Spec == Init /\ [][Next]_vars

-----------------------------------------------------------------------------
(* The session the copy describes. *)
View(s) == [items |-> [i \in DOMAIN s.order |-> [id |-> s.order[i], value |-> s.items[s.order[i]]]],
            todos |-> s.todos, run |-> s.run]

TypeOK ==
    /\ DOMAIN state = {"scope", "installed", "cursor", "sequence", "seen",
                       "items", "order", "todos", "run"}
    /\ state.cursor \in 0..MaxSequence /\ state.sequence \in 0..MaxSequence
    /\ Len(state.seen) <= SeenLimit
    /\ DOMAIN state.items \subseteq Item /\ Range(state.items) \subseteq Value
    /\ session \in Content

\* The order lists the keys of the map, each once, however items were added,
\* removed and added again (messages and messageOrder, interactions and
\* interactionOrder, which five cases update separately).
OrderListsItems ==
    ToSet(state.order) = DOMAIN state.items /\ IsInjective(state.order)

\* The copy is the session that the last baseline and the events taken since
\* describe, the order of items and the active run included: an end of an older
\* run reported late does not clear a newer one.
FollowsSession == View(state) = session
=============================================================================
