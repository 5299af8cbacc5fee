--------------------------- MODULE DesktopSession ---------------------------
(***************************************************************************)
(* What the page can see of a session on the Desktop, and what each event  *)
(* of the session's stream means for it.  The Desktop is not part of the   *)
(* repository: the events and their meaning are those the cases of         *)
(* applyRemoteSessionEvent (remote-session-state.js) give them.            *)
(*                                                                         *)
(* Items stand for the two ordered collections, messages and interactions; *)
(* the value of an item stands for everything in it, its parts included.   *)
(***************************************************************************)
EXTENDS Naturals, Sequences, Filtering

CONSTANTS
    Item,   \* ids of messages and interactions
    Value,  \* what an item, or the todo list, can hold
    Run,    \* ids of runs
    NONE    \* null

ListItem == [id : Item, value : Value]
Content == [items : Seq(ListItem), todos : Value \cup {NONE}, run : Run \cup {NONE}]

\* A session nothing has happened in.
Blank == [items |-> << >>, todos |-> NONE, run |-> NONE]

Lists(items, m) == \E i \in DOMAIN items : items[i].id = m

\* Every kind of envelope.data but the lifecycle of commands, with the given
\* contents of snapshots.
SessionData(contents) ==
    [type : {"message.upsert", "message.part.upsert"}, id : Item, value : Value]
    \cup [type : {"message.remove"}, id : Item]
    \cup [type : {"todos.replace"}, value : Value]
    \cup [type : {"session.status"}, run : Run \cup {NONE}]
    \cup [type : {"run.status"}, run : Run, terminal : BOOLEAN]
    \cup [type : {"snapshot"}, content : contents]
    \cup [type : {"snapshot_required"}]

\* A part belongs to a message that exists.
Meaningful(content, data) ==
    data.type = "message.part.upsert" => Lists(content.items, data.id)

Put(items, m, v) ==
    IF Lists(items, m)
    THEN [i \in DOMAIN items |-> IF items[i].id = m THEN [id |-> m, value |-> v] ELSE items[i]]
    ELSE Append(items, [id |-> m, value |-> v])

Removed(items, m) == Pick(items, {i \in DOMAIN items : items[i].id # m})

\* The session after an event.
Effect(content, data) ==
    CASE data.type \in {"message.upsert", "message.part.upsert"} ->
             [content EXCEPT !.items = Put(@, data.id, data.value)]
      [] data.type = "message.remove" ->
             [content EXCEPT !.items = Removed(@, data.id)]
      [] data.type = "todos.replace" -> [content EXCEPT !.todos = data.value]
      [] data.type = "session.status" -> [content EXCEPT !.run = data.run]
      [] data.type = "run.status" /\ data.terminal /\ content.run = data.run ->
             [content EXCEPT !.run = NONE]
      [] data.type = "snapshot" -> data.content
      [] OTHER -> content
=============================================================================
