---------------------------- MODULE RemoteStream ----------------------------
(***************************************************************************)
(* The event stream of a control session, from its first connection to its *)
(* end: connecting, reading, reconnecting after the cursor, polling beside *)
(* it (remote-session-stream.js), down to the bytes a connection carries   *)
(* (SSEParser), and what the page shows and tells the user of it (the      *)
(* callbacks of startSelectedStream, app.js; Notifications).               *)
(*                                                                         *)
(* The stream is one coroutine, connect, and two timers; one action is the *)
(* code between two awaits.  The page creates a stream for each control    *)
(* session, starts it once and stops it once, so "current" is life =       *)
(* "running".  Cloud is external: it numbers the session's messages, sends *)
(* them from the one after the cursor, in whatever chunks, and may send    *)
(* other records, break or end the connection at any byte.                 *)
(***************************************************************************)
EXTENDS SSEParser, Notifications

CONSTANTS
    LineEnds,     \* the line terminators Cloud may use, one on each connection
    MaxFailures,  \* failed connections before polling starts (3)
    Faults,       \* what may interfere, a subset of FaultNames
    MaxEvents,    \* the messages Cloud has for the stream, sooner or later
    MaxFaults     \* bound of all interference

FaultNames == {
    "refuse",        \* a connection fails or is answered with an error
    "unauthorized",  \* it is answered 401 or 403
    "close",         \* it is answered 410
    "named",         \* Cloud sends a record of another type
    "ping",          \* Cloud sends a comment
    "endless",       \* a line does not end
    "break",         \* the connection breaks
    "cut",           \* the connection ends, perhaps within a record
    "reject",        \* onRecord throws
    "recover"}       \* the page asks for a fresh snapshot

ASSUME StreamAssumption ==
    /\ LineEnds \subseteq {<<LF>>, <<CR>>, <<CR, LF>>} /\ LineEnds # {}
    /\ MaxFailures \in Nat \ {0}
    /\ Faults \subseteq FaultNames
    /\ MaxEvents \in Nat /\ MaxFaults \in Nat

VARIABLES
    faults,     \* how often something has interfered
    life,       \* stopped: "new", "running", "stopped"
    cursor,     \* the last message whose onRecord has returned
    failures,   \* failed connections since the last success, up to MaxFailures
    reconnect,  \* reconnectTimer is set
    timer,      \* pollTimer is set
    polling,    \* pollRunning
    conn,       \* where connect is suspended, and the connection it reads
    page        \* what the page shows of the stream, and what it has told the user

vars == <<faults, life, cursor, failures, reconnect, timer, polling, conn, page>>

-----------------------------------------------------------------------------
(* Records on the wire *)

Payload(i) == <<<<<<"data", i>>, <<"rest", i>>>>>>
Message(i, end) == <<<<"id", i>>>> \o end \o Payload(i)[1] \o end \o end
Named(type, end) == <<<<"event", type>>>> \o end \o <<<<"data", type>>>> \o end \o end
Ping(end) == <<<<"comment", 0>>>> \o end \o end
Endless == [i \in 1 .. MaxRecordBytes + 1 |-> <<"comment", i>>]

\* "expired" stands for an error record that says control_session_expired.
OtherTypes == {"snapshot_required", "session_closed", "expired", "error", "unknown"}

NoConnection == [pc |-> "off"]
Fetching == [pc |-> "fetching"]

\* Cloud resumes after the cursor it is given.
Reading(end) == [pc |-> "reading", end |-> end, next |-> cursor + 1, coming |-> << >>,
                 parser |-> FreshParser, records |-> << >>, done |-> FALSE]
Connected == conn.pc \in {"reading", "handing"}

Spend(fault) ==
    /\ fault \in Faults
    /\ faults < MaxFaults
    /\ faults' = faults + 1

Init ==
    /\ faults = 0 /\ life = "new" /\ cursor = 0 /\ failures = 0
    /\ reconnect = FALSE /\ timer = FALSE /\ polling = FALSE
    /\ conn = NoConnection
    /\ page = [shown |-> "CONNECTING", epoch |-> 0, seen |-> << >>, told |-> 0]

-----------------------------------------------------------------------------
(* The page: onState, and what recovery does to the state it shows *)

\* Mutant: every attempt to connect is a connection of its own.
CountsAttempts(p, value) == IF value = "RECONNECTING" THEN p.epoch + 1 ELSE p.epoch

Epoch(p, value) == IF value = "LIVE" /\ p.shown # "LIVE" THEN p.epoch + 1 ELSE p.epoch

EmitAs(p, value, closed) ==
    LET epoch == Epoch(p, value)
        shown == Shows(p.seen, StreamTransition(p.shown, value, closed, epoch))
        losses == {c \in shown : c.category = "session_disconnected"}
    IN  [p EXCEPT !.shown = value, !.epoch = epoch,
                  !.seen = RememberShown(@, shown),
                  !.told = IF losses # {} THEN @ + 1 ELSE @]

Emit(p, value) == EmitAs(p, value, FALSE)

\* installSelectedSnapshot, of a recovery or a poll.
Recovered(p) == [p EXCEPT !.shown = IF @ = "POLLING" THEN @ ELSE "LIVE"]

RecoveryStarts ==
    /\ Spend("recover")
    /\ life = "running"
    /\ page' = [page EXCEPT !.shown = "RESYNCING"]
    /\ UNCHANGED <<life, cursor, failures, reconnect, timer, polling, conn>>

\* A recovery that fails closes the control session (AppCloses) instead.
RecoveryEnds ==
    /\ life = "running" /\ page.shown = "RESYNCING"
    /\ page' = Recovered(page)
    /\ UNCHANGED <<faults, life, cursor, failures, reconnect, timer, polling, conn>>

-----------------------------------------------------------------------------
(* How the steps of connect end.  c is the connection as far as the step    *)
(* has changed it.                                                          *)

\* Mutant: connections are tried again only until polling starts.
ReconnectsUntilPolling == failures + 1 < MaxFailures

Reconnects == TRUE

\* Mutant: an off-by-one at the limit.
PollsLater == failures >= MaxFailures /\ ~timer /\ ~polling

\* schedulePoll arms the timer.
Polls == failures + 1 >= MaxFailures /\ ~timer /\ ~polling

\* The catch of connect: polling starts at the limit, and a further connection
\* is scheduled.
Fails ==
    /\ failures' = IF failures < MaxFailures THEN failures + 1 ELSE failures
    /\ timer' = (timer \/ Polls)
    /\ reconnect' = Reconnects
    /\ page' = Emit(IF Polls THEN Emit(page, "POLLING") ELSE page, "RECONNECTING")
    /\ conn' = NoConnection
    /\ UNCHANGED life

\* closeSelectedControlSession: what stop emits belongs to an earlier generation.
\* A record that onRecord has been given is still the coroutine's.
Stops(p, c) ==
    /\ life' = "stopped"
    /\ reconnect' = FALSE /\ timer' = FALSE
    /\ page' = [p EXCEPT !.shown = "CLOSED"]
    /\ conn' = IF c.pc = "handing" THEN c ELSE NoConnection
    /\ UNCHANGED failures

\* onClosed rebuilds the control session, which stops this stream.
Closes == Stops(EmitAs(page, "CLOSED", TRUE), NoConnection)

IsMessage(record) == record.type = "message" /\ record.id # NoId

\* consumeSSEStream and onRecord up to the next await.
Proceed(c) ==
    \/ /\ c.records = << >> /\ ~c.done
       /\ conn' = [c EXCEPT !.pc = "reading"]
       /\ UNCHANGED <<life, failures, reconnect, timer, page>>
    \/ /\ c.records = << >> /\ c.done
       /\ Fails
    \/ /\ c.records # << >> /\ IsMessage(Head(c.records))
       /\ conn' = [c EXCEPT !.pc = "handing"]
       /\ UNCHANGED <<life, failures, reconnect, timer, page>>
    \/ /\ c.records # << >> /\ Head(c.records).type = "snapshot_required"
       /\ Stops(page, NoConnection)
    \/ /\ c.records # << >> /\ Head(c.records).type \in {"session_closed", "expired"}
       /\ Closes
    \/ /\ c.records # << >> /\ ~IsMessage(Head(c.records))
       /\ Head(c.records).type \notin {"snapshot_required", "session_closed", "expired"}
       /\ Fails

-----------------------------------------------------------------------------
(* The stream *)

Start ==
    /\ life = "new"
    /\ life' = "running"
    /\ page' = Emit(page, "CONNECTING")
    /\ conn' = Fetching
    /\ UNCHANGED <<faults, cursor, failures, reconnect, timer, polling>>

Answered ==
    /\ conn.pc = "fetching"
    /\ \E end \in LineEnds : conn' = Reading(end)
    /\ failures' = 0
    /\ timer' = FALSE
    /\ page' = [Emit(page, "LIVE") EXCEPT !.told = 0]
    /\ UNCHANGED <<faults, life, cursor, reconnect, polling>>

Refused ==
    /\ Spend("refuse")
    /\ conn.pc = "fetching"
    /\ Fails
    /\ UNCHANGED <<cursor, polling>>

\* 401 and 403 end the stream and leave the control session as it is.
Unauthorized ==
    /\ Spend("unauthorized")
    /\ conn.pc = "fetching"
    /\ life' = "stopped"
    /\ page' = Emit(page, "ERROR")
    /\ conn' = NoConnection
    /\ UNCHANGED <<cursor, failures, reconnect, timer, polling>>

Gone ==
    /\ Spend("close")
    /\ conn.pc = "fetching"
    /\ Closes
    /\ UNCHANGED <<cursor, polling>>

ReadReturns ==
    /\ conn.pc = "reading"
    /\ \E n \in 1 .. Len(conn.coming) :
       \E parse \in {Push(conn.parser, SubSeq(conn.coming, 1, n))} :
         IF parse.refused THEN Fails
         ELSE Proceed([conn EXCEPT !.coming = SubSeq(@, n + 1, Len(@)),
                                   !.parser = parse.parser, !.records = parse.out])
    /\ UNCHANGED <<faults, cursor, polling>>

ReadEnds ==
    /\ Spend("cut")
    /\ conn.pc = "reading"
    /\ \E parse \in {Finish(conn.parser)} :
         IF parse.refused THEN Fails
         ELSE Proceed([conn EXCEPT !.coming = << >>, !.done = TRUE,
                                   !.parser = parse.parser, !.records = parse.out])
    /\ UNCHANGED <<cursor, polling>>

ReadBreaks ==
    /\ Spend("break")
    /\ conn.pc = "reading"
    /\ Fails
    /\ UNCHANGED <<cursor, polling>>

\* Mutant: what was parsed before stop is handed over after it.
HandsOnAfterStop == TRUE

HandsOn == life = "running"

\* Mutant: the cursor is the last id the parser has seen.
CommitsParsed(c) == c.parser.id

Commits(c) == Head(c.records).id

\* Mutant: one record of a chunk is handed over.
DropsRest(c) == << >>

Rest(c) == Tail(c.records)

\* onRecord returns: its cursor is committed, whatever happened meanwhile.
HandReturns ==
    /\ conn.pc = "handing"
    /\ cursor' = Commits(conn)
    /\ IF HandsOn
       THEN Proceed([conn EXCEPT !.records = Rest(conn)])
       ELSE conn' = NoConnection /\ UNCHANGED <<life, failures, reconnect, timer, page>>
    /\ UNCHANGED <<faults, polling>>

HandRejects ==
    /\ Spend("reject")
    /\ conn.pc = "handing"
    /\ IF life = "running"
       THEN Fails
       ELSE conn' = NoConnection /\ UNCHANGED <<life, failures, reconnect, timer, page>>
    /\ UNCHANGED <<cursor, polling>>

ReconnectFires ==
    /\ reconnect
    /\ reconnect' = FALSE
    /\ conn' = Fetching
    /\ UNCHANGED <<faults, life, cursor, failures, timer, polling, page>>

PollFires ==
    /\ timer
    /\ timer' = FALSE
    /\ polling' = (polling \/ life = "running")
    /\ UNCHANGED <<faults, life, cursor, failures, reconnect, conn, page>>

\* onPoll ends, with a snapshot installed or not; the finally arms the timer
\* again, whether or not there is a connection by now.
PollReturns ==
    /\ polling
    /\ polling' = FALSE
    /\ timer' = (life = "running")
    /\ page' \in IF life = "running" THEN {Emit(page, "POLLING"), Emit(Recovered(page), "POLLING")}
                 ELSE {page}
    /\ UNCHANGED <<faults, life, cursor, failures, reconnect, conn>>

\* The user selects another session, closes this one, a recovery fails, ...
AppCloses ==
    /\ life = "running"
    /\ Stops(page, conn)
    /\ UNCHANGED <<faults, cursor, polling>>

-----------------------------------------------------------------------------
(* Cloud *)

Carries(bytes, next) ==
    /\ Connected /\ ~conn.done
    /\ conn' = [conn EXCEPT !.coming = @ \o bytes, !.next = next]
    /\ UNCHANGED <<life, cursor, failures, reconnect, timer, polling, page>>

CloudSends ==
    /\ Connected /\ conn.next <= MaxEvents
    /\ Carries(Message(conn.next, conn.end), conn.next + 1)
    /\ UNCHANGED faults

CloudSendsOther ==
    \/ Spend("named") /\ \E type \in OtherTypes : Carries(Named(type, conn.end), conn.next)
    \/ Spend("ping") /\ Carries(Ping(conn.end), conn.next)
    \/ Spend("endless") /\ Carries(Endless, conn.next)

Next ==
    \/ RecoveryStarts \/ RecoveryEnds
    \/ Start \/ Answered \/ Refused \/ Unauthorized \/ Gone
    \/ ReadReturns \/ ReadEnds \/ ReadBreaks \/ HandReturns \/ HandRejects
    \/ ReconnectFires \/ PollFires \/ PollReturns \/ AppCloses
    \/ CloudSends \/ CloudSendsOther

Spec == Init /\ [][Next]_vars

\* The timer of reconnecting fires, requests and callbacks end, Cloud sends what
\* it has.
FairSpec ==
    /\ Spec
    /\ WF_vars(Start \/ Answered \/ ReadReturns \/ HandReturns \/ ReconnectFires)
    /\ WF_vars(CloudSends)

-----------------------------------------------------------------------------
(* Properties *)

\* What is kept has its type and its bound: an unfinished record too, also when a
\* line does not end, and the identities of what was shown.
TypeOK ==
    /\ faults \in 0..MaxFaults
    /\ life \in {"new", "running", "stopped"}
    /\ cursor \in 0..MaxEvents /\ failures \in 0..MaxFailures
    /\ {reconnect, timer, polling} \subseteq BOOLEAN
    /\ conn.pc \in {"off", "fetching", "reading", "handing"}
    /\ page.shown \in {"CONNECTING", "LIVE", "RECONNECTING", "POLLING", "RESYNCING", "CLOSED", "ERROR"}
    /\ Len(page.seen) <= MaxRemembered
    /\ Connected => Len(conn.parser.text) + conn.parser.bytes <= MaxRecordBytes

\* However the bytes are cut into chunks and whichever terminators lines have,
\* what onRecord is given is a message of Cloud's, whole, or, when the connection
\* has ended within it, the beginning of one.
HandsCloudsMessages ==
    conn.pc = "handing" =>
        LET record == Head(conn.records)
        IN  /\ record.id \in 1..MaxEvents
            /\ \/ record.data = Payload(record.id)
               \/ conn.done /\ IsPrefix(Head(record.data), Head(Payload(record.id)))

\* What onRecord is given is the message after the last one committed, none twice
\* and none skipped, also when a chunk was refused with the records already parsed
\* in it, when onRecord threw, and when connections broke between any two bytes.
InOrder == conn.pc = "handing" => Head(conn.records).id = cursor + 1

\* A stream that is not stopped has one connection or will try one: no failure
\* leaves it silent, and none starts a second connection beside the first.
OneConnection ==
    life = "running" => (reconnect <=> conn.pc = "off")

\* README.md 56-57, the fallback: as long as connections keep failing the page
\* polls, also when a poll was under way while a connection came and went.
FallsBack == life = "running" /\ failures >= MaxFailures => timer \/ polling

\* A lost connection is told to the user at most once, however many attempts to
\* connect again fail, however polling and recoveries change what is shown.
OneNoticePerLoss == page.told <= 1

\* After stop nothing begins: no record is handed over, no poll and no connection
\* starts, and nothing is told to the user.
SilentAfterStop ==
    [][life = "stopped" =>
           /\ conn'.pc = "off" \/ (conn'.pc = "handing" /\ conn'.records = conn.records)
           /\ polling' => polling
           /\ ~reconnect'
           /\ page'.seen = page.seen]_vars

\* Once nothing interferes any more, every message is handed over and committed,
\* except that the last one, when Cloud ends lines with CR alone, waits for the
\* byte that follows its last CR.
Waits == conn.end = <<CR>> /\ conn.parser.text = <<CR>> /\ cursor = MaxEvents - 1

CatchesUp ==
    <>[](life = "stopped" \/ (conn.pc = "reading" /\ (cursor = MaxEvents \/ Waits)))

=============================================================================
