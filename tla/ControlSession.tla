--------------------------- MODULE ControlSession ---------------------------
(***************************************************************************)
(* The control session of the page (app.js 542-604, 744-870, 913-957,      *)
(* 1059-1124, 1267-1291): browsing workspaces, selecting and closing a     *)
(* session, operations under controlBusy, renewal (Renewal), recreation.   *)
(*                                                                         *)
(* All of it is one object, state, which asynchronous functions change     *)
(* between their awaits; each remembers the controlGeneration it started   *)
(* in.  One action is the code between two awaits.  The helpers take the   *)
(* page and return it changed, as the functions they are named for do.     *)
(***************************************************************************)
EXTENDS Renewal, FiniteSets, FiniteSetsExt

CONSTANTS
    Workspaces, Sessions,
    Calls,          \* asynchronous functions under way at a time
    NONE,
    MaxOpen,        \* no more control sessions are opened and not deleted
    MaxGeneration   \* the user starts nothing in a later generation

Ids == 1 .. MaxOpen

ASSUME ControlAssumption ==
    /\ IsFiniteSet(Calls)
    /\ NONE \notin Workspaces \cup Sessions \cup Ids
    /\ MaxOpen \in Nat /\ MaxGeneration \in Nat

VARIABLES
    page,     \* the fields of state, see Init
    call,     \* where each function under way is suspended
    answers,  \* external: what Cloud answers a command or renewal of a control session
    refused   \* history: Cloud wants a renewal before a mutation of the control session

vars == <<page, call, answers, refused>>

-----------------------------------------------------------------------------
Idle == [pc |-> "idle", gen |-> 0, kind |-> "none", session |-> NONE, cs |-> NONE, from |-> NONE]
Free(c) == call[c].pc = "idle"

\* from is the workspace of the recreation a selection belongs to.
Opening(p, s, from) ==
    [pc |-> "opening", gen |-> p.gen, kind |-> "select", session |-> s, cs |-> NONE, from |-> from]

\* A read that is not of the selected session opens a control session of its own.
Reading(p, kind) ==
    [pc |-> "disposable", gen |-> p.gen, kind |-> kind, session |-> p.workspace, cs |-> NONE,
     from |-> NONE]

Operation(p, kind) ==
    [pc |-> "operation", gen |-> p.gen, kind |-> kind, session |-> p.selected, cs |-> p.cs,
     from |-> NONE]

Waiting(p) == [Operation(p, "recovery") EXCEPT !.pc = "waiting"]
Renewing(p) == [Operation(p, "renewal") EXCEPT !.pc = "renewing"]

Init ==
    /\ page = [gen |-> 0,            \* controlGeneration
               busy |-> FALSE,       \* controlBusy
               known |-> FALSE,      \* workspaces is not empty
               workspace |-> NONE,   \* selectedWorkspaceId
               list |-> NONE,        \* the workspace whose sessions are listed
               selected |-> NONE,    \* selectedSessionId
               cs |-> NONE,          \* controlSession
               lease |-> "active",   \* its expiry, as the page knows it, if there is one
               renewal |-> NoRenewal,
               timers |-> 0,         \* recreations scheduled with setTimeout
               kept |-> {},          \* control sessions opened and not asked to be deleted
               streams |-> {},       \* control sessions whose stream is not stopped
               \* history, which decides nothing:
               lost |-> "no",        \* how the selected session came to have no control session
               twice |-> FALSE,      \* in this generation a session was selected while it was
                                     \* being opened
               replaced |-> {},      \* control sessions whose place the second opening then took
               mixed |-> FALSE]      \* another control session has acted on this one's renewal
    /\ call = [c \in Calls |-> Idle]
    /\ answers = [i \in Ids |-> "plain"]
    /\ refused = FALSE

-----------------------------------------------------------------------------
(* Functions of the page *)

\* Mutant: the stream goes on.
LeavesStream(p) ==
    [p EXCEPT !.gen = @ + 1, !.cs = NONE, !.lease = "active", !.renewal = NoRenewal,
              !.kept = @ \ {p.cs}, !.twice = FALSE, !.mixed = FALSE]

\* closeSelectedControlSession: controlBusy stays as it is.
Close(p) ==
    [p EXCEPT !.gen = @ + 1, !.cs = NONE, !.lease = "active", !.renewal = NoRenewal,
              !.kept = @ \ {p.cs}, !.streams = @ \ {p.cs}, !.twice = FALSE, !.mixed = FALSE]

\* resetRemoteBrowser
Reset(p) ==
    [Close(p) EXCEPT !.busy = FALSE, !.known = FALSE, !.workspace = NONE, !.list = NONE,
                     !.selected = NONE]

Unselect(p) == [p EXCEPT !.selected = NONE, !.list = NONE]

Select(p, s) == [p EXCEPT !.selected = s, !.lost = "no"]

\* Mutant: the flag is released whoever holds it.
ReleasesAlways(p, k) == TRUE

Releases(p, k) == k.gen = p.gen

\* The finally of runRemoteOperation.
Release(p, k) ==
    [p EXCEPT !.busy = IF Releases(p, k) THEN FALSE ELSE @,
              !.kept = IF k.kind \in {"list", "workspaces"} THEN @ \ {k.cs} ELSE @]

\* recreateSelectedControlSession, when the selection it is part of has ended: in
\* another workspace it closes what is selected there.
Tail(p, k) ==
    IF k.from # NONE /\ p.workspace # k.from THEN [Close(p) EXCEPT !.lost = "closed"] ELSE p

\* Function c ends with the page p.
Ends(c, p) ==
    /\ page' = Tail(p, call[c])
    /\ call' = [call EXCEPT ![c] = Idle]

\* Mutant: the control session is closed and nothing follows.
ClosesOnly(c, p) == page' = Close(p) /\ call' = [call EXCEPT ![c] = Idle]

\* recreateSelectedControlSession, called by c: the selected session is opened again.
Recreate(c, p) ==
    IF p.workspace = NONE \/ p.selected = NONE
    THEN page' = p /\ call' = [call EXCEPT ![c] = Idle]
    ELSE /\ page' = Select(Close(p), p.selected)
         /\ call' = [call EXCEPT ![c] = Opening(Close(p), p.selected, p.workspace)]

Recovering == \E c \in Calls : call[c].gen = page.gen /\ call[c].kind = "recovery"
Being(p, s) == \E c \in Calls : call[c].pc = "opening" /\ call[c].gen = p.gen /\ call[c].session = s

\* What the user may do next.
UserActs == page.gen < MaxGeneration

-----------------------------------------------------------------------------
(* The user *)

\* showDeviceList and every other caller of resetRemoteBrowser.
Leave ==
    /\ UserActs
    /\ page' = Reset(page)
    /\ refused' = FALSE
    /\ UNCHANGED <<call, answers>>

\* loadRemoteWorkspaces
LoadWorkspaces(c) ==
    /\ UserActs /\ ~page.busy /\ Free(c)
    /\ LET p == Unselect([IF page.cs = NONE THEN page ELSE Close(page) EXCEPT !.workspace = NONE])
       IN  /\ page' = [p EXCEPT !.busy = TRUE]
           /\ call' = [call EXCEPT ![c] = Reading(p, "workspaces")]
    /\ refused' = FALSE
    /\ UNCHANGED answers

\* A click on a row of the list of workspaces, which decideWorkspaceActivation
\* ignores while controlBusy.
Collapse ==
    /\ UserActs /\ ~page.busy /\ page.workspace # NONE
    /\ page' = Unselect([Close(page) EXCEPT !.workspace = NONE])
    /\ refused' = FALSE
    /\ UNCHANGED <<call, answers>>

SelectWorkspace(c, w) ==
    /\ UserActs /\ ~page.busy /\ page.known /\ w # page.workspace /\ Free(c)
    /\ LET p == Unselect([Close(page) EXCEPT !.workspace = w])
       IN  /\ page' = [p EXCEPT !.busy = TRUE]
           /\ call' = [call EXCEPT ![c] = Reading(p, "list")]
    /\ refused' = FALSE
    /\ UNCHANGED answers

\* refreshRemoteSessions
RefreshSessions(c) ==
    /\ UserActs /\ ~page.busy /\ page.workspace # NONE /\ Free(c)
    /\ page' = [page EXCEPT !.busy = TRUE]
    /\ call' = [call EXCEPT ![c] = Reading(page, "list")]
    /\ UNCHANGED <<answers, refused>>

\* selectRemoteSession, up to openControlSession; nothing tells a session that is
\* being opened from one that is not.
SelectSession(c, s) ==
    /\ UserActs /\ page.list # NONE /\ Free(c)
    /\ page.selected # s \/ page.cs = NONE
    /\ LET q == IF page.cs # NONE THEN Close(page) ELSE page
           p == [q EXCEPT !.twice = @ \/ Being(q, s)]
       IN  /\ page' = Select(p, s)
           /\ call' = [call EXCEPT ![c] = Opening(p, s, NONE)]
    /\ refused' = FALSE
    /\ UNCHANGED answers

\* Selecting the selected session again, or an event the replica cannot apply
\* (RemoteReplica): requestSelectedRecovery.
RecoverSession(c) ==
    /\ UserActs /\ page.cs # NONE /\ page.selected # NONE /\ ~Recovering /\ Free(c)
    /\ call' = [call EXCEPT ![c] = Waiting(page)]
    /\ UNCHANGED <<page, answers, refused>>

CloseSession ==
    /\ UserActs /\ page.selected # NONE
    /\ page' = [Close(page) EXCEPT !.selected = NONE]
    /\ refused' = FALSE
    /\ UNCHANGED <<call, answers>>

\* A prompt, an abort, a reply or a cancellation, up to its POST.
Mutate(c) ==
    /\ UserActs /\ ~page.busy /\ page.cs # NONE /\ page.selected # NONE
    /\ ~Blocks(page.renewal) /\ Free(c)
    /\ page' = [page EXCEPT !.busy = TRUE, !.renewal = NoRenewal]
    /\ call' = [call EXCEPT ![c] = Operation(page, "mutation")]
    /\ UNCHANGED <<answers, refused>>

\* The button of renewal, as last rendered.
RenewOffered ==
    /\ page.cs # NONE /\ ~page.busy
    /\ page.renewal.phase \notin {"renewing", "recreating"}
    /\ page.lease # "active" \/ page.renewal.phase = "renew_required"

\* renewSelectedControlSession
Renew(c) ==
    /\ UserActs /\ RenewOffered /\ Free(c)
    /\ IF page.lease = "expired"
       THEN Recreate(c, [page EXCEPT !.renewal = RenewFailed(@, "closed")]) /\ refused' = FALSE
       ELSE /\ page' = [page EXCEPT !.renewal = RenewRequested(@)]
            /\ call' = IF Renews(page.renewal) THEN [call EXCEPT ![c] = Renewing(page)] ELSE call
            /\ UNCHANGED refused
    /\ UNCHANGED answers

-----------------------------------------------------------------------------
(* Requests return *)

Unused(i) == i \notin page.kept /\ \A c \in Calls : call[c].cs # i

\* The least unused number stands for the ID Cloud gives a control session.
NewIds == {i \in Ids : Unused(i) /\ \A j \in Ids : j < i => ~Unused(j)}

\* Mutant: only the selection is compared.
StillSelected(k) == page.selected = k.session

Wanted(k) == page.gen = k.gen /\ page.selected = k.session

\* The page with a control session of its own, and its stream; one it has already
\* is neither deleted nor its stream stopped.
Opened(p, id) ==
    [p EXCEPT !.cs = id, !.lease = "active", !.renewal = NoRenewal,
              !.kept = @ \cup {id}, !.streams = @ \cup {id},
              !.replaced = IF p.twice THEN @ \cup ({p.cs} \ {NONE}) ELSE @,
              !.mixed = p.cs # NONE]

\* openControlSession returns to selectRemoteSession: the stream starts, and the
\* snapshot is requested unless another operation is under way.
OpenReturns(c) ==
    /\ call[c].pc = "opening"
    /\ \/ /\ ~Wanted(call[c])
          /\ Ends(c, page)
          /\ UNCHANGED <<answers, refused>>
       \/ \E id \in NewIds :
             /\ Wanted(call[c])
             /\ IF page.busy THEN Ends(c, Opened(page, id))
                ELSE /\ page' = [Opened(page, id) EXCEPT !.busy = TRUE]
                     /\ call' = [call EXCEPT ![c].pc = "operation", ![c].cs = id]
             /\ answers' = [answers EXCEPT ![id] = "plain"]
             /\ refused' = FALSE

OpenFails(c) ==
    /\ call[c].pc = "opening"
    /\ Ends(c, [page EXCEPT !.lost = IF Wanted(call[c]) THEN "told" ELSE @])
    /\ UNCHANGED <<answers, refused>>

\* openControlSession returns to runRemoteOperation.
DisposableOpens(c) ==
    /\ call[c].pc = "disposable"
    /\ \/ call[c].gen # page.gen /\ Ends(c, page) /\ UNCHANGED answers
       \/ \E id \in NewIds :
             /\ call[c].gen = page.gen
             /\ page' = [page EXCEPT !.kept = @ \cup {id}]
             /\ call' = [call EXCEPT ![c].pc = "operation", ![c].cs = id]
             /\ answers' = [answers EXCEPT ![id] = "plain"]
    /\ UNCHANGED refused

DisposableFails(c) ==
    /\ call[c].pc = "disposable"
    /\ Ends(c, Release(page, call[c]))
    /\ UNCHANGED <<answers, refused>>

\* refreshSelectedSnapshot finds controlBusy released, or its generation gone.
WaitEnds(c) ==
    /\ call[c].pc = "waiting"
    /\ \/ call[c].gen # page.gen /\ Ends(c, page)
       \/ /\ call[c].gen = page.gen /\ ~page.busy
          /\ page' = [page EXCEPT !.busy = TRUE]
          /\ call' = [call EXCEPT ![c].pc = "operation"]
    /\ UNCHANGED <<answers, refused>>

\* Mutant: whatever list arrives is shown.
ShowsAnyList(p, k) == [p EXCEPT !.list = k.session]

\* What the caller of runRemoteOperation makes of a list.
ShowList(p, k) == IF p.workspace = k.session THEN [p EXCEPT !.list = k.session] ELSE p

OperationReturns(c) ==
    /\ call[c].pc = "operation"
    /\ LET p == Release(page, call[c])
       IN  CASE call[c].kind = "workspaces" -> Ends(c, [p EXCEPT !.known = TRUE])
             [] call[c].kind = "list" -> Ends(c, ShowList(p, call[c]))
             [] call[c].kind = "mutation" -> Ends(c, p)
             [] OTHER -> page' = p /\ call' = [call EXCEPT ![c].pc = "installing"]
    /\ UNCHANGED <<answers, refused>>

\* A failure of the recovery of this generation recreates the control session.
Recovers(k) == k.kind = "recovery" /\ k.gen = page.gen

InstallEnds(c) ==
    /\ call[c].pc = "installing"
    /\ \/ Ends(c, page) /\ UNCHANGED refused
       \/ Recovers(call[c]) /\ Recreate(c, page) /\ refused' = FALSE
    /\ UNCHANGED answers

\* Anything but a refused mutation: the request, the command, its terminal.
OperationFails(c) ==
    /\ call[c].pc = "operation"
    /\ IF Recovers(call[c]) THEN Recreate(c, Release(page, call[c])) /\ refused' = FALSE
       ELSE Ends(c, Release(page, call[c])) /\ UNCHANGED refused
    /\ UNCHANGED answers

Schedules(code) == code = "closed"

\* The catch of runRemoteOperation does not look at generations: a refusal of an
\* earlier one is taken for one of the present control session.
MutationRefused(c) ==
    LET code == answers[call[c].cs]
        p == [page EXCEPT !.renewal = CommandFailed(@, code),
                          !.timers = IF Schedules(code) THEN @ + 1 ELSE @,
                          !.mixed = @ \/ call[c].gen # page.gen]
    IN  /\ call[c].pc = "operation" /\ call[c].kind = "mutation" /\ code # "plain"
        /\ Ends(c, Release(p, call[c]))
        /\ refused' = (refused \/ (code = "reauth" /\ call[c].cs = page.cs))
        /\ UNCHANGED answers

\* setTimeout of a refused mutation: the generation is that of the time it fires.
TimerFires(c) ==
    /\ page.timers > 0 /\ Free(c)
    /\ Recreate(c, [page EXCEPT !.timers = @ - 1])
    /\ refused' = FALSE
    /\ UNCHANGED answers

\* An answer that binds other keys counts as a failure, but has replaced the
\* control session.
RenewReturns(c) ==
    /\ call[c].pc = "renewing" /\ answers[call[c].cs] # "closed"
    /\ IF page.gen # call[c].gen \/ page.cs # call[c].cs
       THEN Ends(c, page) /\ UNCHANGED <<answers, refused>>
       ELSE \E renewal \in {RenewSucceeded(page.renewal), RenewFailed(page.renewal, "plain")} :
              /\ Ends(c, [page EXCEPT !.lease = "active", !.renewal = renewal])
              /\ answers' = [answers EXCEPT ![call[c].cs] = "plain"]
              /\ refused' = FALSE

RenewFails(c) ==
    /\ call[c].pc = "renewing"
    /\ IF page.gen # call[c].gen THEN Ends(c, page) /\ UNCHANGED refused
       ELSE LET code == IF answers[call[c].cs] = "closed" THEN "closed" ELSE "plain"
                p == [page EXCEPT !.renewal = RenewFailed(@, code)]
            IN  IF code = "closed" THEN Recreate(c, p) /\ refused' = FALSE
                ELSE Ends(c, p) /\ UNCHANGED refused
    /\ UNCHANGED answers

-----------------------------------------------------------------------------
(* Time and Cloud *)

LeaseRunsOut ==
    /\ page.cs # NONE
    /\ \/ page.lease = "active" /\ page' = [page EXCEPT !.lease = "approaching"]
       \/ page.lease = "approaching" /\ page' = [page EXCEPT !.lease = "expired"]
    /\ UNCHANGED <<call, answers, refused>>

\* Of control sessions only that of the page and those of functions under way are
\* asked for anything.
Asking == {page.cs} \cup {call[c].cs : c \in Calls}

CloudRefuses ==
    /\ \E i \in page.kept \cap Asking : \E code \in {"reauth", "closed"} :
          answers[i] = "plain" /\ answers' = [answers EXCEPT ![i] = code]
    /\ UNCHANGED <<page, call, refused>>

Next ==
    \/ Leave \/ Collapse \/ CloseSession \/ LeaseRunsOut \/ CloudRefuses
    \/ \E c \in Calls :
          \/ LoadWorkspaces(c) \/ RefreshSessions(c) \/ RecoverSession(c) \/ Mutate(c) \/ Renew(c)
          \/ \E w \in Workspaces : SelectWorkspace(c, w)
          \/ \E s \in Sessions : SelectSession(c, s)
          \/ OpenReturns(c) \/ OpenFails(c) \/ DisposableOpens(c) \/ DisposableFails(c)
          \/ WaitEnds(c) \/ OperationReturns(c) \/ InstallEnds(c) \/ OperationFails(c)
          \/ MutationRefused(c) \/ TimerFires(c) \/ RenewReturns(c) \/ RenewFails(c)

Spec == Init /\ [][Next]_vars

-----------------------------------------------------------------------------
(* Properties *)

Page == [gen : Nat, busy : BOOLEAN, known : BOOLEAN,
         workspace : Workspaces \cup {NONE}, list : Workspaces \cup {NONE},
         selected : Sessions \cup {NONE}, cs : Ids \cup {NONE},
         lease : {"active", "approaching", "expired"}, renewal : Renewal,
         timers : Nat, kept : SUBSET Ids, streams : SUBSET Ids,
         lost : {"no", "told", "closed"}, twice : BOOLEAN, replaced : SUBSET Ids,
         mixed : BOOLEAN]

Call == [pc : {"idle", "opening", "disposable", "waiting", "operation", "installing", "renewing"},
         gen : Nat,
         kind : {"none", "select", "recovery", "list", "workspaces", "mutation", "renewal"},
         session : Sessions \cup Workspaces \cup {NONE}, cs : Ids \cup {NONE},
         from : Workspaces \cup {NONE}]

TypeOK ==
    /\ page \in Page
    /\ call \in [Calls -> Call]
    /\ answers \in [Ids -> ErrorCodes]
    /\ refused \in BOOLEAN

InFlight == {c \in Calls : call[c].pc \in {"disposable", "operation"} /\ call[c].gen = page.gen}

\* However generations come and go and late completions release controlBusy, at
\* most one operation of the present generation is under way, and under the flag.
OneOperation == Cardinality(InFlight) <= 1 /\ (InFlight # {} => page.busy)

\* However selections, closings, recreations and late openings overlap, every
\* control session the page has opened is the selected one or that of a read under
\* way, or the page has asked to delete it, and no stream outlives the selection it
\* was started for: with one exception, the control session of a selection that the
\* user repeated while it was being opened. Both openings pass the comparison of
\* app.js 925, and the second takes the place of the first.
NoOrphans ==
    /\ page.streams = ({page.cs} \ {NONE}) \cup page.replaced
    /\ \A i \in page.kept \ page.replaced :
          i = page.cs \/ \E c \in Calls : call[c].pc = "operation" /\ call[c].cs = i

\* A session that is selected has a control session, or one is being opened for
\* it, or the user was told that it could not be opened: README.md 79-80, however a
\* control session ends but for one way, the end of a recreation that was begun in
\* another workspace (app.js 1273).
SelectedIsServed ==
    page.selected # NONE =>
        page.cs # NONE \/ Being(page, page.selected) \/ page.lost \in {"told", "closed"}

\* The sessions listed are those of the workspace that is expanded, whenever lists
\* arrive.
ListOfWorkspace == page.list \in {NONE, page.workspace}

\* The page is renewing only while a renewal is under way, and one that has a
\* control session waits for a recreation only while one is scheduled: no order of
\* refusals, renewals and selections, late ones included, blocks mutations for
\* something that does not come. As long as no other control session has acted on
\* the renewal, there is at most one and the page shows it; a refusal of an earlier
\* generation, which app.js 769-776 takes for a present one, or a second opening
\* ends that.
OneRenewal ==
    LET renewals == {c \in Calls : call[c].pc = "renewing" /\ call[c].gen = page.gen}
    IN  /\ page.renewal.phase = "renewing" => renewals # {}
        /\ page.renewal.phase = "recreating" /\ page.cs # NONE => page.timers > 0
        /\ page.mixed \/ (/\ Cardinality(renewals) <= 1
                          /\ renewals # {} => page.renewal.phase = "renewing")

\* README.md 76-79, of the order alone: after Cloud has asked for a renewal no
\* mutation of the control session is sent before one has succeeded. That the user
\* repeats it under the same key is no part of it.
RetryAfterRenewal ==
    [][\A c \in Calls : call'[c] # call[c] /\ call'[c].pc = "operation" /\ call'[c].kind = "mutation"
                           => ~refused]_vars

\* The renewal of the present control session, and its recreation, are changed by a
\* mutation that Cloud refuses in whatever generation (app.js 769-776).
TakenForPresent(c) ==
    /\ call[c].pc = "operation" /\ call[c].kind = "mutation" /\ answers[call[c].cs] # "plain"
    /\ page'.cs = page.cs /\ page'.streams = page.streams

\* The end of a recreation closes what is selected in another workspace (app.js 1273).
Sweeps(c) ==
    /\ call[c].from \notin {NONE, page.workspace}
    /\ page'.cs = NONE /\ page'.streams = page.streams \ {page.cs} /\ page'.timers = page.timers

\* A function that goes on after its generation has passed releases no flag of the
\* present one and selects nothing; and it touches the present control session, its
\* stream, its renewal and the recreations scheduled in two cases only.
Fenced ==
    [][\A c \in Calls :
          ~Free(c) /\ call'[c] # call[c] /\ call[c].gen # page.gen
              => /\ page'.busy = page.busy /\ page'.selected = page.selected
                 /\ \/ /\ page'.cs = page.cs /\ page'.streams = page.streams
                       /\ page'.renewal = page.renewal /\ page'.timers = page.timers
                    \/ TakenForPresent(c)
                    \/ Sweeps(c)]_vars

-----------------------------------------------------------------------------
(* What a document says, where the code differs. *)

\* README.md:76: "Control sessions can be explicitly renewed before they expire."
OfferedRenewalRenews == RenewOffered /\ page.lease # "expired" => Renews(page.renewal)
=============================================================================
