----------------------- MODULE ControlSessionProofs ------------------------
(***************************************************************************)
(* What holds of the control session for every value of the constants:     *)
(* types, at most one operation of the present generation, the list of the *)
(* expanded workspace, and no mutation before the renewal Cloud asked for; *)
(* then what becomes of the control sessions Cloud opened, of the          *)
(* selection, of renewals and of completions of an earlier generation.     *)
(*                                                                         *)
(* Every step but a few changes one call and the page, so that Proper says *)
(* once what such a step has to do and Keeps why that is enough.           *)
(***************************************************************************)
EXTENDS ControlSession, FiniteSetTheorems, TLAPS

-----------------------------------------------------------------------------
(* The inductive invariant.  p is the page and k the calls; a step changes   *)
(* both, one call at a time.                                                *)

Flying(k, p) == k.pc \in {"disposable", "operation"} /\ k.gen = p.gen

\* What has not been posted yet is no mutation; what is posted has a control session.
Formed(k) ==
    /\ k.pc \in {"opening", "disposable", "waiting"} => k.kind # "mutation"
    /\ k.pc \in {"waiting", "operation"} => k.cs \in Ids

\* No call is ahead of the page; of those that fly none is beside another, and the
\* page is busy.
Safe(p, k) ==
    /\ p \in Page /\ k \in [Calls -> Call]
    /\ \A c \in Calls : k[c].gen <= p.gen
    /\ \A c, d \in Calls : Flying(k[c], p) /\ Flying(k[d], p) => c = d
    /\ \A c \in Calls : Flying(k[c], p) => p.busy
    /\ \A c \in Calls : Formed(k[c])
    /\ p.list \in {NONE, p.workspace}

\* While a renewal is asked for, r, the page blocks mutations or has no control session.
Asked(p, r) == r => Blocks(p.renewal) \/ p.cs = NONE

\* The rest of the state, which decides nothing.
Rest == answers \in [Ids -> ErrorCodes] /\ refused \in BOOLEAN

IInv == Safe(page, call) /\ Rest /\ Asked(page, refused)

\* The step of RetryAfterRenewal.
Posts(k) == k.pc = "operation" /\ k.kind = "mutation"
Waits == \A c \in Calls : call'[c] # call[c] /\ Posts(call'[c]) => ~refused

-----------------------------------------------------------------------------
(* The helpers *)

LEMMA CloseFacts ==
    ASSUME NEW p \in Page
    PROVE  /\ Close(p) \in Page
           /\ Close(p).gen = p.gen + 1 /\ Close(p).busy = p.busy
           /\ Close(p).list = p.list /\ Close(p).workspace = p.workspace
           /\ Close(p).selected = p.selected /\ Close(p).cs = NONE
<1>1. /\ Close(p).gen = p.gen + 1 /\ Close(p).busy = p.busy
      /\ Close(p).list = p.list /\ Close(p).workspace = p.workspace
      /\ Close(p).selected = p.selected /\ Close(p).cs = NONE
  BY DEF Close, Page
<1>2. p.gen + 1 \in Nat /\ NoRenewal \in Renewal
  BY DEF Page, NoRenewal, Renewal
<1>3. p.kept \ {p.cs} \in SUBSET Ids /\ p.streams \ {p.cs} \in SUBSET Ids
  BY DEF Page
<1>a. FALSE \in BOOLEAN
  OBVIOUS
<1> HIDE DEF NoRenewal
<1>4. Close(p) \in Page
  BY <1>2, <1>3, <1>a DEF Close, Page
<1> QED BY <1>1, <1>4

LEMMA ResetFacts ==
    ASSUME NEW p \in Page
    PROVE  Reset(p) \in Page /\ Reset(p).gen = p.gen + 1 /\ Reset(p).list = NONE
<1> DEFINE q == Close(p)
<1>1. q \in Page /\ q.gen = p.gen + 1
  BY CloseFacts
<1>2. Reset(p) = [q EXCEPT !.busy = FALSE, !.known = FALSE, !.workspace = NONE, !.list = NONE,
                           !.selected = NONE]
  BY DEF Reset
<1> HIDE DEF q
<1> QED BY <1>1, <1>2 DEF Page

LEMMA ReleaseFacts ==
    ASSUME NEW p \in Page, NEW k \in Call
    PROVE  /\ Release(p, k) \in Page
           /\ Release(p, k).gen = p.gen
           /\ Release(p, k).busy = IF k.gen = p.gen THEN FALSE ELSE p.busy
           /\ Release(p, k).list = p.list /\ Release(p, k).workspace = p.workspace
           /\ Release(p, k).selected = p.selected
           /\ Release(p, k).renewal = p.renewal /\ Release(p, k).cs = p.cs
BY DEF Release, Releases, Page, Call

LEMMA TailFacts ==
    ASSUME NEW p \in Page, NEW k \in Call
    PROVE  /\ Tail(p, k) \in Page
           /\ \/ Tail(p, k) = p
              \/ Tail(p, k).gen = p.gen + 1 /\ Tail(p, k).cs = NONE
           /\ Tail(p, k).list = p.list /\ Tail(p, k).workspace = p.workspace
<1> DEFINE q == Close(p)
<1>1. /\ q \in Page /\ q.gen = p.gen + 1 /\ q.cs = NONE /\ q.list = p.list
      /\ q.workspace = p.workspace
  BY CloseFacts
<1>2. Tail(p, k) \in {p, [q EXCEPT !.lost = "closed"]}
  BY DEF Tail
<1> HIDE DEF q
<1> QED BY <1>1, <1>2 DEF Page

-----------------------------------------------------------------------------
(* Steps *)

\* What a step may do: c becomes k and the page p.
Proper(p, c, k) ==
    /\ p \in Page /\ k \in Call
    /\ p.list \in {NONE, p.workspace}
    /\ p.gen >= page.gen /\ k.gen <= p.gen
    /\ Flying(k, p) => p.busy
    /\ p.gen = page.gen => \/ ~page.busy
                           \/ Flying(call[c], page)
                           \/ p.busy = page.busy /\ ~Flying(k, p)
    /\ Formed(k)
    /\ Posts(k) => k = call[c] \/ ~refused

LEMMA ProperIsSafe ==
    ASSUME IInv, NEW p, NEW c \in Calls, NEW k, Proper(p, c, k)
    PROVE  Safe(p, [call EXCEPT ![c] = k])
<1> DEFINE after == [call EXCEPT ![c] = k]
<1>1. /\ after \in [Calls -> Call] /\ after[c] = k
      /\ \A d \in Calls \ {c} : after[d] = call[d]
  BY DEF IInv, Safe, Proper
<1>2. page.gen \in Nat /\ p.gen \in Nat /\ k.gen \in Nat /\ \A d \in Calls : call[d].gen \in Nat
  BY DEF IInv, Safe, Proper, Page, Call
<1>3. \A d \in Calls : after[d].gen <= p.gen /\ Formed(after[d])
  BY <1>1, <1>2 DEF IInv, Safe, Proper
<1>4. CASE p.gen > page.gen
  <2>1. \A d \in Calls \ {c} : ~Flying(after[d], p)
    BY <1>1, <1>2, <1>4 DEF IInv, Safe, Flying
  <2> QED BY <2>1, <1>1, <1>3 DEF Safe, Proper
<1>5. CASE p.gen = page.gen
  <2>1. \A d \in Calls \ {c} : Flying(after[d], p) => Flying(call[d], page)
    BY <1>1, <1>5 DEF Flying
  <2>2. CASE ~page.busy \/ Flying(call[c], page)
    <3>1. \A d \in Calls \ {c} : ~Flying(after[d], p)
      BY <2>1, <2>2 DEF IInv, Safe
    <3> QED BY <3>1, <1>1, <1>3 DEF Safe, Proper
  <2>3. CASE p.busy = page.busy /\ ~Flying(k, p)
    BY <2>1, <2>3, <1>1, <1>3 DEF IInv, Safe, Proper
  <2> QED BY <2>2, <2>3, <1>5 DEF Proper
<1> QED BY <1>2, <1>4, <1>5 DEF Proper

LEMMA Keeps ==
    ASSUME IInv, NEW p, NEW c \in Calls, NEW k, Proper(p, c, k), Rest', Asked(p, refused'),
           page' = p, call' = [call EXCEPT ![c] = k]
    PROVE  IInv' /\ Waits
<1>1. Safe(page', call')
  BY ProperIsSafe
<1>2. \A d \in Calls : call'[d] # call[d] => d = c /\ call'[d] = k
  BY DEF IInv, Safe
<1> QED BY <1>1, <1>2 DEF IInv, Waits, Asked, Safe, Proper

\* No call moves; the page stays in its generation or leaves it.
LEMMA KeepsCalls ==
    ASSUME IInv, NEW p \in Page, Rest', Asked(p, refused'), page' = p, UNCHANGED call,
           p.list \in {NONE, p.workspace},
           p.gen = page.gen + 1 \/ (p.gen = page.gen /\ p.busy = page.busy)
    PROVE  IInv' /\ Waits
<1>1. page.gen \in Nat /\ p.gen \in Nat /\ \A d \in Calls : call[d].gen \in Nat
  BY DEF IInv, Safe, Page, Call
<1>2. Safe(p, call)
  BY <1>1 DEF IInv, Safe, Flying
<1> QED BY <1>2 DEF IInv, Waits, Asked

\* The function ends.
LEMMA EndsKeeps ==
    ASSUME IInv, NEW c \in Calls, NEW p \in Page, Ends(c, p), Rest', Asked(p, refused'),
           p.list \in {NONE, p.workspace}, p.gen = page.gen,
           p.busy = page.busy \/ Flying(call[c], page)
    PROVE  IInv' /\ Waits
<1> DEFINE q == Tail(p, call[c])
<1>1. call[c] \in Call /\ Idle \in Call /\ Idle.gen = 0 /\ Idle.pc = "idle"
  BY DEF IInv, Safe, Call, Idle
<1>2. /\ q \in Page /\ q.list \in {NONE, q.workspace}
      /\ q = p \/ (q.gen = p.gen + 1 /\ q.cs = NONE)
  BY <1>1, TailFacts
<1>3. page' = q /\ call' = [call EXCEPT ![c] = Idle]
  BY DEF Ends
<1>4. page.gen \in Nat
  BY DEF IInv, Safe, Page
<1> HIDE DEF q
<1>5. Proper(q, c, Idle)
  BY <1>1, <1>2, <1>4 DEF Proper, Flying, Posts, Formed
<1>6. Asked(q, refused')
  BY <1>2 DEF Asked
<1> QED BY <1>3, <1>5, <1>6, Keeps

\* The selected session is opened again.
LEMMA RecreateKeeps ==
    ASSUME IInv, NEW c \in Calls, NEW p \in Page, Recreate(c, p), Rest', refused' = FALSE,
           p.list \in {NONE, p.workspace}, p.gen = page.gen,
           p.busy = page.busy \/ Flying(call[c], page)
    PROVE  IInv' /\ Waits
<1>0. page.gen \in Nat /\ p.gen \in Nat
  BY DEF IInv, Safe, Page
<1>1. CASE p.workspace = NONE \/ p.selected = NONE
  <2>1. Idle \in Call /\ Idle.gen = 0 /\ Idle.pc = "idle"
    BY DEF Call, Idle
  <2>2. Proper(p, c, Idle)
    BY <2>1, <1>0 DEF Proper, Flying, Posts, Formed
  <2> QED BY <1>1, <2>2, Keeps DEF Recreate, Asked
<1>2. CASE ~(p.workspace = NONE \/ p.selected = NONE)
  <2> DEFINE q == Select(Close(p), p.selected)
             k == Opening(Close(p), p.selected, p.workspace)
  <2>1. /\ q \in Page /\ q.gen = p.gen + 1 /\ q.list = p.list /\ q.workspace = p.workspace
    BY CloseFacts DEF Select, Page
  <2>2. k \in Call /\ k.gen = p.gen + 1 /\ k.pc = "opening" /\ k.kind = "select"
    BY CloseFacts DEF Opening, Call, Page
  <2>3. page' = q /\ call' = [call EXCEPT ![c] = k]
    BY <1>2 DEF Recreate
  <2> HIDE DEF q, k
  <2>4. Proper(q, c, k)
    BY <2>1, <2>2, <1>0 DEF Proper, Flying, Posts, Formed
  <2> QED BY <2>3, <2>4, Keeps DEF Asked
<1> QED BY <1>1, <1>2

-----------------------------------------------------------------------------
(* The user *)

LEMMA Typed ==
    ASSUME IInv
    PROVE  /\ page \in Page /\ page.gen \in Nat /\ page.list \in {NONE, page.workspace}
           /\ \A c \in Calls : call[c] \in Call
BY DEF IInv, Safe, Page

LEMMA Browsing ==
    ASSUME IInv, Leave \/ Collapse \/ CloseSession
    PROVE  IInv' /\ Waits
<1> USE Typed
<1>1. CASE Leave
  <2>1. Reset(page) \in Page /\ Reset(page).gen = page.gen + 1 /\ Reset(page).list = NONE
    BY ResetFacts
  <2> QED BY <1>1, <2>1, KeepsCalls DEF Leave, Rest, Asked, IInv
<1>2. CASE Collapse
  <2> DEFINE q == Close(page)
             p == Unselect([q EXCEPT !.workspace = NONE])
  <2>1. q \in Page /\ q.gen = page.gen + 1
    BY CloseFacts
  <2> HIDE DEF q
  <2>2. p \in Page /\ p.gen = page.gen + 1 /\ p.list = NONE
    BY <2>1 DEF Unselect, Page
  <2>3. page' = p
    BY <1>2 DEF Collapse, q
  <2> HIDE DEF p
  <2> QED BY <1>2, <2>2, <2>3, KeepsCalls DEF Collapse, Rest, Asked, IInv
<1>3. CASE CloseSession
  <2> DEFINE q == Close(page)
             p == [q EXCEPT !.selected = NONE]
  <2>1. q \in Page /\ q.gen = page.gen + 1 /\ q.list = page.list /\ q.workspace = page.workspace
    BY CloseFacts
  <2>2. page' = p
    BY <1>3 DEF CloseSession
  <2> HIDE DEF q
  <2>3. p \in Page /\ p.gen = page.gen + 1 /\ p.list \in {NONE, p.workspace}
    BY <2>1 DEF Page
  <2> HIDE DEF p
  <2> QED BY <1>3, <2>2, <2>3, KeepsCalls DEF CloseSession, Rest, Asked, IInv
<1> QED BY <1>1, <1>2, <1>3

\* A read begins, of the page p in which no operation is under way.
LEMMA ReadBegins ==
    ASSUME IInv, NEW c \in Calls, NEW p \in Page, NEW kind \in {"list", "workspaces"},
           page' = [p EXCEPT !.busy = TRUE], call' = [call EXCEPT ![c] = Reading(p, kind)],
           ~page.busy, p.gen \in {page.gen, page.gen + 1}, p.list \in {NONE, p.workspace}, Rest',
           Asked(p, refused')
    PROVE  IInv' /\ Waits
<1> DEFINE q == [p EXCEPT !.busy = TRUE]
           k == Reading(p, kind)
<1>1. /\ q \in Page /\ q.gen = p.gen /\ q.busy /\ q.list = p.list /\ q.workspace = p.workspace
      /\ p.gen \in Nat /\ q.renewal = p.renewal /\ q.cs = p.cs
  BY DEF Page
<1>2. k \in Call /\ k.gen = p.gen /\ k.pc = "disposable" /\ k.kind # "mutation"
  BY DEF Reading, Call, Page
<1> HIDE DEF q, k
<1>3. Proper(q, c, k)
  <2>1. q.gen >= page.gen /\ k.gen <= q.gen
    BY <1>1, <1>2, Typed
  <2> QED BY <2>1, <1>1, <1>2, Zenon DEF Proper, Posts, Formed
<1>4. Asked(q, refused')
  BY <1>1 DEF Asked
<1> QED BY <1>3, <1>4, Keeps DEF q, k

LEMMA Reads ==
    ASSUME IInv, NEW c \in Calls,
           LoadWorkspaces(c) \/ RefreshSessions(c) \/ \E w \in Workspaces : SelectWorkspace(c, w)
    PROVE  IInv' /\ Waits
<1> USE Typed
<1>1. CASE LoadWorkspaces(c)
  <2> DEFINE q == IF page.cs = NONE THEN page ELSE Close(page)
             p == Unselect([q EXCEPT !.workspace = NONE])
  <2>1. q \in Page /\ q.gen \in {page.gen, page.gen + 1}
    BY CloseFacts
  <2>2. page' = [p EXCEPT !.busy = TRUE] /\ call' = [call EXCEPT ![c] = Reading(p, "workspaces")]
    BY <1>1 DEF LoadWorkspaces
  <2> HIDE DEF q
  <2>3. p \in Page /\ p.gen = q.gen /\ p.list = NONE
    BY <2>1 DEF Unselect, Page
  <2> HIDE DEF p
  <2> QED BY <1>1, <2>1, <2>2, <2>3, ReadBegins DEF LoadWorkspaces, Rest, Asked, IInv
<1>2. CASE RefreshSessions(c)
  BY <1>2, ReadBegins DEF RefreshSessions, Rest, Asked, IInv
<1>3. CASE \E w \in Workspaces : SelectWorkspace(c, w)
  <2>1. PICK w \in Workspaces : SelectWorkspace(c, w)
    BY <1>3
  <2> DEFINE q == Close(page)
             p == Unselect([q EXCEPT !.workspace = w])
  <2>2. q \in Page /\ q.gen = page.gen + 1
    BY CloseFacts
  <2>3. page' = [p EXCEPT !.busy = TRUE] /\ call' = [call EXCEPT ![c] = Reading(p, "list")]
    BY <2>1 DEF SelectWorkspace
  <2> HIDE DEF q
  <2>4. p \in Page /\ p.gen = page.gen + 1 /\ p.list = NONE
    BY <2>2 DEF Unselect, Page
  <2> HIDE DEF p
  <2> QED BY <2>1, <2>3, <2>4, ReadBegins DEF SelectWorkspace, Rest, Asked, IInv
<1> QED BY <1>1, <1>2, <1>3

LEMMA Selects ==
    ASSUME IInv, NEW c \in Calls, NEW s \in Sessions, SelectSession(c, s)
    PROVE  IInv' /\ Waits
<1> DEFINE r == IF page.cs # NONE THEN Close(page) ELSE page
           twice == r.twice \/ Being(r, s)
           q == [r EXCEPT !.twice = twice]
           p == Select(q, s)
           k == Opening(q, s, NONE)
<1>0. /\ r \in Page /\ r.gen \in {page.gen, page.gen + 1} /\ r.busy = page.busy
      /\ r.list \in {NONE, r.workspace}
  BY Typed, CloseFacts
<1>2. page' = p /\ call' = [call EXCEPT ![c] = k]
  BY DEF SelectSession
<1>a. twice \in BOOLEAN
  OBVIOUS
<1> HIDE DEF r, twice
<1>1. /\ q \in Page /\ q.gen = r.gen /\ q.busy = page.busy
      /\ q.list \in {NONE, q.workspace}
  BY <1>0, <1>a DEF Page
<1> HIDE DEF q
<1>3. /\ p \in Page /\ p.gen = q.gen /\ p.busy = q.busy /\ p.list = q.list
      /\ p.workspace = q.workspace /\ q.gen \in Nat
  BY <1>1 DEF Select, Page
<1>4. k \in Call /\ k.gen = q.gen /\ k.pc = "opening" /\ k.kind = "select"
  BY <1>1 DEF Opening, Call, Page
<1> HIDE DEF p, k
<1>5. Proper(p, c, k)
  BY <1>0, <1>1, <1>3, <1>4, Typed DEF Proper, Flying, Posts, Formed
<1> QED BY <1>2, <1>5, Keeps DEF SelectSession, Rest, Asked, IInv

LEMMA Recovery ==
    ASSUME IInv, NEW c \in Calls, RecoverSession(c)
    PROVE  IInv' /\ Waits
<1>1. /\ Waiting(page) \in Call /\ Waiting(page).gen = page.gen /\ Waiting(page).pc = "waiting"
      /\ Waiting(page).kind = "recovery" /\ Waiting(page).cs \in Ids
  BY Typed DEF RecoverSession, Waiting, Operation, Call, Page
<1>2. Proper(page, c, Waiting(page))
  BY <1>1, Typed DEF Proper, Flying, Posts, Formed
<1>3. page' = page /\ call' = [call EXCEPT ![c] = Waiting(page)]
  BY DEF RecoverSession
<1> QED BY <1>2, <1>3, Keeps DEF RecoverSession, Rest, Asked, IInv

LEMMA Mutates ==
    ASSUME IInv, NEW c \in Calls, Mutate(c)
    PROVE  IInv' /\ Waits
<1> DEFINE p == [page EXCEPT !.busy = TRUE, !.renewal = NoRenewal]
           k == Operation(page, "mutation")
<1>1. ~refused
  BY DEF Mutate, IInv, Asked
<1>2. NoRenewal \in Renewal
  BY DEF NoRenewal, Renewal
<1> HIDE DEF NoRenewal
<1>3. p \in Page /\ p.gen = page.gen /\ p.busy /\ p.list = page.list /\ p.workspace = page.workspace
  BY <1>2, Typed DEF Page
<1>4. k \in Call /\ k.gen = page.gen /\ k.pc = "operation" /\ k.cs \in Ids
  BY Typed DEF Mutate, Operation, Call, Page
<1>5. page' = p /\ call' = [call EXCEPT ![c] = k]
  BY DEF Mutate
<1> HIDE DEF p, k
<1>6. Proper(p, c, k)
  <2>1. p.gen >= page.gen /\ k.gen <= p.gen
    BY <1>3, <1>4, Typed
  <2>2. ~page.busy
    BY DEF Mutate
  <2> QED BY <2>1, <2>2, <1>1, <1>3, <1>4, Typed, Zenon DEF Proper, Formed
<1> QED BY <1>1, <1>5, <1>6, Keeps DEF Mutate, Rest, Asked, IInv

LEMMA RenewalTypes ==
    ASSUME NEW r \in Renewal
    PROVE  /\ RenewRequested(r) \in Renewal /\ RenewSucceeded(r) \in Renewal
           /\ \A code \in ErrorCodes : CommandFailed(r, code) \in Renewal /\ RenewFailed(r, code) \in Renewal
           /\ Blocks(r) => Blocks(RenewRequested(r))
           /\ \A code \in ErrorCodes : Blocks(RenewFailed(r, code))
           /\ \A code \in ErrorCodes : code = "reauth" \/ Blocks(r) => Blocks(CommandFailed(r, code))
<1>0. /\ \A s \in Renewal : [s EXCEPT !.attempts = 1] \in Renewal
      /\ \A s \in Renewal : [s EXCEPT !.operation = TRUE] \in Renewal
      /\ \A s \in Renewal :
            \A phase \in {"renewing", "retry_required", "recreating", "renew_failed"} :
               [s EXCEPT !.phase = phase] \in Renewal
  <2>1. \A s \in Renewal : [s EXCEPT !.attempts = 1] \in Renewal
    BY DEF Renewal
  <2>2. \A s \in Renewal : [s EXCEPT !.operation = TRUE] \in Renewal
    BY DEF Renewal
  <2>3. \A s \in Renewal :
            \A phase \in {"renewing", "retry_required", "recreating", "renew_failed"} :
               [s EXCEPT !.phase = phase] \in Renewal
    BY DEF Renewal
  <2> QED BY <2>1, <2>2, <2>3
<1>a. /\ NoRenewal \in Renewal
       /\ [phase |-> "renew_required", operation |-> TRUE, attempts |-> 0] \in Renewal
  BY DEF Renewal, NoRenewal
<1> HIDE DEF NoRenewal
<1>1. RenewRequested(r) \in Renewal
  <2> DEFINE s == [r EXCEPT !.phase = "renewing"]
  <2>1. s \in Renewal
    BY <1>0
  <2>2. RenewRequested(r) = IF Renews(r) THEN [s EXCEPT !.attempts = 1] ELSE r
    BY DEF RenewRequested
  <2> HIDE DEF s
  <2> QED BY <2>1, <2>2, <1>0
<1>2. RenewSucceeded(r) \in Renewal
  <2> DEFINE s == [r EXCEPT !.phase = "retry_required"]
  <2>1. s \in Renewal
    BY <1>0
  <2>2. RenewSucceeded(r) = IF r.operation THEN [s EXCEPT !.attempts = 1] ELSE NoRenewal
    BY DEF RenewSucceeded
  <2> HIDE DEF s
  <2> QED BY <2>1, <2>2, <1>0, <1>a
<1>3. \A code \in ErrorCodes : CommandFailed(r, code) \in Renewal
  <2> TAKE code \in ErrorCodes
  <2> DEFINE s == [r EXCEPT !.phase = "recreating"]
  <2>1. s \in Renewal
    BY <1>0
  <2>2. CASE code = "closed"
    <3>1. CommandFailed(r, code) = [s EXCEPT !.operation = TRUE]
      BY <2>2 DEF CommandFailed
    <3> HIDE DEF s
    <3> QED BY <2>1, <3>1, <1>0
  <2>3. CASE code = "reauth"
    BY <2>3, <1>a DEF CommandFailed
  <2>4. CASE code = "plain"
    BY <2>4 DEF CommandFailed
  <2> QED BY <2>2, <2>3, <2>4 DEF ErrorCodes
<1>4. \A code \in ErrorCodes : RenewFailed(r, code) \in Renewal
  BY <1>0 DEF RenewFailed, ErrorCodes
<1>5. Blocks(r) => Blocks(RenewRequested(r))
  BY DEF Blocks, RenewRequested, Renewal
<1>6. \A code \in ErrorCodes : Blocks(RenewFailed(r, code))
  BY DEF Blocks, RenewFailed, ErrorCodes, Renewal
<1>7. \A code \in ErrorCodes : code = "reauth" \/ Blocks(r) => Blocks(CommandFailed(r, code))
  BY DEF Blocks, CommandFailed, ErrorCodes, Renewal
<1> QED BY <1>1, <1>2, <1>3, <1>4, <1>5, <1>6, <1>7

\* The renewal of the page changes, and nothing of what else the invariant reads.
LEMMA WithRenewal ==
    ASSUME NEW p \in Page, NEW r \in Renewal
    PROVE  /\ [p EXCEPT !.renewal = r] \in Page
           /\ [p EXCEPT !.renewal = r].renewal = r
           /\ \A field \in {"gen", "busy", "list", "workspace", "selected", "cs"} :
                 [p EXCEPT !.renewal = r][field] = p[field]
BY DEF Page

LEMMA Renewals ==
    ASSUME IInv, NEW c \in Calls, Renew(c)
    PROVE  IInv' /\ Waits
<1>0. page.renewal \in Renewal
  BY Typed DEF Page
<1>1. CASE page.lease = "expired"
  <2> DEFINE p == [page EXCEPT !.renewal = RenewFailed(@, "closed")]
  <2>1. p \in Page /\ p.gen = page.gen /\ p.busy = page.busy /\ p.list = page.list
        /\ p.workspace = page.workspace
    BY <1>0, Typed, RenewalTypes, WithRenewal DEF ErrorCodes
  <2>2. Recreate(c, p) /\ refused' = FALSE /\ answers' = answers
    BY <1>1 DEF Renew
  <2>3. Rest' /\ p.list \in {NONE, p.workspace}
    BY <2>1, <2>2, Typed DEF Rest, IInv
  <2> HIDE DEF p
  <2> QED BY <2>1, <2>2, <2>3, RecreateKeeps
<1>2. CASE page.lease # "expired"
  <2> DEFINE p == [page EXCEPT !.renewal = RenewRequested(@)]
             k == IF Renews(page.renewal) THEN Renewing(page) ELSE call[c]
  <2>1. /\ p \in Page /\ p.gen = page.gen /\ p.busy = page.busy /\ p.list = page.list
        /\ p.workspace = page.workspace /\ p.cs = page.cs
        /\ Blocks(page.renewal) => Blocks(p.renewal)
    BY <1>0, Typed, RenewalTypes, WithRenewal
  <2>2. Renewing(page) \in Call /\ Renewing(page).gen = page.gen /\ Renewing(page).pc = "renewing"
    BY Typed DEF Renewing, Operation, Call, Page
  <2>3. /\ page' = p /\ refused' = refused /\ answers' = answers
        /\ call' = IF Renews(page.renewal) THEN [call EXCEPT ![c] = Renewing(page)] ELSE call
    BY <1>2 DEF Renew
  <2>4. Asked(p, refused') /\ Rest'
    BY <2>1, <2>3 DEF Asked, Rest, IInv
  <2> HIDE DEF p
  <2>5. CASE Renews(page.renewal)
    <3>1. Proper(p, c, Renewing(page))
      BY <2>1, <2>2, Typed DEF Proper, Flying, Posts, Formed
    <3> QED BY <2>3, <2>4, <2>5, <3>1, Keeps
  <2>6. CASE ~Renews(page.renewal)
    BY <2>1, <2>3, <2>4, <2>6, Typed, KeepsCalls
  <2> QED BY <2>5, <2>6
<1> QED BY <1>1, <1>2

-----------------------------------------------------------------------------
(* Requests return *)

\* Facts about the page that a completion hands on.
LEMMA ReleasedPage ==
    ASSUME IInv, NEW c \in Calls, NEW p \in Page, call[c].pc = "operation", p.gen = page.gen,
           p.busy = page.busy, p.list \in {NONE, p.workspace}
    PROVE  LET q == Release(p, call[c])
           IN  /\ q \in Page /\ q.gen = page.gen /\ q.list = p.list /\ q.workspace = p.workspace
               /\ q.busy = page.busy \/ Flying(call[c], page)
               /\ q.renewal = p.renewal /\ q.cs = p.cs
<1>1. call[c] \in Call
  BY Typed
<1>2. CASE call[c].gen = page.gen
  <2>1. Flying(call[c], page)
    BY <1>2 DEF Flying
  <2> QED BY <2>1, <1>1, ReleaseFacts
<1>3. CASE call[c].gen # page.gen
  BY <1>1, <1>3, ReleaseFacts
<1> QED BY <1>2, <1>3

\* A control session with a new ID, for the page or a read.
LEMMA NewIdTypes == \A id \in NewIds : id \in Ids
BY DEF NewIds

LEMMA CallMoves ==
    ASSUME NEW k \in Call, NEW id \in Ids
    PROVE  LET o == [k EXCEPT !.pc = "operation", !.cs = id]
           IN  o \in Call /\ o.pc = "operation" /\ o.gen = k.gen /\ o.kind = k.kind /\ o.cs = id
<1> DEFINE h == [k EXCEPT !.pc = "operation"]
           o == [h EXCEPT !.cs = id]
<1>1. h \in Call /\ h.pc = "operation" /\ h.gen = k.gen /\ h.kind = k.kind
  BY DEF Call
<1> HIDE DEF h
<1>2. o \in Call /\ o.pc = "operation" /\ o.gen = k.gen /\ o.kind = k.kind /\ o.cs = id
  BY <1>1 DEF Call
<1> QED BY <1>2 DEF h

LEMMA CallSteps ==
    ASSUME NEW k \in Call, NEW pc \in {"operation", "installing"}
    PROVE  LET o == [k EXCEPT !.pc = pc]
           IN  o \in Call /\ o.pc = pc /\ o.gen = k.gen /\ o.kind = k.kind /\ o.cs = k.cs
BY DEF Call

LEMMA OpenedFacts ==
    ASSUME NEW p \in Page, NEW id \in Ids
    PROVE  LET q == Opened(p, id)
           IN  /\ q \in Page /\ q.gen = p.gen /\ q.busy = p.busy /\ q.list = p.list
               /\ q.workspace = p.workspace
<1>1. NoRenewal \in Renewal
  BY DEF NoRenewal, Renewal
<1> HIDE DEF NoRenewal
<1> DEFINE replaced == IF p.twice THEN p.replaced \cup ({p.cs} \ {NONE}) ELSE p.replaced
           mixed == p.cs # NONE
<1>2. p.kept \cup {id} \in SUBSET Ids /\ p.streams \cup {id} \in SUBSET Ids
  BY DEF Page
<1>3. replaced \in SUBSET Ids /\ mixed \in BOOLEAN
  BY DEF Page
<1>4. Opened(p, id) =
        [p EXCEPT !.cs = id, !.lease = "active", !.renewal = NoRenewal,
                  !.kept = p.kept \cup {id}, !.streams = p.streams \cup {id},
                  !.replaced = replaced, !.mixed = mixed]
  BY DEF Opened
<1> HIDE DEF replaced, mixed
<1> QED BY <1>1, <1>2, <1>3, <1>4 DEF Page

LEMMA Opens ==
    ASSUME IInv, NEW c \in Calls, OpenReturns(c)
    PROVE  IInv' /\ Waits
<1> DEFINE k == call[c]
<1>0. k \in Call /\ k.pc = "opening" /\ k.kind # "mutation"
  BY Typed DEF OpenReturns, IInv, Safe, Formed
<1>1. CASE ~Wanted(k)
  BY <1>1, Typed, EndsKeeps DEF OpenReturns, Rest, Asked, IInv
<1>2. CASE Wanted(k)
  <2>1. PICK id \in NewIds :
          /\ IF page.busy THEN Ends(c, Opened(page, id))
             ELSE /\ page' = [Opened(page, id) EXCEPT !.busy = TRUE]
                  /\ call' = [call EXCEPT ![c] = [k EXCEPT !.pc = "operation", !.cs = id]]
          /\ answers' = [answers EXCEPT ![id] = "plain"]
          /\ refused' = FALSE
    <3>1. PICK id \in NewIds :
            /\ IF page.busy THEN Ends(c, Opened(page, id))
               ELSE /\ page' = [Opened(page, id) EXCEPT !.busy = TRUE]
                    /\ call' = [call EXCEPT ![c].pc = "operation", ![c].cs = id]
            /\ answers' = [answers EXCEPT ![id] = "plain"]
            /\ refused' = FALSE
      BY <1>2, Zenon DEF OpenReturns
    <3>2. [call EXCEPT ![c].pc = "operation", ![c].cs = id] =
              [call EXCEPT ![c] = [k EXCEPT !.pc = "operation", !.cs = id]]
      OBVIOUS
    <3> HIDE DEF k
    <3> QED BY <3>1, <3>2
  <2> DEFINE p == Opened(page, id)
  <2>2. id \in Ids
    BY NewIdTypes
  <2>3. Rest' /\ Asked(p, refused')
    BY <2>1, <2>2 DEF Rest, Asked, IInv, ErrorCodes
  <2>4. /\ p \in Page /\ p.gen = page.gen /\ p.busy = page.busy /\ p.list = page.list
        /\ p.workspace = page.workspace
    BY <2>2, Typed, OpenedFacts
  <2>5. CASE page.busy
    BY <2>1, <2>3, <2>4, <2>5, Typed, EndsKeeps
  <2>6. CASE ~page.busy
    <3> DEFINE q == [p EXCEPT !.busy = TRUE]
               o == [k EXCEPT !.pc = "operation", !.cs = id]
    <3> HIDE DEF p
    <3>1. q \in Page /\ q.gen = p.gen /\ q.busy = TRUE /\ q.list = p.list /\ q.workspace = p.workspace
      BY <2>4 DEF Page
    <3>2. /\ o \in Call /\ o.gen = page.gen /\ o.kind # "mutation" /\ o.pc = "operation"
          /\ o.cs \in Ids
      BY <1>0, <1>2, <2>2, CallMoves DEF Wanted
    <3>3. page' = q /\ call' = [call EXCEPT ![c] = o]
      BY <2>1, <2>6 DEF p
    <3> HIDE DEF q, o
    <3>4. q.gen >= page.gen /\ o.gen <= q.gen
      BY <2>4, <3>1, <3>2, Typed
    <3>5. Proper(q, c, o)
      BY <3>1, <3>2, <3>4, <2>6, <2>4, Typed, Zenon DEF Proper, Posts, Formed
    <3>6. Asked(q, refused')
      BY <2>1 DEF Asked
    <3> QED BY <3>3, <3>5, <3>6, <2>3, Keeps
  <2> QED BY <2>5, <2>6
<1> QED BY <1>1, <1>2

LEMMA DisposableMoves ==
    ASSUME IInv, NEW c \in Calls, DisposableOpens(c)
    PROVE  IInv' /\ Waits
<1> DEFINE k == call[c]
<1>0. k \in Call /\ k.pc = "disposable" /\ k.kind # "mutation"
  BY Typed DEF DisposableOpens, IInv, Safe, Formed
<1>1. CASE k.gen # page.gen
  BY <1>1, Typed, EndsKeeps DEF DisposableOpens, Rest, Asked, IInv
<1>2. CASE k.gen = page.gen
  <2>1. PICK id \in NewIds :
          /\ page' = [page EXCEPT !.kept = @ \cup {id}]
          /\ call' = [call EXCEPT ![c] = [k EXCEPT !.pc = "operation", !.cs = id]]
          /\ answers' = [answers EXCEPT ![id] = "plain"]
          /\ refused' = refused
    BY <1>2 DEF DisposableOpens
  <2> DEFINE q == [page EXCEPT !.kept = @ \cup {id}]
             o == [k EXCEPT !.pc = "operation", !.cs = id]
  <2>2. id \in Ids
    BY NewIdTypes
  <2>3. /\ q \in Page /\ q.gen = page.gen /\ q.busy = page.busy /\ q.list = page.list
        /\ q.workspace = page.workspace /\ q.renewal = page.renewal /\ q.cs = page.cs
    BY <2>2, Typed DEF Page
  <2>4. Rest' /\ Asked(q, refused')
    BY <2>1, <2>2, <2>3 DEF Rest, Asked, IInv, ErrorCodes
  <2>5. /\ o \in Call /\ o.gen = page.gen /\ o.kind # "mutation" /\ o.pc = "operation"
        /\ o.cs \in Ids
    BY <1>0, <1>2, <2>2, CallMoves
  <2> HIDE DEF q, o
  <2>6. q.gen >= page.gen /\ o.gen <= q.gen
    BY <2>3, <2>5, Typed
  <2>7. Flying(k, page) /\ page.busy
    BY <1>0, <1>2 DEF Flying, IInv, Safe
  <2>8. Proper(q, c, o)
    BY <2>3, <2>5, <2>6, <2>7, Typed, Zenon DEF Proper, Posts, Formed
  <2> QED BY <2>1, <2>4, <2>8, Keeps DEF q, o
<1> QED BY <1>1, <1>2

LEMMA WaitMoves ==
    ASSUME IInv, NEW c \in Calls, WaitEnds(c)
    PROVE  IInv' /\ Waits
<1> DEFINE k == call[c]
<1>0. k \in Call /\ k.pc = "waiting" /\ k.kind # "mutation" /\ k.cs \in Ids
  BY Typed DEF WaitEnds, IInv, Safe, Formed
<1>1. CASE k.gen # page.gen
  BY <1>1, Typed, EndsKeeps DEF WaitEnds, Rest, Asked, IInv
<1>2. CASE k.gen = page.gen
  <2> DEFINE q == [page EXCEPT !.busy = TRUE]
             o == [k EXCEPT !.pc = "operation"]
  <2>1. page' = q /\ call' = [call EXCEPT ![c] = o] /\ ~page.busy /\ UNCHANGED <<answers, refused>>
    BY <1>2 DEF WaitEnds
  <2>2. /\ q \in Page /\ q.gen = page.gen /\ q.busy = TRUE /\ q.list = page.list
        /\ q.workspace = page.workspace /\ q.renewal = page.renewal /\ q.cs = page.cs
    BY Typed DEF Page
  <2>3. Rest' /\ Asked(q, refused')
    BY <2>1, <2>2 DEF Rest, Asked, IInv
  <2>4. /\ o \in Call /\ o.gen = page.gen /\ o.kind # "mutation" /\ o.pc = "operation"
        /\ o.cs \in Ids
    BY <1>0, <1>2, CallSteps
  <2> HIDE DEF q, o
  <2>5. q.gen >= page.gen /\ o.gen <= q.gen
    BY <2>2, <2>4, Typed
  <2>6. Proper(q, c, o)
    BY <2>1, <2>2, <2>4, <2>5, Typed, Zenon DEF Proper, Posts, Formed
  <2> QED BY <2>1, <2>3, <2>6, Keeps
<1> QED BY <1>1, <1>2

LEMMA OpenOrReadFails ==
    ASSUME IInv, NEW c \in Calls, OpenFails(c) \/ DisposableFails(c)
    PROVE  IInv' /\ Waits
<1>1. CASE OpenFails(c)
  <2> DEFINE lost == IF Wanted(call[c]) THEN "told" ELSE page.lost
             p == [page EXCEPT !.lost = lost]
  <2>1. Ends(c, p) /\ UNCHANGED <<answers, refused>>
    BY <1>1 DEF OpenFails
  <2>2. lost \in {"no", "told", "closed"}
    BY Typed DEF Page
  <2> HIDE DEF lost
  <2>3. /\ p \in Page /\ p.gen = page.gen /\ p.busy = page.busy /\ p.list = page.list
        /\ p.workspace = page.workspace /\ p.renewal = page.renewal /\ p.cs = page.cs
    BY <2>2, Typed DEF Page
  <2>4. Rest' /\ Asked(p, refused')
    BY <2>1, <2>3 DEF Rest, Asked, IInv
  <2> HIDE DEF p
  <2> QED BY <2>1, <2>3, <2>4, Typed, EndsKeeps
<1>2. CASE DisposableFails(c)
  <2> DEFINE p == Release(page, call[c])
  <2>1. Ends(c, p) /\ UNCHANGED <<answers, refused>> /\ call[c].pc = "disposable"
    BY <1>2 DEF DisposableFails
  <2>2. /\ p \in Page /\ p.gen = page.gen /\ p.list = page.list /\ p.workspace = page.workspace
        /\ p.renewal = page.renewal /\ p.cs = page.cs
        /\ p.busy = page.busy \/ Flying(call[c], page)
    BY <2>1, Typed, ReleaseFacts DEF Flying
  <2>3. Rest' /\ Asked(p, refused')
    BY <2>1, <2>2 DEF Rest, Asked, IInv
  <2> HIDE DEF p
  <2> QED BY <2>1, <2>2, <2>3, Typed, EndsKeeps
<1> QED BY <1>1, <1>2

LEMMA Returns ==
    ASSUME IInv, NEW c \in Calls, OperationReturns(c)
    PROVE  IInv' /\ Waits
<1> DEFINE k == call[c]
           p == Release(page, k)
<1>1. k \in Call /\ k.pc = "operation"
  BY Typed DEF OperationReturns
<1>2. /\ p \in Page /\ p.gen = page.gen /\ p.list = page.list /\ p.workspace = page.workspace
      /\ p.busy = page.busy \/ Flying(k, page)
      /\ p.renewal = page.renewal /\ p.cs = page.cs
  BY <1>1, Typed, ReleasedPage
<1>3. UNCHANGED <<answers, refused>>
  BY DEF OperationReturns
<1>4. Rest' /\ Asked(p, refused')
  BY <1>2, <1>3 DEF Rest, Asked, IInv
<1>5. CASE k.kind = "workspaces"
  <2> DEFINE q == [p EXCEPT !.known = TRUE]
  <2>1. Ends(c, q)
    BY <1>5 DEF OperationReturns
  <2> HIDE DEF p
  <2>2. /\ q \in Page /\ q.gen = p.gen /\ q.busy = p.busy /\ q.list = p.list
        /\ q.workspace = p.workspace /\ q.renewal = p.renewal /\ q.cs = p.cs
    BY <1>2 DEF Page
  <2>3. Asked(q, refused')
    BY <1>4, <2>2 DEF Asked
  <2> HIDE DEF q
  <2> QED BY <1>2, <1>4, <2>1, <2>2, <2>3, Typed, EndsKeeps
<1>6. CASE k.kind = "list"
  <2> DEFINE q == ShowList(p, k)
  <2>1. Ends(c, q)
    BY <1>6 DEF OperationReturns
  <2> HIDE DEF p
  <2>2. /\ q \in Page /\ q.gen = p.gen /\ q.busy = p.busy /\ q.list \in {NONE, q.workspace}
        /\ q.renewal = p.renewal /\ q.cs = p.cs
    BY <1>2, Typed DEF ShowList, Page
  <2>3. Asked(q, refused')
    BY <1>4, <2>2 DEF Asked
  <2> HIDE DEF q
  <2> QED BY <1>2, <1>4, <2>1, <2>2, <2>3, EndsKeeps
<1>7. CASE k.kind = "mutation"
  <2>1. Ends(c, p)
    BY <1>7 DEF OperationReturns
  <2> HIDE DEF p
  <2> QED BY <1>2, <1>4, <2>1, Typed, EndsKeeps
<1>8. CASE k.kind \notin {"workspaces", "list", "mutation"}
  <2> DEFINE o == [k EXCEPT !.pc = "installing"]
  <2>1. page' = p /\ call' = [call EXCEPT ![c] = o]
    BY <1>8 DEF OperationReturns
  <2>2. o \in Call /\ o.pc = "installing" /\ o.gen = k.gen
    BY <1>1, CallSteps
  <2> HIDE DEF p, o
  <2>3. p.gen >= page.gen /\ o.gen <= p.gen
    BY <1>2, <2>2, Typed DEF IInv, Safe
  <2>4. ~Flying(o, p) /\ ~Posts(o) /\ Formed(o)
    BY <2>2 DEF Flying, Posts, Formed
  <2>5. Proper(p, c, o)
    BY <1>2, <2>2, <2>3, <2>4, Typed, Zenon DEF Proper
  <2> QED BY <1>4, <2>1, <2>5, Keeps
<1> QED BY <1>5, <1>6, <1>7, <1>8

LEMMA Fails ==
    ASSUME IInv, NEW c \in Calls, InstallEnds(c) \/ OperationFails(c)
    PROVE  IInv' /\ Waits
<1>1. CASE InstallEnds(c) /\ Ends(c, page) /\ UNCHANGED refused
  BY <1>1, Typed, EndsKeeps DEF InstallEnds, Rest, Asked, IInv
<1>2. CASE InstallEnds(c) /\ Recreate(c, page) /\ refused' = FALSE
  BY <1>2, Typed, RecreateKeeps DEF InstallEnds, Rest, IInv
<1>3. CASE OperationFails(c)
  <2> DEFINE p == Release(page, call[c])
  <2>1. /\ call[c].pc = "operation" /\ answers' = answers
        /\ \/ Recreate(c, p) /\ refused' = FALSE
           \/ Ends(c, p) /\ refused' = refused
    BY <1>3 DEF OperationFails
  <2>2. /\ p \in Page /\ p.gen = page.gen /\ p.list = page.list /\ p.workspace = page.workspace
        /\ p.busy = page.busy \/ Flying(call[c], page)
        /\ p.renewal = page.renewal /\ p.cs = page.cs
    BY <2>1, Typed, ReleasedPage
  <2> HIDE DEF p
  <2>3. CASE Recreate(c, p) /\ refused' = FALSE
    BY <2>1, <2>2, <2>3, Typed, RecreateKeeps DEF Rest, IInv
  <2>4. CASE Ends(c, p) /\ refused' = refused
    BY <2>1, <2>2, <2>4, Typed, EndsKeeps DEF Rest, Asked, IInv
  <2> QED BY <2>1, <2>3, <2>4
<1> QED BY <1>1, <1>2, <1>3 DEF InstallEnds

LEMMA Refusals ==
    ASSUME IInv, NEW c \in Calls, MutationRefused(c)
    PROVE  IInv' /\ Waits
<1> DEFINE code == answers[call[c].cs]
           p == [page EXCEPT !.renewal = CommandFailed(@, code)]
           r == [p EXCEPT !.timers = IF Schedules(code) THEN @ + 1 ELSE @]
           mixed == page.mixed \/ call[c].gen # page.gen
           q == [r EXCEPT !.mixed = mixed]
           s == Release(q, call[c])
<1>1. /\ call[c].pc = "operation" /\ code # "plain" /\ Ends(c, s)
      /\ refused' = (refused \/ (code = "reauth" /\ call[c].cs = page.cs))
      /\ answers' = answers
  BY DEF MutationRefused
<1>a. mixed \in BOOLEAN
  OBVIOUS
<1>2. code \in ErrorCodes /\ page.renewal \in Renewal
  BY <1>1, Typed DEF IInv, Safe, Formed, Rest, Page
<1>3. /\ p \in Page /\ p.gen = page.gen /\ p.busy = page.busy /\ p.list = page.list
      /\ p.workspace = page.workspace /\ p.cs = page.cs
      /\ code = "reauth" \/ Blocks(page.renewal) => Blocks(p.renewal)
  BY <1>2, Typed, RenewalTypes, WithRenewal
<1> HIDE DEF code, p, mixed
<1>b. /\ r \in Page /\ r.gen = p.gen /\ r.busy = p.busy /\ r.list = p.list
      /\ r.workspace = p.workspace /\ r.cs = p.cs /\ r.renewal = p.renewal
  BY <1>3 DEF Page
<1> HIDE DEF r
<1>4. /\ q \in Page /\ q.gen = p.gen /\ q.busy = p.busy /\ q.list = p.list
      /\ q.workspace = p.workspace /\ q.cs = p.cs /\ q.renewal = p.renewal
  BY <1>a, <1>b DEF Page
<1> HIDE DEF q
<1>5. /\ s \in Page /\ s.gen = page.gen /\ s.list = q.list /\ s.workspace = q.workspace
      /\ s.busy = page.busy \/ Flying(call[c], page)
      /\ s.cs = q.cs /\ s.renewal = q.renewal
  BY <1>1, <1>3, <1>4, Typed, ReleasedPage
<1> HIDE DEF s
<1>6. Rest' /\ Asked(s, refused')
  BY <1>1, <1>3, <1>4, <1>5 DEF Rest, Asked, IInv
<1> QED BY <1>1, <1>3, <1>4, <1>5, <1>6, Typed, EndsKeeps

LEMMA Fires ==
    ASSUME IInv, NEW c \in Calls, TimerFires(c)
    PROVE  IInv' /\ Waits
<1> DEFINE p == [page EXCEPT !.timers = @ - 1]
<1>1. Recreate(c, p) /\ refused' = FALSE /\ answers' = answers
  BY DEF TimerFires
<1>2. /\ p \in Page /\ p.gen = page.gen /\ p.busy = page.busy /\ p.list = page.list
      /\ p.workspace = page.workspace
  BY Typed DEF TimerFires, Page
<1>3. Rest'
  BY <1>1 DEF Rest, IInv
<1> HIDE DEF p
<1> QED BY <1>1, <1>2, <1>3, Typed, RecreateKeeps

LEMMA RenewalEnds ==
    ASSUME IInv, NEW c \in Calls, RenewReturns(c) \/ RenewFails(c)
    PROVE  IInv' /\ Waits
<1>0. page.renewal \in Renewal /\ "plain" \in ErrorCodes /\ "closed" \in ErrorCodes
  BY Typed DEF Page, ErrorCodes
<1>1. CASE RenewReturns(c)
  <2>1. CASE Ends(c, page) /\ UNCHANGED <<answers, refused>>
    BY <2>1, Typed, EndsKeeps DEF Rest, Asked, IInv
  <2>2. CASE ~(Ends(c, page) /\ UNCHANGED <<answers, refused>>)
    <3>1. PICK r \in {RenewSucceeded(page.renewal), RenewFailed(page.renewal, "plain")} :
            /\ Ends(c, [page EXCEPT !.lease = "active", !.renewal = r])
            /\ answers' = [answers EXCEPT ![call[c].cs] = "plain"]
            /\ refused' = FALSE
      BY <1>1, <2>2 DEF RenewReturns
    <3> DEFINE q == [page EXCEPT !.lease = "active"]
               p == [q EXCEPT !.renewal = r]
    <3>2. r \in Renewal
      BY <1>0, RenewalTypes
    <3>3. /\ q \in Page /\ q.gen = page.gen /\ q.busy = page.busy /\ q.list = page.list
          /\ q.workspace = page.workspace
      BY Typed DEF Page
    <3> HIDE DEF q
    <3>4. /\ p \in Page /\ p.gen = page.gen /\ p.busy = page.busy /\ p.list = page.list
          /\ p.workspace = page.workspace
      BY <3>2, <3>3, WithRenewal
    <3>5. Rest' /\ Asked(p, refused')
      BY <1>0, <3>1 DEF Rest, Asked, IInv
    <3>6. Ends(c, p)
      BY <3>1 DEF q
    <3> HIDE DEF p
    <3> QED BY <3>4, <3>5, <3>6, Typed, EndsKeeps
  <2> QED BY <2>1, <2>2
<1>2. CASE RenewFails(c)
  <2> DEFINE code == IF answers[call[c].cs] = "closed" THEN "closed" ELSE "plain"
             p == [page EXCEPT !.renewal = RenewFailed(@, code)]
  <2>1. CASE Ends(c, page) /\ UNCHANGED <<answers, refused>>
    BY <2>1, Typed, EndsKeeps DEF Rest, Asked, IInv
  <2>2. CASE ~(Ends(c, page) /\ UNCHANGED <<answers, refused>>)
    <3>1. /\ answers' = answers
          /\ \/ Recreate(c, p) /\ refused' = FALSE
             \/ Ends(c, p) /\ refused' = refused
      BY <1>2, <2>2 DEF RenewFails
    <3>2. /\ p \in Page /\ p.gen = page.gen /\ p.busy = page.busy /\ p.list = page.list
          /\ p.workspace = page.workspace /\ p.cs = page.cs /\ Blocks(p.renewal)
      <4>1. code \in ErrorCodes
        BY <1>0
      <4> HIDE DEF code
      <4>2. RenewFailed(page.renewal, code) \in Renewal /\ Blocks(RenewFailed(page.renewal, code))
        BY <4>1, <1>0, RenewalTypes
      <4> QED BY <4>2, Typed, WithRenewal
    <3> HIDE DEF p
    <3>3. CASE Recreate(c, p) /\ refused' = FALSE
      BY <3>1, <3>2, <3>3, Typed, RecreateKeeps DEF Rest, IInv
    <3>4. CASE Ends(c, p) /\ refused' = refused
      BY <3>1, <3>2, <3>4, Typed, EndsKeeps DEF Rest, Asked, IInv
    <3> QED BY <3>1, <3>3, <3>4
  <2> QED BY <2>1, <2>2
<1> QED BY <1>1, <1>2

LEMMA Time ==
    ASSUME IInv, LeaseRunsOut \/ CloudRefuses
    PROVE  IInv' /\ Waits
<1>1. CASE LeaseRunsOut
  <2>1. PICK lease \in {"approaching", "expired"} : page' = [page EXCEPT !.lease = lease]
    BY <1>1 DEF LeaseRunsOut
  <2> DEFINE p == [page EXCEPT !.lease = lease]
  <2>2. /\ p \in Page /\ p.gen = page.gen /\ p.busy = page.busy /\ p.list = page.list
        /\ p.workspace = page.workspace /\ p.cs = page.cs /\ p.renewal = page.renewal
    BY Typed DEF Page
  <2>3. page' = p /\ UNCHANGED <<call, answers, refused>>
    BY <1>1, <2>1 DEF LeaseRunsOut
  <2>4. Rest' /\ Asked(p, refused')
    BY <2>2, <2>3 DEF Rest, Asked, IInv
  <2> HIDE DEF p
  <2> QED BY <2>2, <2>3, <2>4, Typed, KeepsCalls
<1>2. CASE CloudRefuses
  <2>1. answers' \in [Ids -> ErrorCodes]
    BY <1>2 DEF CloudRefuses, IInv, Rest, ErrorCodes
  <2> QED BY <1>2, <2>1, Typed, KeepsCalls DEF CloudRefuses, Rest, Asked, IInv
<1> QED BY <1>1, <1>2

-----------------------------------------------------------------------------
(* Theorems *)

LEMMA Initial == Init => IInv
<1> SUFFICES ASSUME Init PROVE IInv
  OBVIOUS
<1>1. page \in Page /\ page.gen = 0 /\ page.list = NONE
  BY DEF Init, Page, NoRenewal, Renewal
<1>2. Idle \in Call /\ Idle.gen = 0 /\ Idle.pc = "idle"
  BY DEF Idle, Call
<1>3. call \in [Calls -> Call] /\ \A c \in Calls : call[c] = Idle
  BY <1>2 DEF Init
<1>4. Safe(page, call)
  BY <1>1, <1>2, <1>3 DEF Safe, Flying, Formed
<1>5. Rest /\ ~refused
  BY DEF Init, Rest, ErrorCodes
<1> QED BY <1>4, <1>5 DEF IInv, Asked

LEMMA Step == IInv /\ Next => IInv' /\ Waits
<1> SUFFICES ASSUME IInv, Next PROVE IInv' /\ Waits
  OBVIOUS
<1>1. CASE Leave \/ Collapse \/ CloseSession
  BY <1>1, Browsing
<1>2. CASE LeaseRunsOut \/ CloudRefuses
  BY <1>2, Time
<1>3. ASSUME NEW c \in Calls,
             \/ LoadWorkspaces(c) \/ RefreshSessions(c) \/ RecoverSession(c) \/ Mutate(c) \/ Renew(c)
             \/ \E w \in Workspaces : SelectWorkspace(c, w)
             \/ \E s \in Sessions : SelectSession(c, s)
             \/ OpenReturns(c) \/ OpenFails(c) \/ DisposableOpens(c) \/ DisposableFails(c)
             \/ WaitEnds(c) \/ OperationReturns(c) \/ InstallEnds(c) \/ OperationFails(c)
             \/ MutationRefused(c) \/ TimerFires(c) \/ RenewReturns(c) \/ RenewFails(c)
      PROVE  IInv' /\ Waits
  BY <1>3, Reads, Selects, Recovery, Mutates, Renewals, Opens, OpenOrReadFails, DisposableMoves,
     WaitMoves, Returns, Fails, Refusals, Fires, RenewalEnds
<1> QED BY <1>1, <1>2, <1>3 DEF Next

LEMMA Stutter == IInv /\ UNCHANGED vars => IInv' /\ Waits
BY DEF IInv, Safe, Rest, Asked, Waits, vars

LEMMA Inductive == Spec => []IInv
<1>1. IInv /\ [Next]_vars => IInv'
  BY Step, Stutter
<1> QED BY Initial, <1>1, PTL DEF Spec

\* Whatever happens, the state keeps its types.
THEOREM TypeCorrect == Spec => []TypeOK
<1>1. IInv => TypeOK
  BY DEF IInv, Safe, Rest, TypeOK
<1> QED BY Inductive, <1>1, PTL

\* For any number of functions under way, in whatever order they come back: at
\* most one operation of the present generation flies, and
\* controlBusy is set while it does (app.js 744-787).
THEOREM OneOperationHolds == Spec => []OneOperation
<1>1. IInv => OneOperation
  <2> SUFFICES ASSUME IInv PROVE OneOperation
    OBVIOUS
  <2>1. \A c, d \in InFlight : c = d
    BY DEF IInv, Safe, InFlight, Flying
  <2>2. InFlight # {} => page.busy
    BY DEF IInv, Safe, InFlight, Flying
  <2>3. Cardinality(InFlight) <= 1
    <3>1. CASE InFlight = {}
      BY <3>1, FS_EmptySet
    <3>2. CASE InFlight # {}
      <4>1. PICK c \in InFlight : TRUE
        BY <3>2
      <4>2. InFlight = {c}
        BY <2>1, <4>1
      <4> QED BY <4>2, FS_Singleton
    <3> QED BY <3>1, <3>2
  <2> QED BY <2>2, <2>3 DEF OneOperation
<1> QED BY Inductive, <1>1, PTL

\* For any workspaces: a list that arrives late is never shown under another
\* workspace than the one it was asked for (app.js 836).
THEOREM ListOfWorkspaceHolds == Spec => []ListOfWorkspace
<1>1. IInv => ListOfWorkspace
  BY DEF IInv, Safe, ListOfWorkspace
<1> QED BY Inductive, <1>1, PTL

\* In whatever order refusals, renewals and selections come: once Cloud has asked for
\* a renewal no mutation of the control session is sent before one has succeeded
\* (README.md 76-79).
THEOREM RetryAfterRenewalHolds == Spec => RetryAfterRenewal
<1>1. IInv /\ [Next]_vars =>
        [\A c \in Calls : call'[c] # call[c] /\ call'[c].pc = "operation"
                          /\ call'[c].kind = "mutation" => ~refused]_vars
  BY Step, Stutter DEF Waits, Posts
<1> QED BY Inductive, <1>1, PTL DEF Spec, RetryAfterRenewal

-----------------------------------------------------------------------------
(* The selected session: control sessions are not orphaned but where a second *)
(* opening takes the place of the first, a selection is served, renewals and  *)
(* recreations are what the page waits for, and what a completion of an       *)
(* earlier generation may change.                                             *)
(*                                                                            *)
(* Every step either ends the generation, which leaves the page without a     *)
(* control session and every other call behind (Passes), or goes on in it     *)
(* with the same selection (Stays); the few others are those that select,     *)
(* open and renew.                                                            *)

(* The inductive invariant, beside IInv. *)

\* The page: a control session is kept and belongs to a selection, the selection to
\* a workspace, and every stream to the control session or to one whose place
\* another has taken.
Whole(p) ==
    /\ p.selected # NONE => p.workspace # NONE
    /\ p.cs # NONE => p.selected # NONE /\ p.cs \in p.kept /\ p.cs \notin p.replaced
    /\ p.replaced \subseteq p.kept
    /\ p.streams = ({p.cs} \ {NONE}) \cup p.replaced

Scheduled(p) == p.renewal.phase = "recreating" => p.cs = NONE \/ p.timers > 0

Live(k, p) == k.gen = p.gen
OpensFor(k, p, s) == k.pc = "opening" /\ Live(k, p) /\ k.session = s
Lists(k, i) == k.pc = "operation" /\ k.kind \in {"list", "workspaces"} /\ k.cs = i

\* A call and the page: what is awaited is not there yet unless it is opened twice,
\* a mutation or a renewal of this generation has a control session, the page's as
\* long as no other took its place, a read has one of its own, and the workspace of
\* a recreation of this generation is expanded, or none is.
Fitting(k, p) ==
    /\ k.pc = "opening" => k.session # NONE /\ k.kind = "select"
    /\ k.kind = "mutation" => k.pc = "operation"
    /\ k.pc = "disposable" => k.kind \in {"list", "workspaces"} /\ k.cs = NONE
    /\ k.kind = "renewal" <=> k.pc = "renewing"
    /\ k.pc = "waiting" => k.kind = "recovery"
    /\ k.from # NONE => k.kind # "mutation"
    /\ OpensFor(k, p, p.selected) => p.cs = NONE \/ p.twice
    /\ Live(k, p) /\ k.kind \in {"mutation", "renewal"} => p.cs # NONE
    /\ Live(k, p) /\ k.kind = "renewal" => k.cs = p.cs \/ p.mixed
    /\ Live(k, p) /\ k.from # NONE => p.workspace \in {NONE, k.from}
    /\ Lists(k, k.cs) => k.cs # p.cs /\ k.cs \notin p.replaced

\* Two calls of a generation: a session is opened twice only if it was selected
\* twice, and a renewal is beside another, or beside a mutation, only after another
\* control session has acted on the renewal of the page.
Apart(k, l, p) ==
    /\ p.twice \/ ~(OpensFor(k, p, l.session) /\ OpensFor(l, p, k.session))
    /\ p.mixed \/ ~(/\ Live(k, p) /\ Live(l, p)
                    /\ k.kind = "renewal" /\ l.kind \in {"renewal", "mutation"})

RenewsNow(k, p) == \E c \in Calls : Live(k[c], p) /\ k[c].kind = "renewal" /\ k[c].cs = p.cs
OpensNow(k, p) == \E c \in Calls : OpensFor(k[c], p, p.selected)

Orderly(p, k) ==
    /\ Whole(p) /\ Scheduled(p)
    /\ \A c \in Calls : Fitting(k[c], p)
    /\ \A c, d \in Calls : c # d => Apart(k[c], k[d], p)
    /\ p.renewal.phase = "renewing" => RenewsNow(k, p)
    /\ RenewsNow(k, p) => p.mixed \/ p.renewal.phase = "renewing"
    /\ p.selected # NONE => p.cs # NONE \/ p.lost # "no" \/ OpensNow(k, p)
    /\ \A i \in p.kept \ p.replaced : i = p.cs \/ \E c \in Calls : Lists(k[c], i)

OInv == Orderly(page, call)

\* The step of Fenced.
Fence ==
    \A c \in Calls :
       ~Free(c) /\ call'[c] # call[c] /\ call[c].gen # page.gen
           => /\ page'.busy = page.busy /\ page'.selected = page.selected
              /\ \/ /\ page'.cs = page.cs /\ page'.streams = page.streams
                    /\ page'.renewal = page.renewal /\ page'.timers = page.timers
                 \/ TakenForPresent(c)
                 \/ Sweeps(c)

-----------------------------------------------------------------------------
(* Steps *)

\* At most one call moves; new are the calls behind.
OneMoves(new) == \A d, e \in Calls : new[d] # call[d] /\ new[e] # call[e] => d = e

\* Nothing of this generation mutates or renews.
Still == \A d \in Calls : Live(call[d], page) => call[d].kind \notin {"mutation", "renewal"}

LEMMA Quiet == NoRenewal \in Renewal /\ NoRenewal.phase = "idle"
BY DEF NoRenewal, Renewal

LEMMA Facts ==
    ASSUME IInv, OInv
    PROVE  /\ page \in Page /\ Whole(page) /\ Scheduled(page) /\ call \in [Calls -> Call]
           /\ \A c \in Calls : call[c] \in Call /\ Fitting(call[c], page)
           /\ \A c \in Calls : Free(c) => /\ ~OpensFor(call[c], page, page.selected)
                                          /\ call[c].kind \notin {"mutation", "renewal"}
                                          /\ \A i \in page.kept : ~Lists(call[c], i)
           /\ NONE \notin Ids /\ NONE \notin page.kept /\ page.kept \subseteq Ids
<1>1. page \in Page /\ NONE \notin Ids /\ page.kept \subseteq Ids
  BY ControlAssumption DEF IInv, Safe, Page
<1> QED BY <1>1 DEF IInv, Safe, OInv, Orderly, Free, OpensFor, Lists, Fitting

LEMMA IdleFacts ==
    /\ Idle \in Call /\ Idle.pc = "idle" /\ Idle.kind = "none" /\ Idle.from = NONE
    /\ \A p : Fitting(Idle, p)
<1>1. Idle \in Call /\ Idle.pc = "idle" /\ Idle.kind = "none" /\ Idle.from = NONE
  BY DEF Call, Idle
<1> QED BY <1>1 DEF Fitting, OpensFor, Lists

\* A page whose generation has just begun.
Passed(p) ==
    /\ p.gen = page.gen + 1 /\ p.cs = NONE /\ p.renewal = NoRenewal
    /\ p.streams = page.replaced /\ p.replaced = page.replaced
    /\ p.replaced \subseteq p.kept
    /\ \A i \in p.kept : i \in page.kept /\ i # page.cs
    /\ p.selected # NONE => p.workspace # NONE

\* The generation ends.  What has moved neither mutates nor renews.
LEMMA Passes ==
    ASSUME IInv, OInv, NEW p \in Page, NEW new \in [Calls -> Call], Passed(p),
           p.selected # NONE => p.lost # "no" \/ OpensNow(new, p),
           OneMoves(new),
           \A d \in Calls : new[d] # call[d] =>
               Fitting(new[d], p) /\ new[d].kind \notin {"mutation", "renewal"},
           \A i \in p.kept : \A d \in Calls : Lists(call[d], i) => new[d] = call[d]
    PROVE  Orderly(p, new)
<1>0. page.gen \in Nat /\ \A d \in Calls : call[d].gen \in Nat /\ call[d].gen <= page.gen
  BY DEF IInv, Safe, Page, Call
<1>1. \A d \in Calls : new[d] = call[d] => ~Live(new[d], p)
  BY <1>0 DEF Live, Passed
<1>2. Whole(p) /\ Scheduled(p)
  BY Quiet DEF Whole, Scheduled, Passed
<1>3. ASSUME NEW d \in Calls PROVE Fitting(new[d], p)
  <2>1. CASE new[d] = call[d]
    <3>1. Fitting(call[d], page)
      BY Facts
    <3>2. Lists(call[d], call[d].cs) => call[d].cs \in Ids
      BY DEF IInv, Safe, Formed, Lists
    <3>3. Lists(call[d], call[d].cs) => call[d].cs # p.cs /\ call[d].cs \notin p.replaced
      BY <3>1, <3>2, ControlAssumption DEF Fitting, Passed
    <3> QED BY <2>1, <3>1, <3>3, <1>1 DEF Fitting, OpensFor
  <2>2. CASE new[d] # call[d]
    BY <2>2
  <2> QED BY <2>1, <2>2
<1>4. \A d, e \in Calls : d # e => Apart(new[d], new[e], p)
  BY <1>1 DEF OneMoves, Apart, OpensFor
<1>5. ~RenewsNow(new, p)
  BY <1>1 DEF RenewsNow
<1>6. \A i \in p.kept \ p.replaced : i = p.cs \/ \E d \in Calls : Lists(new[d], i)
  <2> SUFFICES ASSUME NEW i \in p.kept \ p.replaced PROVE \E d \in Calls : Lists(new[d], i)
    OBVIOUS
  <2>1. i \in page.kept \ page.replaced /\ i # page.cs
    BY DEF Passed
  <2>2. PICK d \in Calls : Lists(call[d], i)
    BY <2>1 DEF OInv, Orderly
  <2> QED BY <2>2
<1> QED BY <1>2, <1>3, <1>4, <1>5, <1>6, Quiet DEF Orderly, Passed

\* A page of the same generation, control session and selection.
Same(p) ==
    /\ p.gen = page.gen /\ p.cs = page.cs /\ p.selected = page.selected
    /\ p.workspace = page.workspace /\ p.streams = page.streams
    /\ p.replaced = page.replaced /\ p.twice = page.twice
    /\ page.lost # "no" => p.lost # "no"
    /\ page.mixed => p.mixed

\* The generation and the selection go on.
LEMMA Stays ==
    ASSUME IInv, OInv, NEW p \in Page, NEW new \in [Calls -> Call],
           Same(p), Whole(p), Scheduled(p), OneMoves(new),
           \A d \in Calls : new[d] # call[d] =>
               /\ Fitting(new[d], p) /\ new[d].pc # "opening"
               /\ new[d].kind \in {"mutation", "renewal"} => p.mixed \/ Still
               /\ OpensFor(call[d], page, page.selected) => p.lost # "no" \/ p.cs # NONE,
           p.renewal.phase = "renewing" => RenewsNow(new, p),
           RenewsNow(new, p) => p.mixed \/ p.renewal.phase = "renewing",
           \A i \in p.kept : \/ i \in page.kept /\ \A d \in Calls : Lists(call[d], i) => Lists(new[d], i)
                             \/ \E d \in Calls : Lists(new[d], i)
    PROVE  Orderly(p, new)
<1>1. \A d \in Calls : Fitting(call[d], page)
  BY DEF OInv, Orderly
<1>2. ASSUME NEW d \in Calls PROVE Fitting(new[d], p)
  <2>1. CASE new[d] = call[d]
    <3>1. Fitting(call[d], page)
      BY <1>1
    <3> QED BY <2>1, <3>1 DEF Fitting, OpensFor, Live, Same
  <2> QED BY <2>1
<1>3. ASSUME NEW d \in Calls, NEW e \in Calls, d # e PROVE Apart(new[d], new[e], p)
  <2>1. CASE new[d] = call[d] /\ new[e] = call[e]
    <3>1. Apart(call[d], call[e], page)
      BY <1>3 DEF OInv, Orderly
    <3> QED BY <2>1, <3>1 DEF Apart, OpensFor, Live, Same
  <2>2. CASE new[d] # call[d]
    <3>1. new[e] = call[e] /\ new[d].pc # "opening"
      BY <2>2, <1>3 DEF OneMoves
    <3>2. p.mixed \/ ~(Live(new[e], p) /\ new[d].kind = "renewal" /\ new[e].kind \in {"renewal", "mutation"})
      BY <2>2, <3>1 DEF Still, Live, Same
    <3> QED BY <3>1, <3>2 DEF Apart, OpensFor
  <2>3. CASE new[e] # call[e]
    <3>1. new[d] = call[d] /\ new[e].pc # "opening"
      BY <2>3, <1>3 DEF OneMoves
    <3>2. p.mixed \/ ~(Live(new[d], p) /\ new[d].kind = "renewal" /\ new[e].kind \in {"renewal", "mutation"})
      BY <2>3, <3>1 DEF Still, Live, Same
    <3> QED BY <3>1, <3>2 DEF Apart, OpensFor
  <2> QED BY <2>1, <2>2, <2>3
<1>4. p.selected # NONE => p.cs # NONE \/ p.lost # "no" \/ OpensNow(new, p)
  <2> SUFFICES ASSUME p.selected # NONE, p.cs = NONE, p.lost = "no" PROVE OpensNow(new, p)
    OBVIOUS
  <2>1. OpensNow(call, page)
    BY DEF OInv, Orderly, Same
  <2> QED BY <2>1 DEF OpensNow, OpensFor, Live, Same
<1>5. \A i \in p.kept \ p.replaced : i = p.cs \/ \E d \in Calls : Lists(new[d], i)
  BY DEF OInv, Orderly, Same
<1> QED BY <1>2, <1>3, <1>4, <1>5 DEF Orderly

LEMMA CloseMore ==
    ASSUME NEW p \in Page
    PROVE  /\ Close(p) \in Page
           /\ Close(p).renewal = NoRenewal /\ Close(p).kept = p.kept \ {p.cs}
           /\ Close(p).streams = p.streams \ {p.cs} /\ Close(p).lost = p.lost
           /\ Close(p).replaced = p.replaced /\ Close(p).timers = p.timers
BY CloseFacts DEF Close, Page

\* Closing what Ends, Recreate and the user close.
LEMMA Closes ==
    ASSUME IInv, OInv, NEW p \in Page, Whole(p), p.gen = page.gen, p.cs = page.cs,
           p.replaced = page.replaced, \A i \in p.kept : i \in page.kept
    PROVE  LET q == Close(p)
           IN  /\ q \in Page /\ Passed(q) /\ q.selected = p.selected /\ q.workspace = p.workspace
               /\ q.busy = p.busy /\ q.timers = p.timers /\ q.lost = p.lost
               /\ q.kept \subseteq p.kept /\ q.streams = p.streams \ {p.cs}
<1> DEFINE q == Close(p)
<1>1. /\ q \in Page /\ q.gen = p.gen + 1 /\ q.busy = p.busy
      /\ q.workspace = p.workspace /\ q.selected = p.selected /\ q.cs = NONE
      /\ q.renewal = NoRenewal /\ q.kept = p.kept \ {p.cs}
      /\ q.streams = p.streams \ {p.cs} /\ q.lost = p.lost
      /\ q.replaced = p.replaced /\ q.timers = p.timers
  BY CloseFacts, CloseMore
<1> HIDE DEF q
<1>2. NONE \notin p.kept
  BY Facts
<1>3. p.streams \ {p.cs} = p.replaced /\ p.replaced \subseteq p.kept \ {p.cs}
  <2>1. CASE p.cs = NONE
    BY <1>2, <2>1 DEF Whole
  <2>2. CASE p.cs # NONE
    BY <2>2 DEF Whole
  <2> QED BY <2>1, <2>2
<1>4. Passed(q)
  BY <1>1, <1>3 DEF Passed, Whole
<1> QED BY <1>1, <1>4 DEF q

\* What Ends and Recreate need of the page they are given.
Goes(c, p) ==
    /\ Same(p)
    /\ \A i \in p.kept : i \in page.kept /\ ~Lists(call[c], i)
    /\ \A i \in page.kept : i \in p.kept \/ Lists(call[c], i)

LEMMA GoesWhole ==
    ASSUME IInv, OInv, NEW c \in Calls, NEW p \in Page, Goes(c, p)
    PROVE  Whole(p)
<1>1. Whole(page) /\ Fitting(call[c], page)
  BY Facts
<1>2. page.cs \in page.kept => page.cs \in p.kept
  BY <1>1 DEF Goes, Fitting, Lists
<1>3. page.replaced \subseteq p.kept
  BY <1>1 DEF Goes, Fitting, Lists, Whole
<1> QED BY <1>1, <1>2, <1>3 DEF Goes, Same, Whole

\* A mutation that is refused.
Denied(c) == call[c].pc = "operation" /\ call[c].kind = "mutation" /\ answers[call[c].cs] # "plain"

LEMMA EndsOrderly ==
    ASSUME IInv, OInv, NEW c \in Calls, NEW p \in Page, Ends(c, p), Goes(c, p), Scheduled(p),
           OpensFor(call[c], page, page.selected) => p.lost # "no" \/ p.cs # NONE,
           p.renewal.phase = "renewing" =>
               /\ page.renewal.phase = "renewing"
               /\ ~(Live(call[c], page) /\ call[c].kind = "renewal" /\ call[c].cs = page.cs),
           \/ p.mixed
           \/ page.renewal.phase = "renewing" => p.renewal.phase = "renewing"
           \/ Live(call[c], page) /\ call[c].kind = "renewal"
           \/ ~RenewsNow(call, page),
           ~Live(call[c], page) =>
               /\ p.busy = page.busy
               /\ Denied(c) \/ (p.renewal = page.renewal /\ p.timers = page.timers)
    PROVE  OInv' /\ Fence
<1> DEFINE new == [call EXCEPT ![c] = Idle]
           q == Tail(p, call[c])
<1>0. /\ Idle \in Call /\ Idle.pc = "idle" /\ Idle.kind = "none" /\ Idle.from = NONE
      /\ call \in [Calls -> Call] /\ page \in Page /\ \A r : Fitting(Idle, r)
  BY Facts, IdleFacts
<1>1. /\ new \in [Calls -> Call] /\ new[c] = Idle
      /\ \A d \in Calls : d # c => new[d] = call[d]
  BY <1>0
<1>2. page' = q /\ call' = new
  BY DEF Ends
<1>3. Fitting(call[c], page) /\ Whole(page) /\ Whole(p)
  BY Facts, GoesWhole
<1> HIDE DEF new
<1>4. OneMoves(new)
  BY <1>1 DEF OneMoves
<1>5. CASE q = p
  <2>1. p.renewal.phase = "renewing" => RenewsNow(new, p)
    <3> SUFFICES ASSUME p.renewal.phase = "renewing" PROVE RenewsNow(new, p)
      OBVIOUS
    <3>1. PICK d \in Calls : Live(call[d], page) /\ call[d].kind = "renewal" /\ call[d].cs = page.cs
      BY DEF OInv, Orderly, RenewsNow
    <3>2. d # c
      BY <3>1
    <3> QED BY <3>1, <3>2, <1>1 DEF RenewsNow, Live, Goes, Same
  <2>2. RenewsNow(new, p) => p.mixed \/ p.renewal.phase = "renewing"
    <3> SUFFICES ASSUME RenewsNow(new, p), ~p.mixed PROVE p.renewal.phase = "renewing"
      OBVIOUS
    <3>1. PICK d \in Calls : Live(new[d], p) /\ new[d].kind = "renewal" /\ new[d].cs = p.cs
      BY DEF RenewsNow
    <3>2. d # c /\ Live(call[d], page) /\ call[d].kind = "renewal" /\ call[d].cs = page.cs
      BY <3>1, <1>0, <1>1 DEF Live, Goes, Same
    <3>3. RenewsNow(call, page) /\ ~page.mixed
      BY <3>2 DEF RenewsNow, Goes, Same
    <3>4. page.renewal.phase = "renewing"
      BY <3>3 DEF OInv, Orderly
    <3>5. ~(Live(call[c], page) /\ call[c].kind = "renewal")
      BY <3>2, <3>3 DEF OInv, Orderly, Apart
    <3> QED BY <3>3, <3>4, <3>5
  <2>3. Orderly(p, new)
    <3>1. \A i \in p.kept : i \in page.kept /\ \A d \in Calls : Lists(call[d], i) => Lists(new[d], i)
      BY <1>1 DEF Goes
    <3>2. \A d \in Calls : new[d] # call[d] =>
               /\ Fitting(new[d], p) /\ new[d].pc # "opening"
               /\ new[d].kind \in {"mutation", "renewal"} => p.mixed \/ Still
               /\ OpensFor(call[d], page, page.selected) => p.lost # "no" \/ p.cs # NONE
      BY <1>0, <1>1
    <3>3. Same(p)
      BY DEF Goes
    <3> HIDE DEF q
    <3> QED BY <1>1, <1>3, <1>4, <2>1, <2>2, <3>1, <3>2, <3>3, Stays
  <2>4. Fence
    <3>1. page' = p /\ p.cs = page.cs /\ p.streams = page.streams /\ p.selected = page.selected
      BY <1>2, <1>5 DEF Goes, Same
    <3>2. Denied(c) => TakenForPresent(c)
      BY <3>1 DEF Denied, TakenForPresent
    <3>3. \A d \in Calls : call'[d] # call[d] => d = c
      BY <1>1, <1>2
    <3> HIDE DEF q
    <3> QED BY <3>1, <3>2, <3>3 DEF Fence, Live
  <2> QED BY <1>2, <1>5, <2>3, <2>4 DEF OInv
<1>6. CASE q # p
  <2> DEFINE r == Close(p)
  <2>1. q = [r EXCEPT !.lost = "closed"] /\ call[c].from # NONE /\ p.workspace # call[c].from
    BY <1>6 DEF Tail
  <2>2. /\ r \in Page /\ Passed(r) /\ r.selected = p.selected
        /\ r.busy = p.busy /\ r.timers = p.timers
        /\ r.kept \subseteq p.kept /\ r.streams = p.streams \ {p.cs}
    BY <1>3, Closes DEF Goes, Same
  <2> HIDE DEF r, q
  <2>3. /\ q \in Page /\ q.lost = "closed" /\ q.gen = r.gen /\ q.cs = r.cs
        /\ q.renewal = r.renewal /\ q.streams = r.streams /\ q.replaced = r.replaced
        /\ q.kept = r.kept /\ q.selected = r.selected /\ q.workspace = r.workspace
        /\ q.busy = r.busy /\ q.timers = r.timers
    BY <2>1, <2>2 DEF Page
  <2>4. Passed(q)
    BY <2>2, <2>3 DEF Passed
  <2>5. Orderly(q, new)
    <3>1. \A i \in q.kept : \A d \in Calls : Lists(call[d], i) => new[d] = call[d]
      BY <2>2, <2>3, <1>1 DEF Goes
    <3>2. q.lost # "no"
      BY <2>3
    <3>3. \A d \in Calls : new[d] # call[d] =>
               Fitting(new[d], q) /\ new[d].kind \notin {"mutation", "renewal"}
      BY <1>0, <1>1
    <3> QED BY <1>1, <1>4, <2>3, <2>4, <3>1, <3>2, <3>3, Passes
  <2>6. Fence
    <3>1. ~Denied(c)
      BY <1>3, <2>1 DEF Fitting, Denied
    <3>2. /\ page' = q /\ q.cs = NONE /\ q.streams = page.streams \ {page.cs}
          /\ q.selected = page.selected /\ q.busy = p.busy /\ q.timers = p.timers
          /\ p.workspace = page.workspace
      BY <1>2, <2>2, <2>3 DEF Goes, Same, Passed
    <3>3. p.timers = page.timers => Sweeps(c)
      BY <2>1, <3>2 DEF Sweeps
    <3>4. \A d \in Calls : call'[d] # call[d] => d = c
      BY <1>1, <1>2
    <3> QED BY <3>1, <3>2, <3>3, <3>4 DEF Fence, Live
  <2> QED BY <1>2, <2>5, <2>6 DEF OInv
<1> QED BY <1>5, <1>6

\* A page without a control session neither mutates nor renews.
LEMMA Alone ==
    ASSUME IInv, OInv, page.cs = NONE
    PROVE  Still /\ page.renewal.phase # "renewing" /\ ~RenewsNow(call, page)
<1>1. Still
  BY Facts DEF Fitting, Still
<1>2. ~RenewsNow(call, page)
  BY <1>1 DEF Still, RenewsNow
<1> QED BY <1>1, <1>2 DEF OInv, Orderly

LEMMA RecreateOrderly ==
    ASSUME IInv, OInv, NEW c \in Calls, NEW p \in Page, Recreate(c, p), Goes(c, p),
           Free(c) \/ Live(call[c], page),
           ~OpensFor(call[c], page, page.selected),
           p.renewal = page.renewal \/ page.cs # NONE
    PROVE  OInv' /\ Fence
<1>0. /\ Idle \in Call /\ Idle.pc = "idle" /\ Idle.kind = "none" /\ Idle.from = NONE
      /\ call \in [Calls -> Call] /\ page \in Page /\ \A r : Fitting(Idle, r)
  BY Facts, IdleFacts
<1>1. Fitting(call[c], page) /\ Whole(page) /\ Whole(p)
  BY Facts, GoesWhole
<1>a. Fence
  <2>1. \A d \in Calls : call'[d] # call[d] => d = c
    BY <1>0 DEF Recreate
  <2> QED BY <2>1 DEF Fence, Live
<1>2. CASE p.workspace = NONE \/ p.selected = NONE
  <2> DEFINE new == [call EXCEPT ![c] = Idle]
  <2>1. /\ new \in [Calls -> Call] /\ new[c] = Idle
        /\ \A d \in Calls : d # c => new[d] = call[d]
    BY <1>0
  <2>2. page' = p /\ call' = new
    BY <1>2 DEF Recreate
  <2> HIDE DEF new
  <2>3. page.cs = NONE /\ p.renewal = page.renewal
    BY <1>1, <1>2 DEF Goes, Same, Whole
  <2>4. Still /\ page.renewal.phase # "renewing"
    BY <2>3, Alone
  <2>5. ~RenewsNow(new, p)
    BY <2>1, <2>4, <1>0 DEF RenewsNow, Live, Goes, Same, Still
  <2>6. Scheduled(p)
    BY <2>3 DEF Scheduled, Goes, Same
  <2>7. \A i \in p.kept : i \in page.kept /\ \A d \in Calls : Lists(call[d], i) => Lists(new[d], i)
    BY <2>1 DEF Goes
  <2>8. OneMoves(new)
    BY <2>1 DEF OneMoves
  <2>9. \A d \in Calls : new[d] # call[d] =>
               /\ Fitting(new[d], p) /\ new[d].pc # "opening"
               /\ new[d].kind \in {"mutation", "renewal"} => p.mixed \/ Still
               /\ OpensFor(call[d], page, page.selected) => p.lost # "no" \/ p.cs # NONE
    BY <1>0, <2>1
  <2>10. Same(p)
    BY DEF Goes
  <2>11. Orderly(p, new)
    BY <1>1, <2>1, <2>3, <2>4, <2>5, <2>6, <2>7, <2>8, <2>9, <2>10, Stays
  <2> QED BY <2>2, <2>11, <1>a DEF OInv
<1>3. CASE ~(p.workspace = NONE \/ p.selected = NONE)
  <2> DEFINE r == Close(p)
             q == Select(r, p.selected)
             k == Opening(r, p.selected, p.workspace)
             new == [call EXCEPT ![c] = k]
  <2>1. page' = q /\ call' = new
    BY <1>3 DEF Recreate
  <2>2. /\ r \in Page /\ Passed(r) /\ r.workspace = p.workspace /\ r.kept \subseteq p.kept
    BY <1>1, Closes DEF Goes, Same
  <2> HIDE DEF r
  <2>3. /\ q \in Page /\ q.gen = r.gen /\ q.cs = r.cs /\ q.renewal = r.renewal
        /\ q.streams = r.streams /\ q.replaced = r.replaced /\ q.workspace = r.workspace
        /\ q.selected = p.selected /\ q.kept = r.kept
    BY <2>2 DEF Select, Page
  <2>4. /\ k \in Call /\ k.gen = r.gen /\ k.pc = "opening" /\ k.kind = "select"
        /\ k.session = p.selected /\ k.from = p.workspace
    BY <2>2 DEF Opening, Call, Page
  <2> HIDE DEF q, k
  <2>5. /\ new \in [Calls -> Call] /\ new[c] = k
        /\ \A d \in Calls : d # c => new[d] = call[d]
    BY <1>0, <2>4
  <2> HIDE DEF new
  <2>6. OneMoves(new)
    BY <2>5 DEF OneMoves
  <2>7. OpensNow(new, q)
    BY <2>3, <2>4, <2>5 DEF OpensNow, OpensFor, Live
  <2>8. Passed(q)
    BY <1>3, <2>2, <2>3 DEF Passed
  <2>9. Fitting(k, q)
    BY <1>3, <2>2, <2>3, <2>4, <2>8 DEF Fitting, OpensFor, Lists, Passed
  <2>10. \A i \in q.kept : \A d \in Calls : Lists(call[d], i) => new[d] = call[d]
    BY <2>2, <2>3, <2>5 DEF Goes
  <2>11. \A d \in Calls : new[d] # call[d] =>
               Fitting(new[d], q) /\ new[d].kind \notin {"mutation", "renewal"}
    BY <2>4, <2>5, <2>9
  <2>12. Orderly(q, new)
    BY <2>3, <2>5, <2>6, <2>7, <2>8, <2>10, <2>11, Passes
  <2> QED BY <2>1, <2>12, <1>a DEF OInv
<1> QED BY <1>2, <1>3

LEMMA EndsPage ==
    ASSUME IInv, OInv, NEW c \in Calls, Ends(c, page), call[c].pc # "operation",
           Live(call[c], page) /\ call[c].kind = "renewal" => call[c].cs # page.cs,
           ~OpensFor(call[c], page, page.selected)
    PROVE  OInv' /\ Fence
<1>1. page \in Page /\ Scheduled(page)
  BY Facts
<1>2. Goes(c, page)
  BY DEF Goes, Same, Lists
<1> QED BY <1>1, <1>2, EndsOrderly

\* A call moves, which neither opens nor renews, and the renewal of the page does
\* not begin or end.
LEMMA StaysOne ==
    ASSUME IInv, OInv, NEW c \in Calls, NEW p \in Page, NEW k \in Call,
           page' = p, call' = [call EXCEPT ![c] = k],
           Same(p), Whole(p), Scheduled(p),
           Fitting(k, p), k.pc # "opening", k.kind # "renewal",
           k.kind = "mutation" => p.mixed \/ Still,
           ~OpensFor(call[c], page, page.selected),
           call[c].kind # "renewal",
           p.renewal.phase = "renewing" <=> page.renewal.phase = "renewing",
           \A i \in p.kept : Lists(k, i) \/ (i \in page.kept /\ ~Lists(call[c], i)),
           \/ Free(c) \/ Live(call[c], page)
           \/ p.busy = page.busy /\ p.renewal = page.renewal /\ p.timers = page.timers
    PROVE  OInv' /\ Fence
<1> DEFINE new == [call EXCEPT ![c] = k]
<1>1. /\ new \in [Calls -> Call] /\ new[c] = k
      /\ \A d \in Calls : d # c => new[d] = call[d]
  BY Facts
<1> HIDE DEF new
<1>2. OneMoves(new)
  BY <1>1 DEF OneMoves
<1>3. RenewsNow(new, p) <=> RenewsNow(call, page)
  BY <1>1 DEF RenewsNow, Live, Same
<1>4. /\ p.renewal.phase = "renewing" => RenewsNow(new, p)
      /\ RenewsNow(new, p) => p.mixed \/ p.renewal.phase = "renewing"
  BY <1>3 DEF OInv, Orderly, Same
<1>5. \A i \in p.kept : \/ i \in page.kept /\ \A d \in Calls : Lists(call[d], i) => Lists(new[d], i)
                        \/ \E d \in Calls : Lists(new[d], i)
  BY <1>1
<1>6. \A d \in Calls : new[d] # call[d] =>
               /\ Fitting(new[d], p) /\ new[d].pc # "opening"
               /\ new[d].kind \in {"mutation", "renewal"} => p.mixed \/ Still
               /\ OpensFor(call[d], page, page.selected) => p.lost # "no" \/ p.cs # NONE
  BY <1>1
<1>7. Orderly(p, new)
  BY <1>1, <1>2, <1>4, <1>5, <1>6, Stays
<1>8. Fence
  <2>1. \A d \in Calls : call'[d] # call[d] => d = c
    BY <1>1 DEF new
  <2> QED BY <2>1 DEF Fence, Live, Same
<1> QED BY <1>7, <1>8 DEF OInv, new

-----------------------------------------------------------------------------
(* The user *)

\* The generation ends, and no call moves.
LEMMA PassesAlone ==
    ASSUME IInv, OInv, NEW p \in Page, page' = p, UNCHANGED call, Passed(p), p.selected = NONE
    PROVE  OInv' /\ Fence
<1>1. OneMoves(call)
  BY DEF OneMoves
<1> QED BY <1>1, Facts, Passes DEF OInv, Fence

LEMMA BrowsingOrderly ==
    ASSUME IInv, OInv, Leave \/ Collapse \/ CloseSession
    PROVE  OInv' /\ Fence
<1> DEFINE q == Close(page)
<1>1. q \in Page /\ Passed(q) /\ q.workspace = page.workspace
  BY Facts, Closes
<1>2. PICK p : /\ page' = p /\ UNCHANGED call
               /\ \/ p = [q EXCEPT !.busy = FALSE, !.known = FALSE, !.workspace = NONE,
                                   !.list = NONE, !.selected = NONE]
                  \/ p = Unselect([q EXCEPT !.workspace = NONE])
                  \/ p = [q EXCEPT !.selected = NONE]
  BY DEF Leave, Reset, Collapse, CloseSession
<1> HIDE DEF q
<1>3. /\ p \in Page /\ p.gen = q.gen /\ p.cs = q.cs /\ p.renewal = q.renewal
      /\ p.streams = q.streams /\ p.kept = q.kept /\ p.replaced = q.replaced
      /\ p.selected = NONE
  BY <1>1, <1>2 DEF Unselect, Page
<1>4. Passed(p)
  BY <1>1, <1>3 DEF Passed
<1> QED BY <1>2, <1>3, <1>4, PassesAlone

LEMMA ReadingFits ==
    ASSUME NEW p \in Page, NEW kind \in {"list", "workspaces"}
    PROVE  LET k == Reading(p, kind)
           IN  /\ k \in Call /\ k.pc = "disposable" /\ k.kind = kind /\ k.from = NONE
               /\ \A q : Fitting(k, q)
<1> DEFINE k == Reading(p, kind)
<1>1. k \in Call /\ k.pc = "disposable" /\ k.kind = kind /\ k.from = NONE /\ k.cs = NONE
  BY DEF Reading, Call, Page
<1> HIDE DEF k
<1>2. \A q : Fitting(k, q)
  BY <1>1 DEF Fitting, OpensFor, Lists
<1> QED BY <1>1, <1>2 DEF k

\* The generation ends, and a read begins.
LEMMA PassesReading ==
    ASSUME IInv, OInv, NEW c \in Calls, Free(c), NEW p \in Page, NEW kind \in {"list", "workspaces"},
           page' = [p EXCEPT !.busy = TRUE], call' = [call EXCEPT ![c] = Reading(p, kind)],
           Passed(p), p.selected = NONE
    PROVE  OInv' /\ Fence
<1> DEFINE q == [p EXCEPT !.busy = TRUE]
           k == Reading(p, kind)
           new == [call EXCEPT ![c] = k]
<1>1. /\ q \in Page /\ q.gen = p.gen /\ q.cs = p.cs /\ q.renewal = p.renewal
      /\ q.streams = p.streams /\ q.selected = p.selected /\ q.workspace = p.workspace
      /\ q.kept = p.kept /\ q.replaced = p.replaced
  BY DEF Page
<1>2. /\ k \in Call /\ k.kind = kind /\ Fitting(k, q)
  BY ReadingFits
<1>3. page' = q /\ call' = new
  OBVIOUS
<1> HIDE DEF q, k
<1>4. /\ new \in [Calls -> Call] /\ new[c] = k
      /\ \A d \in Calls : d # c => new[d] = call[d]
  BY <1>2, Facts
<1> HIDE DEF new
<1>5. OneMoves(new)
  BY <1>4 DEF OneMoves
<1>6. Passed(q)
  BY <1>1 DEF Passed
<1>7. \A i \in q.kept : \A d \in Calls : Lists(call[d], i) => new[d] = call[d]
  BY <1>6, <1>4, Facts DEF Passed
<1>8. \A d \in Calls : new[d] # call[d] =>
               Fitting(new[d], q) /\ new[d].kind \notin {"mutation", "renewal"}
  BY <1>2, <1>4
<1>9. Orderly(q, new)
  BY <1>1, <1>4, <1>5, <1>6, <1>7, <1>8, Passes
<1>10. Fence
  BY <1>3, <1>4 DEF Fence
<1> QED BY <1>3, <1>9, <1>10 DEF OInv

LEMMA LoadOrderly ==
    ASSUME IInv, OInv, NEW c \in Calls, LoadWorkspaces(c)
    PROVE  OInv' /\ Fence
<1>1. CASE page.cs # NONE
  <2> DEFINE q == Close(page)
             p == Unselect([q EXCEPT !.workspace = NONE])
  <2>1. q \in Page /\ Passed(q)
    BY Facts, Closes
  <2>2. page' = [p EXCEPT !.busy = TRUE] /\ call' = [call EXCEPT ![c] = Reading(p, "workspaces")]
    BY <1>1 DEF LoadWorkspaces
  <2> HIDE DEF q
  <2>3. /\ p \in Page /\ p.gen = q.gen /\ p.cs = q.cs /\ p.renewal = q.renewal
        /\ p.streams = q.streams /\ p.kept = q.kept /\ p.replaced = q.replaced
        /\ p.selected = NONE
    BY <2>1 DEF Unselect, Page
  <2> HIDE DEF p
  <2>4. Passed(p)
    BY <2>1, <2>3 DEF Passed
  <2>5. Free(c)
    BY DEF LoadWorkspaces
  <2> QED BY <2>2, <2>3, <2>4, <2>5, PassesReading
<1>2. CASE page.cs = NONE
  <2> DEFINE r == [page EXCEPT !.workspace = NONE]
             p == Unselect(r)
             q == [p EXCEPT !.busy = TRUE]
             k == Reading(p, "workspaces")
             new == [call EXCEPT ![c] = k]
  <2>1. page' = q /\ call' = new
    BY <1>2 DEF LoadWorkspaces
  <2>2. /\ r \in Page /\ r.gen = page.gen /\ r.cs = page.cs /\ r.renewal = page.renewal
        /\ r.streams = page.streams /\ r.kept = page.kept /\ r.workspace = NONE
        /\ r.replaced = page.replaced /\ r.twice = page.twice /\ r.mixed = page.mixed
    BY Facts DEF Page
  <2> HIDE DEF r
  <2>3. /\ p \in Page /\ p.gen = page.gen /\ p.cs = page.cs /\ p.renewal = page.renewal
        /\ p.streams = page.streams /\ p.kept = page.kept /\ p.workspace = NONE
        /\ p.replaced = page.replaced /\ p.twice = page.twice /\ p.mixed = page.mixed
        /\ p.selected = NONE
    BY <2>2 DEF Unselect, Page
  <2>4. k \in Call /\ k.kind = "workspaces" /\ k.pc = "disposable" /\ \A s : Fitting(k, s)
    BY <2>3, ReadingFits
  <2> HIDE DEF p, k
  <2>5. /\ q \in Page /\ q.gen = page.gen /\ q.cs = page.cs /\ q.renewal = page.renewal
        /\ q.streams = page.streams /\ q.kept = page.kept /\ q.workspace = NONE
        /\ q.replaced = page.replaced /\ q.twice = page.twice /\ q.mixed = page.mixed
        /\ q.selected = NONE
    BY <2>3 DEF Page
  <2> HIDE DEF q
  <2>6. /\ new \in [Calls -> Call] /\ new[c] = k
        /\ \A d \in Calls : d # c => new[d] = call[d]
    BY <2>4, Facts
  <2> HIDE DEF new
  <2>7. Whole(q) /\ Scheduled(q)
    BY <2>5, <1>2, Facts DEF Whole, Scheduled
  <2>8. ASSUME NEW d \in Calls PROVE Fitting(new[d], q)
    <3>1. CASE d = c
      BY <2>4, <2>6, <3>1
    <3>2. CASE d # c
      <4>1. Fitting(call[d], page) /\ new[d] = call[d]
        BY <2>6, <3>2, Facts
      <4> QED BY <4>1, <2>5, <1>2 DEF Fitting, OpensFor, Live
    <3> QED BY <3>1, <3>2
  <2>9. \A d, e \in Calls : d # e => Apart(new[d], new[e], q)
    BY <2>4, <2>5, <2>6 DEF OInv, Orderly, Apart, OpensFor, Live
  <2>10. q.renewal.phase # "renewing" /\ ~RenewsNow(new, q)
    <3>1. Still /\ page.renewal.phase # "renewing"
      BY <1>2, Alone
    <3> QED BY <3>1, <2>4, <2>5, <2>6 DEF RenewsNow, Live, Still
  <2>11. \A i \in q.kept \ q.replaced : i = q.cs \/ \E d \in Calls : Lists(new[d], i)
    <3> SUFFICES ASSUME NEW i \in q.kept \ q.replaced, i # q.cs PROVE \E d \in Calls : Lists(new[d], i)
      OBVIOUS
    <3>1. PICK d \in Calls : Lists(call[d], i)
      BY <2>5 DEF OInv, Orderly
    <3>2. d # c
      BY <3>1 DEF LoadWorkspaces, Free, Lists
    <3> QED BY <3>1, <3>2, <2>6
  <2>12. Orderly(q, new)
    BY <2>5, <2>7, <2>8, <2>9, <2>10, <2>11 DEF Orderly
  <2>13. Fence
    BY <2>1, <2>6 DEF Fence, LoadWorkspaces
  <2> QED BY <2>1, <2>12, <2>13 DEF OInv
<1> QED BY <1>1, <1>2

LEMMA ReadsOrderly ==
    ASSUME IInv, OInv, NEW c \in Calls,
           RefreshSessions(c) \/ \E w \in Workspaces : SelectWorkspace(c, w)
    PROVE  OInv' /\ Fence
<1>1. CASE RefreshSessions(c)
  <2> DEFINE p == [page EXCEPT !.busy = TRUE]
             k == Reading(page, "list")
  <2>1. page' = p /\ call' = [call EXCEPT ![c] = k] /\ Free(c)
    BY <1>1 DEF RefreshSessions
  <2>2. /\ p \in Page /\ p.gen = page.gen /\ p.cs = page.cs /\ p.selected = page.selected
        /\ p.workspace = page.workspace /\ p.streams = page.streams /\ p.kept = page.kept
        /\ p.renewal = page.renewal /\ p.timers = page.timers /\ p.lost = page.lost
        /\ p.replaced = page.replaced /\ p.twice = page.twice /\ p.mixed = page.mixed
    BY Facts DEF Page
  <2>3. k \in Call /\ k.pc = "disposable" /\ k.kind = "list" /\ Fitting(k, p)
    BY Facts, ReadingFits
  <2> HIDE DEF p, k
  <2>4. Same(p) /\ Whole(p) /\ Scheduled(p)
    BY <2>2, Facts DEF Same, Whole, Scheduled
  <2> QED BY <2>1, <2>2, <2>3, <2>4, Facts, StaysOne
<1>2. CASE \E w \in Workspaces : SelectWorkspace(c, w)
  <2>1. PICK w \in Workspaces : SelectWorkspace(c, w)
    BY <1>2
  <2> DEFINE q == Close(page)
             p == Unselect([q EXCEPT !.workspace = w])
  <2>2. q \in Page /\ Passed(q)
    BY Facts, Closes
  <2>3. /\ page' = [p EXCEPT !.busy = TRUE] /\ call' = [call EXCEPT ![c] = Reading(p, "list")]
        /\ Free(c)
    BY <2>1 DEF SelectWorkspace
  <2> HIDE DEF q
  <2>4. /\ p \in Page /\ p.gen = q.gen /\ p.cs = q.cs /\ p.renewal = q.renewal
        /\ p.streams = q.streams /\ p.kept = q.kept /\ p.replaced = q.replaced
        /\ p.selected = NONE
    BY <2>2 DEF Unselect, Page
  <2> HIDE DEF p
  <2>5. Passed(p)
    BY <2>2, <2>4 DEF Passed
  <2> QED BY <2>3, <2>4, <2>5, PassesReading
<1> QED BY <1>1, <1>2

LEMMA SelectOrderly ==
    ASSUME IInv, OInv, NEW c \in Calls, NEW s \in Sessions, SelectSession(c, s)
    PROVE  OInv' /\ Fence
<1> DEFINE r == IF page.cs # NONE THEN Close(page) ELSE page
           twice == r.twice \/ Being(r, s)
           t == [r EXCEPT !.twice = twice]
           q == Select(t, s)
           k == Opening(t, s, NONE)
           new == [call EXCEPT ![c] = k]
<1>1. page' = q /\ call' = new /\ Free(c) /\ page.list # NONE
  BY DEF SelectSession
<1>2. /\ r \in Page /\ r.workspace = page.workspace /\ r.workspace # NONE /\ r.cs = NONE
      /\ page.cs # NONE => Passed(r)
      /\ page.cs = NONE => r = page
  <2>1. page.workspace # NONE
    BY <1>1 DEF IInv, Safe
  <2> QED BY <2>1, Facts, Closes DEF Passed
<1>a. twice \in BOOLEAN
  OBVIOUS
<1>b. (r.twice => twice) /\ (Being(r, s) => twice)
  OBVIOUS
<1> HIDE DEF r, twice
<1>3. /\ t \in Page /\ t.gen = r.gen /\ t.workspace = r.workspace /\ t.cs = r.cs
      /\ t.renewal = r.renewal /\ t.streams = r.streams /\ t.kept = r.kept
      /\ t.replaced = r.replaced /\ t.timers = r.timers /\ t.mixed = r.mixed
      /\ t.twice = twice
  BY <1>2, <1>a DEF Page
<1> HIDE DEF t
<1>4. /\ q \in Page /\ q.gen = r.gen /\ q.workspace = r.workspace /\ q.cs = NONE
      /\ q.renewal = r.renewal /\ q.streams = r.streams /\ q.kept = r.kept
      /\ q.replaced = r.replaced /\ q.timers = r.timers /\ q.mixed = r.mixed
      /\ q.twice = twice /\ q.selected = s
  BY <1>2, <1>3 DEF Select, Page
<1>5. /\ k \in Call /\ k.gen = r.gen /\ k.pc = "opening" /\ k.kind = "select" /\ k.session = s
      /\ k.from = NONE
  BY <1>3 DEF Opening, Call, Page
<1> HIDE DEF q, k
<1>6. /\ new \in [Calls -> Call] /\ new[c] = k
      /\ \A d \in Calls : d # c => new[d] = call[d]
  BY <1>5, Facts
<1> HIDE DEF new
<1>7. Fence
  BY <1>1, <1>6 DEF Fence
<1>8. OpensNow(new, q) /\ s # NONE
  BY <1>4, <1>5, <1>6, ControlAssumption DEF OpensNow, OpensFor, Live
<1>9. Fitting(k, q)
  BY <1>4, <1>5, <1>8 DEF Fitting, OpensFor, Lists
<1>10. CASE page.cs # NONE
  <2>1. OneMoves(new)
    BY <1>6 DEF OneMoves
  <2>2. Passed(q)
    BY <1>2, <1>4, <1>10 DEF Passed
  <2>3. \A i \in q.kept : \A d \in Calls : Lists(call[d], i) => new[d] = call[d]
    BY <2>2, <1>1, <1>6, Facts DEF Passed
  <2>4. \A d \in Calls : new[d] # call[d] =>
             Fitting(new[d], q) /\ new[d].kind \notin {"mutation", "renewal"}
    BY <1>5, <1>6, <1>9
  <2>5. Orderly(q, new)
    BY <1>4, <1>6, <1>8, <2>1, <2>2, <2>3, <2>4, Passes
  <2> QED BY <1>1, <1>7, <2>5 DEF OInv
<1>11. CASE page.cs = NONE
  <2>0. r = page /\ (page.twice => q.twice) /\ (Being(page, s) => q.twice)
    BY <1>2, <1>4, <1>11, <1>b
  <2>1. Whole(q) /\ Scheduled(q)
    BY <2>0, <1>2, <1>4, <1>11, Facts DEF Whole, Scheduled
  <2>2. ASSUME NEW d \in Calls PROVE Fitting(new[d], q)
    <3>1. CASE d = c
      BY <1>6, <1>9, <3>1
    <3>2. CASE d # c
      <4>1. Fitting(call[d], page) /\ new[d] = call[d]
        BY <1>6, <3>2, Facts
      <4> QED BY <4>1, <2>0, <1>4, <1>11 DEF Fitting, OpensFor, Live
    <3> QED BY <3>1, <3>2
  <2>3. ASSUME NEW d \in Calls, NEW e \in Calls, d # e PROVE Apart(new[d], new[e], q)
    <3>1. \A a \in Calls : OpensFor(call[a], page, s) => q.twice
      BY <2>0 DEF Being, OpensFor, Live
    <3>2. CASE d # c /\ e # c
      <4>1. Apart(call[d], call[e], page) /\ new[d] = call[d] /\ new[e] = call[e]
        BY <1>6, <2>3, <3>2 DEF OInv, Orderly
      <4> QED BY <4>1, <2>0, <1>4 DEF Apart, OpensFor, Live
    <3>3. CASE d = c
      <4>1. new[e] = call[e] /\ new[d] = k
        BY <1>6, <2>3, <3>3
      <4> QED BY <4>1, <3>1, <2>0, <1>4, <1>5 DEF Apart, OpensFor, Live
    <3>4. CASE e = c
      <4>1. new[d] = call[d] /\ new[e] = k
        BY <1>6, <2>3, <3>4
      <4> QED BY <4>1, <3>1, <2>0, <1>4, <1>5 DEF Apart, OpensFor, Live
    <3> QED BY <3>2, <3>3, <3>4
  <2>4. q.renewal.phase # "renewing" /\ ~RenewsNow(new, q)
    <3>1. Still /\ page.renewal.phase # "renewing"
      BY <1>11, Alone
    <3> QED BY <2>0, <3>1, <1>4, <1>5, <1>6 DEF RenewsNow, Live, Still
  <2>5. \A i \in q.kept \ q.replaced : i = q.cs \/ \E d \in Calls : Lists(new[d], i)
    <3> SUFFICES ASSUME NEW i \in q.kept \ q.replaced, i # q.cs PROVE \E d \in Calls : Lists(new[d], i)
      OBVIOUS
    <3>1. i \in page.kept \ page.replaced /\ i # page.cs
      BY <2>0, <1>4, <1>11
    <3>2. PICK d \in Calls : Lists(call[d], i)
      BY <3>1 DEF OInv, Orderly
    <3>3. d # c
      BY <3>1, <3>2, <1>1, Facts
    <3> QED BY <3>2, <3>3, <1>6
  <2>6. Orderly(q, new)
    BY <2>1, <2>2, <2>3, <2>4, <2>5, <1>8 DEF Orderly
  <2> QED BY <1>1, <1>7, <2>6 DEF OInv
<1> QED BY <1>10, <1>11

LEMMA OperationsOrderly ==
    ASSUME IInv, OInv, NEW c \in Calls, RecoverSession(c) \/ Mutate(c)
    PROVE  OInv' /\ Fence
<1>1. CASE RecoverSession(c)
  <2> DEFINE k == Waiting(page)
  <2>1. page' = page /\ call' = [call EXCEPT ![c] = k] /\ Free(c)
    BY <1>1 DEF RecoverSession
  <2>2. k \in Call /\ k.pc = "waiting" /\ k.kind = "recovery" /\ k.from = NONE
    BY Facts DEF Waiting, Operation, Call, Page
  <2> HIDE DEF k
  <2>3. Fitting(k, page) /\ Same(page)
    BY <2>2 DEF Fitting, OpensFor, Lists, Same
  <2> QED BY <2>1, <2>2, <2>3, Facts, StaysOne
<1>2. CASE Mutate(c)
  <2> DEFINE r == [page EXCEPT !.busy = TRUE]
             p == [r EXCEPT !.renewal = NoRenewal]
             k == Operation(page, "mutation")
  <2>1. /\ page' = p /\ call' = [call EXCEPT ![c] = k] /\ Free(c) /\ page.cs # NONE
        /\ page.renewal.phase # "renewing" /\ ~page.busy
    BY <1>2 DEF Mutate, Blocks
  <2>2. /\ r \in Page /\ r.gen = page.gen /\ r.cs = page.cs /\ r.selected = page.selected
        /\ r.workspace = page.workspace /\ r.streams = page.streams /\ r.kept = page.kept
        /\ r.lost = page.lost /\ r.replaced = page.replaced /\ r.twice = page.twice
        /\ r.mixed = page.mixed
    BY Facts DEF Page
  <2> HIDE DEF r
  <2>3. /\ p \in Page /\ p.gen = page.gen /\ p.cs = page.cs /\ p.selected = page.selected
        /\ p.workspace = page.workspace /\ p.streams = page.streams /\ p.kept = page.kept
        /\ p.lost = page.lost /\ p.replaced = page.replaced /\ p.twice = page.twice
        /\ p.mixed = page.mixed /\ p.renewal = NoRenewal
    BY <2>2, Quiet DEF Page
  <2>4. /\ k \in Call /\ k.pc = "operation" /\ k.kind = "mutation" /\ k.from = NONE
    BY Facts DEF Operation, Call, Page
  <2> HIDE DEF p, k
  <2>5. Same(p) /\ Whole(p) /\ Scheduled(p)
    BY <2>3, Facts, Quiet DEF Same, Whole, Scheduled
  <2>6. Fitting(k, p)
    BY <2>1, <2>3, <2>4 DEF Fitting, OpensFor, Lists
  <2>7. p.mixed \/ Still
    <3> SUFFICES ASSUME ~page.mixed PROVE Still
      BY <2>3
    <3>1. ~RenewsNow(call, page)
      BY <2>1 DEF OInv, Orderly
    <3>2. \A d \in Calls : Live(call[d], page) => call[d].kind # "renewal"
      BY <3>1, Facts DEF RenewsNow, Fitting
    <3>3. \A d \in Calls : Live(call[d], page) => call[d].kind # "mutation"
      BY <2>1, Facts DEF IInv, Safe, Flying, Live, Fitting
    <3> QED BY <3>2, <3>3 DEF Still
  <2>8. p.renewal.phase # "renewing"
    BY <2>3, Quiet
  <2> QED BY <2>1, <2>3, <2>4, <2>5, <2>6, <2>7, <2>8, Facts, StaysOne
<1> QED BY <1>1, <1>2

-----------------------------------------------------------------------------
(* Renewal *)

\* The renewal of the page changes.
LEMMA RenewalOnly ==
    ASSUME NEW p \in Page, NEW r \in Renewal
    PROVE  LET q == [p EXCEPT !.renewal = r]
           IN  /\ q \in Page /\ q.renewal = r
               /\ q.gen = p.gen /\ q.busy = p.busy /\ q.cs = p.cs /\ q.selected = p.selected
               /\ q.workspace = p.workspace /\ q.streams = p.streams /\ q.kept = p.kept
               /\ q.lost = p.lost /\ q.timers = p.timers /\ q.replaced = p.replaced
               /\ q.twice = p.twice /\ q.mixed = p.mixed
BY DEF Page

LEMMA RenewalPhases ==
    ASSUME NEW r \in Renewal
    PROVE  /\ Renews(r) => RenewRequested(r).phase = "renewing"
           /\ RenewSucceeded(r).phase \in {"idle", "retry_required"}
           /\ RenewFailed(r, "plain").phase = "renew_failed"
           /\ RenewFailed(r, "closed").phase = "recreating"
           /\ CommandFailed(r, "closed").phase = "recreating"
           /\ CommandFailed(r, "reauth").phase = "renew_required"
BY DEF Renewal, RenewRequested, RenewSucceeded, RenewFailed, CommandFailed, NoRenewal

LEMMA RenewOrderly ==
    ASSUME IInv, OInv, NEW c \in Calls, Renew(c)
    PROVE  OInv' /\ Fence
<1>0. /\ page.renewal \in Renewal /\ Free(c) /\ page.cs # NONE /\ ~page.busy
      /\ page.renewal.phase # "renewing" /\ page.renewal.phase # "recreating"
  BY Facts DEF Page, Renew, RenewOffered
<1>1. CASE page.lease = "expired"
  <2> DEFINE p == [page EXCEPT !.renewal = RenewFailed(@, "closed")]
  <2>1. Recreate(c, p)
    BY <1>1 DEF Renew
  <2>2. RenewFailed(page.renewal, "closed") \in Renewal
    BY <1>0, RenewalTypes DEF ErrorCodes
  <2>3. /\ p \in Page /\ p.gen = page.gen /\ p.cs = page.cs /\ p.selected = page.selected
        /\ p.workspace = page.workspace /\ p.streams = page.streams /\ p.kept = page.kept
        /\ p.lost = page.lost /\ p.replaced = page.replaced /\ p.twice = page.twice
        /\ p.mixed = page.mixed
    BY <2>2, Facts, RenewalOnly
  <2> HIDE DEF p
  <2>4. Goes(c, p)
    BY <1>0, <2>3, Facts DEF Goes, Same
  <2> QED BY <1>0, <2>1, <2>3, <2>4, Facts, RecreateOrderly
<1>2. CASE page.lease # "expired" /\ Renews(page.renewal)
  <2> DEFINE p == [page EXCEPT !.renewal = RenewRequested(@)]
             k == Renewing(page)
             new == [call EXCEPT ![c] = k]
  <2>1. page' = p /\ call' = new
    BY <1>2 DEF Renew
  <2>2. RenewRequested(page.renewal) \in Renewal
    BY <1>0, RenewalTypes
  <2>3. /\ p \in Page /\ p.gen = page.gen /\ p.cs = page.cs /\ p.selected = page.selected
        /\ p.workspace = page.workspace /\ p.streams = page.streams /\ p.kept = page.kept
        /\ p.lost = page.lost /\ p.replaced = page.replaced /\ p.twice = page.twice
        /\ p.mixed = page.mixed /\ p.renewal.phase = "renewing"
    BY <1>0, <1>2, <2>2, Facts, RenewalOnly, RenewalPhases
  <2>4. /\ k \in Call /\ k.pc = "renewing" /\ k.kind = "renewal" /\ k.from = NONE
        /\ k.cs = page.cs /\ k.gen = page.gen
    BY Facts DEF Renewing, Operation, Call, Page
  <2> HIDE DEF p, k
  <2>5. /\ new \in [Calls -> Call] /\ new[c] = k
        /\ \A d \in Calls : d # c => new[d] = call[d]
    BY <2>4, Facts
  <2> HIDE DEF new
  <2>6. Same(p) /\ Whole(p) /\ Scheduled(p) /\ Fitting(k, p)
    BY <1>0, <2>3, <2>4, Facts DEF Same, Whole, Scheduled, Fitting, OpensFor, Lists
  <2>7. OneMoves(new)
    BY <2>5 DEF OneMoves
  <2>8. RenewsNow(new, p)
    BY <2>3, <2>4, <2>5 DEF RenewsNow, Live
  <2>9. p.mixed \/ Still
    <3> SUFFICES ASSUME ~page.mixed PROVE Still
      BY <2>3
    <3>1. ~RenewsNow(call, page)
      BY <1>0 DEF OInv, Orderly
    <3>2. \A d \in Calls : Live(call[d], page) => call[d].kind # "renewal"
      BY <3>1, Facts DEF RenewsNow, Fitting
    <3>3. \A d \in Calls : Live(call[d], page) => call[d].kind # "mutation"
      BY <1>0, Facts DEF IInv, Safe, Flying, Live, Fitting
    <3> QED BY <3>2, <3>3 DEF Still
  <2>10. \A i \in p.kept : i \in page.kept /\ \A d \in Calls : Lists(call[d], i) => Lists(new[d], i)
    BY <1>0, <2>3, <2>5, Facts
  <2>11. \A d \in Calls : new[d] # call[d] =>
               /\ Fitting(new[d], p) /\ new[d].pc # "opening"
               /\ new[d].kind \in {"mutation", "renewal"} => p.mixed \/ Still
               /\ OpensFor(call[d], page, page.selected) => p.lost # "no" \/ p.cs # NONE
    BY <1>0, <2>3, <2>4, <2>5, <2>6, <2>9
  <2>12. Orderly(p, new)
    BY <2>3, <2>5, <2>6, <2>7, <2>8, <2>10, <2>11, Stays
  <2>13. Fence
    BY <1>0, <2>1, <2>5 DEF Fence
  <2> QED BY <2>1, <2>12, <2>13 DEF OInv
<1>3. CASE page.lease # "expired" /\ ~Renews(page.renewal)
  <2>1. page' = [page EXCEPT !.renewal = page.renewal] /\ call' = call
    BY <1>3 DEF Renew, RenewRequested
  <2>2. page' = page
    BY <2>1, Facts DEF Page
  <2> QED BY <2>1, <2>2 DEF OInv, Fence
<1> QED BY <1>1, <1>2, <1>3

-----------------------------------------------------------------------------
(* Requests return *)

LEMMA OpenedMore ==
    ASSUME NEW p \in Page, NEW id \in Ids, p.twice \/ p.cs = NONE
    PROVE  LET q == Opened(p, id)
           IN  /\ q \in Page /\ q.gen = p.gen /\ q.busy = p.busy /\ q.workspace = p.workspace
               /\ q.selected = p.selected /\ q.cs = id /\ q.renewal = NoRenewal
               /\ q.streams = p.streams \cup {id} /\ q.kept = p.kept \cup {id}
               /\ q.lost = p.lost /\ q.twice = p.twice
               /\ q.replaced = p.replaced \cup ({p.cs} \ {NONE})
               /\ p.cs # NONE => q.mixed
<1> DEFINE replaced == IF p.twice THEN p.replaced \cup ({p.cs} \ {NONE}) ELSE p.replaced
           mixed == p.cs # NONE
           q == [p EXCEPT !.cs = id, !.lease = "active", !.renewal = NoRenewal,
                          !.kept = p.kept \cup {id}, !.streams = p.streams \cup {id},
                          !.replaced = replaced, !.mixed = mixed]
<1>1. Opened(p, id) \in Page
  BY OpenedFacts
<1>2. Opened(p, id) = q
  BY DEF Opened
<1>3. replaced = p.replaced \cup ({p.cs} \ {NONE})
  OBVIOUS
<1>4. p.cs # NONE => mixed
  OBVIOUS
<1>5. mixed \in BOOLEAN
  OBVIOUS
<1> HIDE DEF replaced, mixed, NoRenewal
<1>6. /\ q.gen = p.gen /\ q.busy = p.busy /\ q.workspace = p.workspace
      /\ q.selected = p.selected /\ q.cs = id /\ q.renewal = NoRenewal
      /\ q.streams = p.streams \cup {id} /\ q.kept = p.kept \cup {id}
      /\ q.lost = p.lost /\ q.twice = p.twice /\ q.replaced = replaced /\ q.mixed = mixed
  BY <1>5 DEF Page
<1> HIDE DEF q
<1> QED BY <1>1, <1>2, <1>3, <1>4, <1>6

LEMMA OpensOrderly ==
    ASSUME IInv, OInv, NEW c \in Calls, OpenReturns(c)
    PROVE  OInv' /\ Fence
<1> DEFINE k == call[c]
<1>0. k \in Call /\ k.pc = "opening" /\ Fitting(k, page) /\ k.kind = "select"
  BY Facts DEF OpenReturns, Fitting
<1>1. CASE ~Wanted(k)
  <2>1. Ends(c, page) /\ ~OpensFor(k, page, page.selected)
    BY <1>1 DEF OpenReturns, Wanted, OpensFor, Live
  <2> QED BY <1>0, <2>1, EndsPage
<1>2. CASE Wanted(k)
  <2>1. PICK id \in NewIds :
          IF page.busy THEN Ends(c, Opened(page, id))
          ELSE /\ page' = [Opened(page, id) EXCEPT !.busy = TRUE]
               /\ call' = [call EXCEPT ![c] = [k EXCEPT !.pc = "operation", !.cs = id]]
    <3>1. PICK id \in NewIds :
            IF page.busy THEN Ends(c, Opened(page, id))
            ELSE /\ page' = [Opened(page, id) EXCEPT !.busy = TRUE]
                 /\ call' = [call EXCEPT ![c].pc = "operation", ![c].cs = id]
      BY <1>2, Zenon DEF OpenReturns
    <3>2. [call EXCEPT ![c].pc = "operation", ![c].cs = id] =
              [call EXCEPT ![c] = [k EXCEPT !.pc = "operation", !.cs = id]]
      OBVIOUS
    <3> HIDE DEF k
    <3> QED BY <3>1, <3>2
  <2>2. id \in Ids /\ id # NONE /\ id \notin page.kept /\ \A d \in Calls : call[d].cs # id
    BY ControlAssumption DEF NewIds, Unused
  <2>3. /\ page.selected = k.session /\ k.session # NONE /\ page.workspace # NONE
        /\ Live(k, page) /\ OpensFor(k, page, page.selected)
        /\ page.twice \/ page.cs = NONE
    BY <1>0, <1>2, Facts DEF Wanted, Fitting, OpensFor, Live, Whole
  <2> DEFINE p == Opened(page, id)
             o == [k EXCEPT !.pc = "operation", !.cs = id]
  <2>4. /\ p \in Page /\ p.gen = page.gen /\ p.workspace = page.workspace
        /\ p.selected = page.selected /\ p.cs = id /\ p.renewal = NoRenewal
        /\ p.streams = page.streams \cup {id} /\ p.kept = page.kept \cup {id}
        /\ p.lost = page.lost /\ p.twice = page.twice
        /\ p.replaced = page.replaced \cup ({page.cs} \ {NONE})
        /\ page.cs # NONE => p.mixed
    BY <2>2, <2>3, Facts, OpenedMore
  <2> HIDE DEF p
  <2>5. PICK q, l :
          /\ page' = q /\ call' = [call EXCEPT ![c] = l]
          /\ q \in {p, [p EXCEPT !.busy = TRUE]} /\ l \in {Idle, o}
    <3>1. CASE page.busy
      <4>1. Ends(c, p)
        BY <2>1, <3>1 DEF p
      <4>2. Tail(p, k) = p
        BY <1>0, <2>3, <2>4 DEF Tail, Fitting
      <4> QED BY <4>1, <4>2 DEF Ends
    <3>2. CASE ~page.busy
      BY <2>1, <3>2 DEF p
    <3> QED BY <3>1, <3>2
  <2>6. /\ q \in Page /\ q.gen = page.gen /\ q.workspace = page.workspace
        /\ q.selected = page.selected /\ q.cs = id /\ q.renewal = NoRenewal
        /\ q.streams = page.streams \cup {id} /\ q.kept = page.kept \cup {id}
        /\ q.lost = page.lost /\ q.twice = page.twice
        /\ q.replaced = page.replaced \cup ({page.cs} \ {NONE})
        /\ q.mixed = p.mixed
    BY <2>4, <2>5 DEF Page
  <2>a. page.cs # NONE => q.mixed
    BY <2>4, <2>6
  <2>7. /\ l \in Call /\ l.pc \in {"idle", "operation"}
        /\ l.kind \notin {"renewal", "mutation", "list", "workspaces"}
        /\ l.from \in {NONE, k.from}
    <3>2. o \in Call /\ o.pc = "operation" /\ o.kind = k.kind
      BY <1>0, <2>2, CallMoves
    <3>3. o.from = k.from
      BY <1>0 DEF Call
    <3> HIDE DEF o
    <3> QED BY <1>0, <2>5, <3>2, <3>3, IdleFacts
  <2> DEFINE new == [call EXCEPT ![c] = l]
  <2>8. /\ new \in [Calls -> Call] /\ new[c] = l /\ call' = new
        /\ \A d \in Calls : d # c => new[d] = call[d]
    BY <2>5, <2>7, Facts
  <2> HIDE DEF new
  <2>9. Whole(q) /\ Scheduled(q)
    BY <2>2, <2>3, <2>6, Facts, Quiet DEF Whole, Scheduled
  <2>10. ASSUME NEW d \in Calls PROVE Fitting(new[d], q)
    <3>1. CASE d = c
      BY <1>0, <2>3, <2>6, <2>7, <2>8, <3>1 DEF Fitting, OpensFor, Lists
    <3>2. CASE d # c
      <4>1. Fitting(call[d], page) /\ new[d] = call[d] /\ call[d].cs # id
        BY <2>2, <2>8, <3>2, Facts
      <4>2. OpensFor(call[d], page, page.selected) => page.twice
        BY <2>3, <3>2 DEF OInv, Orderly, Apart, OpensFor
      <4> QED BY <2>a, <2>6, <2>2, <4>1, <4>2 DEF Fitting, OpensFor, Live, Lists
    <3> QED BY <3>1, <3>2
  <2>11. ASSUME NEW d \in Calls, NEW e \in Calls, d # e PROVE Apart(new[d], new[e], q)
    <3>1. q.mixed \/ \A a \in Calls : Live(new[a], q) => new[a].kind # "renewal"
      <4>1. CASE page.cs = NONE
        <5>1. Still
          BY <4>1, Alone
        <5> QED BY <5>1, <2>6, <2>7, <2>8 DEF Still, Live
      <4> QED BY <4>1, <2>a
    <3>2. q.twice \/ ~(OpensFor(new[d], q, new[e].session) /\ OpensFor(new[e], q, new[d].session))
      BY <2>6, <2>7, <2>8, <2>11 DEF OInv, Orderly, Apart, OpensFor, Live
    <3> QED BY <3>1, <3>2 DEF Apart
  <2>12. q.renewal.phase # "renewing" /\ (RenewsNow(new, q) => q.mixed)
    <3>1. page.cs = NONE => Still
      BY Alone
    <3> QED BY <3>1, <2>a, <2>6, <2>7, <2>8, Quiet DEF RenewsNow, Live, Still
  <2>13. \A i \in q.kept \ q.replaced : i = q.cs \/ \E d \in Calls : Lists(new[d], i)
    <3> SUFFICES ASSUME NEW i \in page.kept \ page.replaced, i # page.cs
                 PROVE  \E d \in Calls : Lists(new[d], i)
      BY <2>6, Facts
    <3>1. PICK d \in Calls : Lists(call[d], i)
      BY DEF OInv, Orderly
    <3>2. d # c
      BY <1>0, <3>1 DEF Lists
    <3> QED BY <3>1, <3>2, <2>8
  <2>14. Orderly(q, new)
    BY <2>2, <2>6, <2>9, <2>10, <2>11, <2>12, <2>13 DEF Orderly
  <2>15. Fence
    BY <2>3, <2>8 DEF Fence, Live
  <2> QED BY <2>5, <2>8, <2>14, <2>15 DEF OInv
<1> QED BY <1>1, <1>2

LEMMA ReleaseMore ==
    ASSUME NEW p \in Page, NEW k \in Call
    PROVE  /\ Release(p, k).streams = p.streams /\ Release(p, k).lost = p.lost
           /\ Release(p, k).timers = p.timers /\ Release(p, k).replaced = p.replaced
           /\ Release(p, k).twice = p.twice /\ Release(p, k).mixed = p.mixed
           /\ \A i \in Release(p, k).kept : i \in p.kept /\ ~Lists(k, i)
           /\ \A i \in p.kept : \/ i \in Release(p, k).kept
                                \/ k.kind \in {"list", "workspaces"} /\ i = k.cs
BY DEF Release, Releases, Lists, Page, Call

\* The page that an operation, or a read that did not begin, leaves to what follows it.
LEMMA ReleasedGoes ==
    ASSUME IInv, OInv, NEW c \in Calls, call[c].pc \in {"operation", "disposable"}, NEW p,
           p = Release(page, call[c])
    PROVE  /\ p \in Page /\ Goes(c, p) /\ Scheduled(p)
           /\ p.renewal = page.renewal /\ p.timers = page.timers /\ p.lost = page.lost
           /\ p.mixed = page.mixed /\ p.cs = page.cs
           /\ ~Live(call[c], page) => p.busy = page.busy
           /\ call[c].kind # "renewal" /\ ~OpensFor(call[c], page, page.selected)
<1>1. call[c] \in Call /\ page \in Page /\ Scheduled(page) /\ Fitting(call[c], page)
      /\ NONE \notin page.kept
  BY Facts
<1>2. /\ p \in Page /\ p.gen = page.gen /\ p.cs = page.cs /\ p.selected = page.selected
      /\ p.workspace = page.workspace /\ p.streams = page.streams /\ p.timers = page.timers
      /\ p.renewal = page.renewal /\ p.lost = page.lost
      /\ p.replaced = page.replaced /\ p.twice = page.twice /\ p.mixed = page.mixed
      /\ \A i \in p.kept : i \in page.kept /\ ~Lists(call[c], i)
      /\ \A i \in page.kept : i \in p.kept \/ (call[c].kind \in {"list", "workspaces"} /\ i = call[c].cs)
      /\ call[c].gen # page.gen => p.busy = page.busy
  <2> DEFINE k == call[c]
  <2>1. k \in Call /\ page \in Page /\ p = Release(page, k)
    BY <1>1
  <2> HIDE DEF k
  <2>2. LET q == Release(page, k)
        IN  /\ q \in Page /\ q.gen = page.gen /\ q.cs = page.cs /\ q.selected = page.selected
            /\ q.workspace = page.workspace /\ q.renewal = page.renewal
            /\ k.gen # page.gen => q.busy = page.busy
    BY <2>1, ReleaseFacts
  <2>3. /\ p.streams = page.streams /\ p.timers = page.timers /\ p.lost = page.lost
        /\ p.replaced = page.replaced /\ p.twice = page.twice /\ p.mixed = page.mixed
        /\ \A i \in p.kept : i \in page.kept /\ ~Lists(k, i)
        /\ \A i \in page.kept : i \in p.kept \/ (k.kind \in {"list", "workspaces"} /\ i = k.cs)
    BY <2>1, ReleaseMore
  <2> QED BY <2>1, <2>2, <2>3 DEF k
<1>3. \A i \in page.kept : i \in p.kept \/ Lists(call[c], i)
  BY <1>1, <1>2 DEF Lists, Fitting
<1> QED BY <1>1, <1>2, <1>3 DEF Goes, Same, Scheduled, Live, Fitting, OpensFor

LEMMA OpenFailsOrderly ==
    ASSUME IInv, OInv, NEW c \in Calls, OpenFails(c)
    PROVE  OInv' /\ Fence
<1> DEFINE lost == IF Wanted(call[c]) THEN "told" ELSE page.lost
           p == [page EXCEPT !.lost = lost]
<1>1. Ends(c, p) /\ call[c].pc = "opening"
  BY DEF OpenFails
<1>2. /\ lost \in {"no", "told", "closed"}
      /\ Wanted(call[c]) => lost = "told"
      /\ page.lost # "no" => lost # "no"
  BY Facts DEF Page
<1> HIDE DEF lost
<1>3. /\ p \in Page /\ p.gen = page.gen /\ p.cs = page.cs /\ p.selected = page.selected
      /\ p.workspace = page.workspace /\ p.streams = page.streams /\ p.kept = page.kept
      /\ p.renewal = page.renewal /\ p.timers = page.timers /\ p.busy = page.busy
      /\ p.replaced = page.replaced /\ p.twice = page.twice /\ p.mixed = page.mixed
      /\ p.lost = lost
  BY <1>2, Facts DEF Page
<1> HIDE DEF p
<1>4. OpensFor(call[c], page, page.selected) => p.lost # "no"
  BY <1>2, <1>3 DEF OpensFor, Wanted, Live
<1>5. Goes(c, p) /\ Scheduled(p)
  BY <1>1, <1>2, <1>3, Facts DEF Goes, Same, Scheduled, Lists
<1>6. call[c].kind # "renewal"
  BY <1>1, Facts DEF Fitting
<1> QED BY <1>1, <1>3, <1>4, <1>5, <1>6, EndsOrderly

LEMMA DisposableOrderly ==
    ASSUME IInv, OInv, NEW c \in Calls, DisposableOpens(c) \/ DisposableFails(c)
    PROVE  OInv' /\ Fence
<1> DEFINE k == call[c]
<1>0. /\ k \in Call /\ k.pc = "disposable" /\ Fitting(k, page)
      /\ k.kind \in {"list", "workspaces"} /\ ~OpensFor(k, page, page.selected)
  BY Facts DEF DisposableOpens, DisposableFails, Fitting, OpensFor
<1>1. CASE DisposableOpens(c) /\ k.gen # page.gen
  BY <1>0, <1>1, EndsPage DEF DisposableOpens
<1>2. CASE DisposableOpens(c) /\ k.gen = page.gen
  <2>1. PICK id \in NewIds : /\ page' = [page EXCEPT !.kept = @ \cup {id}]
                             /\ call' = [call EXCEPT ![c] = [k EXCEPT !.pc = "operation", !.cs = id]]
    BY <1>2 DEF DisposableOpens
  <2> DEFINE p == [page EXCEPT !.kept = @ \cup {id}]
             o == [k EXCEPT !.pc = "operation", !.cs = id]
  <2>2. id \in Ids /\ id \notin page.kept
    BY DEF NewIds, Unused
  <2>3. page.kept \cup {id} \in SUBSET Ids
    BY <2>2, Facts DEF Page
  <2>4. /\ p \in Page /\ p.gen = page.gen /\ p.cs = page.cs /\ p.selected = page.selected
        /\ p.workspace = page.workspace /\ p.streams = page.streams
        /\ p.kept = page.kept \cup {id} /\ p.timers = page.timers
        /\ p.renewal = page.renewal /\ p.lost = page.lost
        /\ p.replaced = page.replaced /\ p.twice = page.twice /\ p.mixed = page.mixed
    BY <2>3, Facts DEF Page
  <2>5. o \in Call /\ o.pc = "operation" /\ o.kind = k.kind /\ o.cs = id /\ o.gen = k.gen
    BY <1>0, <2>2, CallMoves
  <2>6. o.from = k.from
    BY <1>0 DEF Call
  <2>7. page' = p /\ call' = [call EXCEPT ![c] = o]
    BY <2>1
  <2> HIDE DEF p, o
  <2>8. Same(p) /\ Whole(p) /\ Scheduled(p)
    BY <2>4, Facts DEF Same, Whole, Scheduled
  <2>9. id # page.cs /\ id \notin page.replaced
    BY <2>2, Facts, ControlAssumption DEF Whole
  <2>10. Fitting(o, p)
    BY <1>0, <2>4, <2>5, <2>6, <2>9 DEF Fitting, OpensFor, Live, Lists
  <2>11. \A i \in p.kept : Lists(o, i) \/ (i \in page.kept /\ ~Lists(k, i))
    BY <1>0, <2>4, <2>5 DEF Lists
  <2> QED BY <1>0, <1>2, <2>4, <2>5, <2>7, <2>8, <2>10, <2>11, StaysOne DEF Live
<1>3. CASE DisposableFails(c)
  <2> DEFINE p == Release(page, k)
  <2>1. Ends(c, p)
    BY <1>3 DEF DisposableFails
  <2>2. /\ p \in Page /\ Goes(c, p) /\ Scheduled(p)
        /\ p.renewal = page.renewal /\ p.timers = page.timers
        /\ ~Live(k, page) => p.busy = page.busy
    BY <1>0, ReleasedGoes
  <2> HIDE DEF p
  <2> QED BY <1>0, <2>1, <2>2, EndsOrderly
<1> QED BY <1>1, <1>2, <1>3

LEMMA WaitOrderly ==
    ASSUME IInv, OInv, NEW c \in Calls, WaitEnds(c)
    PROVE  OInv' /\ Fence
<1> DEFINE k == call[c]
<1>0. /\ k \in Call /\ k.pc = "waiting" /\ Fitting(k, page) /\ ~OpensFor(k, page, page.selected)
      /\ k.kind \notin {"renewal", "mutation"}
  BY Facts DEF WaitEnds, Fitting, OpensFor
<1>a. k.kind \notin {"list", "workspaces"}
  BY <1>0 DEF Fitting
<1>1. CASE k.gen # page.gen
  BY <1>0, <1>1, EndsPage DEF WaitEnds
<1>2. CASE k.gen = page.gen
  <2> DEFINE p == [page EXCEPT !.busy = TRUE]
             o == [k EXCEPT !.pc = "operation"]
  <2>1. page' = p /\ call' = [call EXCEPT ![c] = o]
    BY <1>2 DEF WaitEnds
  <2>2. /\ p \in Page /\ p.gen = page.gen /\ p.cs = page.cs /\ p.selected = page.selected
        /\ p.workspace = page.workspace /\ p.streams = page.streams /\ p.kept = page.kept
        /\ p.renewal = page.renewal /\ p.timers = page.timers /\ p.lost = page.lost
        /\ p.replaced = page.replaced /\ p.twice = page.twice /\ p.mixed = page.mixed
    BY Facts DEF Page
  <2>3. o \in Call /\ o.pc = "operation" /\ o.kind = k.kind /\ o.gen = k.gen
    BY <1>0, CallSteps
  <2>4. o.from = k.from
    BY <1>0 DEF Call
  <2> HIDE DEF p, o
  <2>5. Same(p) /\ Whole(p) /\ Scheduled(p)
    BY <2>2, Facts DEF Same, Whole, Scheduled
  <2>6. Fitting(o, p)
    BY <1>0, <1>a, <2>2, <2>3, <2>4 DEF Fitting, OpensFor, Live, Lists
  <2>7. \A i \in page.kept : ~Lists(k, i)
    BY <1>0 DEF Lists
  <2> QED BY <1>0, <1>2, <2>1, <2>2, <2>3, <2>5, <2>6, <2>7, StaysOne DEF Live
<1> QED BY <1>1, <1>2

LEMMA ReturnsOrderly ==
    ASSUME IInv, OInv, NEW c \in Calls, OperationReturns(c)
    PROVE  OInv' /\ Fence
<1> DEFINE k == call[c]
           p == Release(page, k)
<1>1. k \in Call /\ k.pc = "operation" /\ Fitting(k, page)
  BY Facts DEF OperationReturns
<1>2. /\ p \in Page /\ Goes(c, p) /\ Scheduled(p)
      /\ p.renewal = page.renewal /\ p.timers = page.timers
      /\ ~Live(k, page) => p.busy = page.busy
      /\ k.kind # "renewal" /\ ~OpensFor(k, page, page.selected)
  BY <1>1, ReleasedGoes
<1>3. CASE k.kind \in {"workspaces", "list", "mutation"}
  <2>1. PICK q : Ends(c, q) /\ q \in {p, [p EXCEPT !.known = TRUE], [p EXCEPT !.list = k.session]}
                            /\ q \in Page
    <3>1. CASE k.kind = "workspaces"
      <4>1. Ends(c, [p EXCEPT !.known = TRUE])
        BY <3>1 DEF OperationReturns
      <4> HIDE DEF p
      <4>2. [p EXCEPT !.known = TRUE] \in Page
        BY <1>2 DEF Page
      <4> QED BY <4>1, <4>2
    <3>2. CASE k.kind = "list"
      <4>1. Ends(c, ShowList(p, k))
        BY <3>2 DEF OperationReturns
      <4> HIDE DEF p
      <4>2. ShowList(p, k) \in {p, [p EXCEPT !.list = k.session]} /\ ShowList(p, k) \in Page
        BY <1>2 DEF ShowList, Page
      <4> QED BY <4>1, <4>2
    <3>3. CASE k.kind = "mutation"
      <4>1. Ends(c, p)
        BY <3>3 DEF OperationReturns
      <4> QED BY <1>2, <4>1
    <3> QED BY <1>3, <3>1, <3>2, <3>3
  <2> HIDE DEF p
  <2>2. /\ q.gen = p.gen /\ q.cs = p.cs /\ q.selected = p.selected /\ q.workspace = p.workspace
        /\ q.streams = p.streams /\ q.kept = p.kept /\ q.renewal = p.renewal
        /\ q.timers = p.timers /\ q.lost = p.lost /\ q.busy = p.busy
        /\ q.replaced = p.replaced /\ q.twice = p.twice /\ q.mixed = p.mixed
    BY <1>2, <2>1 DEF Page
  <2>3. Goes(c, q) /\ Scheduled(q)
    BY <1>2, <2>2 DEF Goes, Same, Scheduled
  <2> QED BY <1>2, <2>1, <2>2, <2>3, EndsOrderly
<1>4. CASE k.kind \notin {"workspaces", "list", "mutation"}
  <2> DEFINE o == [k EXCEPT !.pc = "installing"]
  <2>1. page' = p /\ call' = [call EXCEPT ![c] = o]
    BY <1>4 DEF OperationReturns
  <2>2. o \in Call /\ o.pc = "installing" /\ o.kind = k.kind /\ o.gen = k.gen
    BY <1>1, CallSteps
  <2>3. o.from = k.from
    BY <1>1 DEF Call
  <2> HIDE DEF p, o
  <2>4. Fitting(o, p)
    BY <1>1, <1>2, <1>4, <2>2, <2>3 DEF Fitting, OpensFor, Live, Lists, Goes, Same
  <2>5. Whole(p) /\ Same(p)
    BY <1>2, GoesWhole DEF Goes
  <2> QED BY <1>2, <1>4, <2>1, <2>2, <2>4, <2>5, StaysOne DEF Goes
<1> QED BY <1>3, <1>4

LEMMA FailsOrderly ==
    ASSUME IInv, OInv, NEW c \in Calls, InstallEnds(c) \/ OperationFails(c)
    PROVE  OInv' /\ Fence
<1>1. CASE InstallEnds(c)
  <2>1. /\ call[c].pc = "installing" /\ call[c].kind # "renewal"
        /\ ~OpensFor(call[c], page, page.selected)
    BY <1>1, Facts DEF InstallEnds, Fitting, OpensFor
  <2>2. CASE Ends(c, page)
    BY <2>1, <2>2, EndsPage
  <2>3. CASE Recovers(call[c]) /\ Recreate(c, page)
    <3>1. Goes(c, page)
      BY <2>1, Facts DEF Goes, Same, Lists
    <3> QED BY <2>1, <2>3, <3>1, Facts, RecreateOrderly DEF Recovers, Live
  <2> QED BY <1>1, <2>2, <2>3 DEF InstallEnds
<1>2. CASE OperationFails(c)
  <2> DEFINE p == Release(page, call[c])
  <2>1. /\ call[c].pc = "operation"
        /\ \/ Recovers(call[c]) /\ Recreate(c, p)
           \/ Ends(c, p)
    BY <1>2 DEF OperationFails
  <2>2. /\ p \in Page /\ Goes(c, p) /\ Scheduled(p)
        /\ p.renewal = page.renewal /\ p.timers = page.timers
        /\ ~Live(call[c], page) => p.busy = page.busy
        /\ call[c].kind # "renewal" /\ ~OpensFor(call[c], page, page.selected)
    BY <2>1, ReleasedGoes
  <2> HIDE DEF p
  <2>3. CASE Recovers(call[c]) /\ Recreate(c, p)
    BY <2>2, <2>3, RecreateOrderly DEF Recovers, Live
  <2>4. CASE Ends(c, p)
    BY <2>2, <2>4, EndsOrderly
  <2> QED BY <2>1, <2>3, <2>4
<1> QED BY <1>1, <1>2

LEMMA RefusalOrderly ==
    ASSUME IInv, OInv, NEW c \in Calls, MutationRefused(c)
    PROVE  OInv' /\ Fence
<1> DEFINE code == answers[call[c].cs]
           p == [page EXCEPT !.renewal = CommandFailed(@, code)]
           r == [p EXCEPT !.timers = IF Schedules(code) THEN @ + 1 ELSE @]
           mixed == page.mixed \/ call[c].gen # page.gen
           q == [r EXCEPT !.mixed = mixed]
           s == Release(q, call[c])
<1>1. /\ call[c].pc = "operation" /\ call[c].kind = "mutation" /\ code # "plain" /\ Ends(c, s)
      /\ Denied(c)
  BY DEF MutationRefused, Denied
<1>2. code \in ErrorCodes /\ page.renewal \in Renewal
  BY <1>1, Facts DEF IInv, Safe, Formed, Rest, Page
<1>3. page.timers \in Nat /\ call[c] \in Call
  BY <1>1, Facts DEF Page
<1>4. CommandFailed(page.renewal, code) \in Renewal
  BY <1>2, RenewalTypes
<1>5. /\ p \in Page /\ p.gen = page.gen /\ p.cs = page.cs /\ p.selected = page.selected
      /\ p.workspace = page.workspace /\ p.streams = page.streams /\ p.kept = page.kept
      /\ p.lost = page.lost /\ p.timers = page.timers /\ p.replaced = page.replaced
      /\ p.twice = page.twice /\ p.busy = page.busy
      /\ p.renewal = CommandFailed(page.renewal, code)
  BY <1>4, Facts, RenewalOnly
<1>6. p.renewal.phase # "renewing" /\ (p.renewal.phase = "recreating" => Schedules(code))
  <2>1. CASE code = "closed"
    BY <1>2, <1>5, <2>1, RenewalPhases DEF Schedules
  <2>2. CASE code = "reauth"
    BY <1>2, <1>5, <2>2, RenewalPhases
  <2> QED BY <1>1, <1>2, <2>1, <2>2 DEF ErrorCodes
<1>a. mixed \in BOOLEAN /\ (page.mixed => mixed) /\ (~Live(call[c], page) => mixed)
  BY DEF Live
<1> HIDE DEF code, p, mixed
<1>7. /\ r \in Page /\ r.gen = page.gen /\ r.cs = page.cs /\ r.selected = page.selected
      /\ r.workspace = page.workspace /\ r.streams = page.streams /\ r.kept = page.kept
      /\ r.lost = page.lost /\ r.renewal = p.renewal /\ r.replaced = page.replaced
      /\ r.twice = page.twice /\ r.busy = page.busy
      /\ p.renewal.phase = "recreating" => r.timers > 0
  BY <1>3, <1>5, <1>6 DEF Page
<1> HIDE DEF r
<1>8. /\ q \in Page /\ q.gen = page.gen /\ q.cs = page.cs /\ q.selected = page.selected
      /\ q.workspace = page.workspace /\ q.streams = page.streams /\ q.kept = page.kept
      /\ q.lost = page.lost /\ q.renewal = p.renewal /\ q.replaced = page.replaced
      /\ q.twice = page.twice /\ q.timers = r.timers /\ q.mixed = mixed
  BY <1>7, <1>a DEF Page
<1>b. q.busy = page.busy
  BY <1>7 DEF Page
<1> HIDE DEF q
<1>9. /\ s \in Page /\ s.gen = page.gen /\ s.cs = page.cs /\ s.selected = page.selected
      /\ s.workspace = page.workspace /\ s.streams = page.streams
      /\ s.lost = page.lost /\ s.renewal = p.renewal /\ s.timers = r.timers
      /\ s.replaced = page.replaced /\ s.twice = page.twice /\ s.mixed = mixed
      /\ s.kept = page.kept
  <2>1. s.kept = q.kept
    BY <1>1 DEF s, Release, Page
  <2> QED BY <2>1, <1>3, <1>8, ReleaseFacts, ReleaseMore
<1>10. ~Live(call[c], page) => s.busy = page.busy
  BY <1>3, <1>8, <1>b, ReleaseFacts, Zenon DEF Live
<1> HIDE DEF s
<1>11. Goes(c, s)
  <2>1. \A i \in page.kept : ~Lists(call[c], i)
    BY <1>1 DEF Lists
  <2> QED BY <2>1, <1>9, <1>a DEF Goes, Same
<1>12. Scheduled(s) /\ s.renewal.phase # "renewing"
  BY <1>6, <1>7, <1>9 DEF Scheduled
<1>13. s.mixed \/ ~RenewsNow(call, page)
  <2>1. CASE Live(call[c], page)
    BY <2>1, <1>1, <1>9, <1>a DEF RenewsNow, OInv, Orderly, Apart
  <2>2. CASE ~Live(call[c], page)
    BY <2>2, <1>9, <1>a
  <2> QED BY <2>1, <2>2
<1>14. ~OpensFor(call[c], page, page.selected)
  BY <1>1 DEF OpensFor
<1> QED BY <1>1, <1>9, <1>10, <1>11, <1>12, <1>13, <1>14, EndsOrderly

LEMMA TimerOrderly ==
    ASSUME IInv, OInv, NEW c \in Calls, TimerFires(c)
    PROVE  OInv' /\ Fence
<1> DEFINE p == [page EXCEPT !.timers = @ - 1]
<1>1. Recreate(c, p) /\ Free(c)
  BY DEF TimerFires
<1>2. /\ p \in Page /\ p.gen = page.gen /\ p.cs = page.cs /\ p.selected = page.selected
      /\ p.workspace = page.workspace /\ p.streams = page.streams /\ p.kept = page.kept
      /\ p.lost = page.lost /\ p.renewal = page.renewal /\ p.replaced = page.replaced
      /\ p.twice = page.twice /\ p.mixed = page.mixed
  BY Facts DEF TimerFires, Page
<1> HIDE DEF p
<1>3. Goes(c, p)
  BY <1>1, <1>2, Facts DEF Goes, Same
<1> QED BY <1>1, <1>2, <1>3, Facts, RecreateOrderly

LEMMA RenewalEndsOrderly ==
    ASSUME IInv, OInv, NEW c \in Calls, RenewReturns(c) \/ RenewFails(c)
    PROVE  OInv' /\ Fence
<1> DEFINE k == call[c]
<1>0. /\ k.pc = "renewing" /\ k.kind = "renewal" /\ ~OpensFor(k, page, page.selected)
      /\ Live(k, page) => page.cs # NONE
      /\ page.renewal \in Renewal
  BY Facts DEF RenewReturns, RenewFails, Fitting, OpensFor, Page
<1>1. CASE ~Live(k, page)
  <2>1. Ends(c, page)
    BY <1>1 DEF RenewReturns, RenewFails, Live
  <2> QED BY <1>0, <1>1, <2>1, EndsPage
<1>2. CASE Live(k, page) /\ RenewReturns(c) /\ page.cs # k.cs
  <2>1. Ends(c, page)
    BY <1>2 DEF RenewReturns, Live
  <2> QED BY <1>0, <1>2, <2>1, EndsPage
<1>3. CASE Live(k, page) /\ RenewReturns(c) /\ page.cs = k.cs
  <2>1. PICK r \in {RenewSucceeded(page.renewal), RenewFailed(page.renewal, "plain")} :
          Ends(c, [page EXCEPT !.lease = "active", !.renewal = r])
    BY <1>0, <1>3 DEF RenewReturns, Live
  <2> DEFINE q == [page EXCEPT !.lease = "active"]
             p == [q EXCEPT !.renewal = r]
  <2>2. r \in Renewal /\ r.phase \in {"idle", "retry_required", "renew_failed"}
    <3>1. RenewSucceeded(page.renewal) \in Renewal /\ RenewFailed(page.renewal, "plain") \in Renewal
      BY <1>0, RenewalTypes DEF ErrorCodes
    <3>2. /\ RenewSucceeded(page.renewal).phase \in {"idle", "retry_required"}
          /\ RenewFailed(page.renewal, "plain").phase = "renew_failed"
      BY <1>0, RenewalPhases
    <3> QED BY <3>1, <3>2
  <2>3. /\ q \in Page /\ q.gen = page.gen /\ q.cs = page.cs /\ q.selected = page.selected
        /\ q.workspace = page.workspace /\ q.streams = page.streams /\ q.kept = page.kept
        /\ q.lost = page.lost /\ q.replaced = page.replaced /\ q.twice = page.twice
        /\ q.mixed = page.mixed
    BY Facts DEF Page
  <2>4. Ends(c, p)
    BY <2>1
  <2> HIDE DEF q
  <2>5. /\ p \in Page /\ p.gen = q.gen /\ p.cs = q.cs /\ p.selected = q.selected
        /\ p.workspace = q.workspace /\ p.streams = q.streams /\ p.kept = q.kept
        /\ p.lost = q.lost /\ p.replaced = q.replaced /\ p.twice = q.twice
        /\ p.mixed = q.mixed /\ p.renewal = r
    BY <2>2, <2>3, RenewalOnly
  <2> HIDE DEF p
  <2>6. Goes(c, p)
    BY <1>0, <2>3, <2>5 DEF Goes, Same, Lists
  <2>7. p.renewal.phase # "renewing" /\ Scheduled(p)
    BY <2>2, <2>5 DEF Scheduled
  <2> QED BY <1>0, <1>3, <2>4, <2>5, <2>6, <2>7, EndsOrderly
<1>4. CASE Live(k, page) /\ RenewFails(c)
  <2> DEFINE code == IF answers[k.cs] = "closed" THEN "closed" ELSE "plain"
             p == [page EXCEPT !.renewal = RenewFailed(@, code)]
  <2>1. IF code = "closed" THEN Recreate(c, p) ELSE Ends(c, p)
    BY <1>4 DEF RenewFails, Live
  <2>2. code \in {"closed", "plain"}
    OBVIOUS
  <2> HIDE DEF code
  <2>3. RenewFailed(page.renewal, code) \in Renewal
    BY <1>0, <2>2, RenewalTypes DEF ErrorCodes
  <2>4. /\ p \in Page /\ p.gen = page.gen /\ p.cs = page.cs /\ p.selected = page.selected
        /\ p.workspace = page.workspace /\ p.streams = page.streams /\ p.kept = page.kept
        /\ p.lost = page.lost /\ p.replaced = page.replaced /\ p.twice = page.twice
        /\ p.mixed = page.mixed /\ p.renewal = RenewFailed(page.renewal, code)
    BY <2>3, Facts, RenewalOnly
  <2> HIDE DEF p
  <2>5. Goes(c, p)
    BY <1>0, <2>4 DEF Goes, Same, Lists
  <2>6. CASE code = "closed"
    BY <1>0, <1>4, <2>1, <2>4, <2>5, <2>6, RecreateOrderly
  <2>7. CASE code = "plain"
    <3>1. p.renewal.phase = "renew_failed"
      BY <1>0, <2>4, <2>7, RenewalPhases
    <3>2. p.renewal.phase # "renewing" /\ Scheduled(p)
      BY <3>1 DEF Scheduled
    <3>3. Ends(c, p)
      BY <2>1, <2>7
    <3> QED BY <1>0, <1>4, <2>4, <2>5, <3>2, <3>3, EndsOrderly
  <2> QED BY <2>2, <2>6, <2>7
<1> QED BY <1>1, <1>2, <1>3, <1>4

LEMMA TimeOrderly ==
    ASSUME IInv, OInv, LeaseRunsOut \/ CloudRefuses
    PROVE  OInv' /\ Fence
<1>1. CASE LeaseRunsOut
  <2>1. PICK lease \in {"approaching", "expired"} : page' = [page EXCEPT !.lease = lease]
    BY <1>1 DEF LeaseRunsOut
  <2> DEFINE p == [page EXCEPT !.lease = lease]
  <2>2. /\ p \in Page /\ p.gen = page.gen /\ p.cs = page.cs /\ p.selected = page.selected
        /\ p.workspace = page.workspace /\ p.streams = page.streams /\ p.kept = page.kept
        /\ p.renewal = page.renewal /\ p.timers = page.timers /\ p.lost = page.lost
        /\ p.replaced = page.replaced /\ p.twice = page.twice /\ p.mixed = page.mixed
    BY Facts DEF Page
  <2>3. page' = p /\ call' = call
    BY <1>1, <2>1 DEF LeaseRunsOut
  <2> HIDE DEF p
  <2>4. Same(p) /\ Whole(p) /\ Scheduled(p)
    BY <2>2, Facts DEF Same, Whole, Scheduled
  <2>5. /\ p.renewal.phase = "renewing" => RenewsNow(call, p)
        /\ RenewsNow(call, p) => p.mixed \/ p.renewal.phase = "renewing"
    BY <2>2 DEF OInv, Orderly, RenewsNow, Live
  <2>6. OneMoves(call)
    BY DEF OneMoves
  <2>7. Orderly(p, call)
    BY <2>2, <2>4, <2>5, <2>6, Facts, Stays
  <2> QED BY <2>3, <2>7 DEF OInv, Fence
<1>2. CASE CloudRefuses
  BY <1>2 DEF CloudRefuses, OInv, Fence
<1> QED BY <1>1, <1>2

-----------------------------------------------------------------------------
(* Theorems *)

LEMMA InitialOrderly == Init => OInv
<1> SUFFICES ASSUME Init PROVE OInv
  OBVIOUS
<1>1. /\ page.selected = NONE /\ page.cs = NONE /\ page.renewal = NoRenewal
      /\ page.streams = {} /\ page.kept = {} /\ page.replaced = {}
  BY DEF Init
<1>2. \A c \in Calls : call[c] = Idle
  BY DEF Init
<1>3. \A c \in Calls : Fitting(call[c], page)
  BY <1>2, IdleFacts
<1>4. \A c, d \in Calls : Apart(call[c], call[d], page)
  BY <1>2, IdleFacts DEF Apart, OpensFor
<1>5. ~RenewsNow(call, page)
  BY <1>2, IdleFacts DEF RenewsNow
<1>6. Whole(page) /\ Scheduled(page)
  BY <1>1, Quiet DEF Whole, Scheduled
<1> QED BY <1>1, <1>3, <1>4, <1>5, <1>6, Quiet DEF OInv, Orderly

LEMMA StepOrderly == IInv /\ OInv /\ Next => OInv' /\ Fence
<1> SUFFICES ASSUME IInv, OInv, Next PROVE OInv' /\ Fence
  OBVIOUS
<1>1. CASE Leave \/ Collapse \/ CloseSession
  BY <1>1, BrowsingOrderly
<1>2. CASE LeaseRunsOut \/ CloudRefuses
  BY <1>2, TimeOrderly
<1>3. ASSUME NEW c \in Calls,
             \/ LoadWorkspaces(c) \/ RefreshSessions(c) \/ RecoverSession(c) \/ Mutate(c) \/ Renew(c)
             \/ \E w \in Workspaces : SelectWorkspace(c, w)
             \/ \E s \in Sessions : SelectSession(c, s)
             \/ OpenReturns(c) \/ OpenFails(c) \/ DisposableOpens(c) \/ DisposableFails(c)
             \/ WaitEnds(c) \/ OperationReturns(c) \/ InstallEnds(c) \/ OperationFails(c)
             \/ MutationRefused(c) \/ TimerFires(c) \/ RenewReturns(c) \/ RenewFails(c)
      PROVE  OInv' /\ Fence
  BY <1>3, LoadOrderly, ReadsOrderly, SelectOrderly, OperationsOrderly, RenewOrderly,
     OpensOrderly, OpenFailsOrderly, DisposableOrderly, WaitOrderly, ReturnsOrderly,
     FailsOrderly, RefusalOrderly, TimerOrderly, RenewalEndsOrderly
<1> QED BY <1>1, <1>2, <1>3 DEF Next

LEMMA StutterOrderly == OInv /\ UNCHANGED vars => OInv' /\ Fence
BY DEF OInv, Fence, vars

LEMMA InductiveOrderly == Spec => [](IInv /\ OInv)
<1>1. IInv /\ OInv /\ [Next]_vars => IInv' /\ OInv'
  BY Step, Stutter, StepOrderly, StutterOrderly
<1>2. Init => IInv /\ OInv
  BY Initial, InitialOrderly
<1> QED BY <1>1, <1>2, PTL DEF Spec

\* For any sessions, workspaces and functions under way, refusals of any generation
\* included: a page that shows a renewal has one under way, one that waits for a
\* recreation has one scheduled, and as long as no other control session has acted
\* on it there is one renewal at most, which the page shows (app.js 770-776,
\* 1077-1124).
THEOREM OneRenewalHolds == Spec => []OneRenewal
<1>1. IInv /\ OInv => OneRenewal
  <2> SUFFICES ASSUME IInv, OInv PROVE OneRenewal
    OBVIOUS
  <2> DEFINE renewals == {c \in Calls : call[c].pc = "renewing" /\ call[c].gen = page.gen}
  <2>1. \A c \in Calls : call[c].kind = "renewal" <=> call[c].pc = "renewing"
    BY Facts DEF Fitting
  <2>2. page.renewal.phase = "renewing" => renewals # {}
    BY <2>1 DEF OInv, Orderly, RenewsNow, Live
  <2>3. page.renewal.phase = "recreating" /\ page.cs # NONE => page.timers > 0
    BY Facts DEF Scheduled
  <2>4. ASSUME ~page.mixed
        PROVE  Cardinality(renewals) <= 1 /\ (renewals # {} => page.renewal.phase = "renewing")
    <3>1. \A c, d \in renewals : c = d
      BY <2>1, <2>4 DEF OInv, Orderly, Apart, Live
    <3>2. renewals # {} => page.renewal.phase = "renewing"
      <4>1. \A c \in renewals : call[c].cs = page.cs
        BY <2>1, <2>4, Facts DEF Fitting, Live
      <4>2. renewals # {} => RenewsNow(call, page)
        BY <2>1, <4>1 DEF RenewsNow, Live
      <4> QED BY <4>2, <2>4 DEF OInv, Orderly
    <3>3. Cardinality(renewals) <= 1
      <4>1. renewals = {} \/ \E c \in renewals : renewals = {c}
        BY <3>1
      <4>2. \A c \in renewals : Cardinality({c}) = 1
        BY FS_Singleton
      <4>3. Cardinality({}) = 0
        BY FS_EmptySet
      <4> HIDE DEF renewals
      <4> QED BY <4>1, <4>2, <4>3
    <3> QED BY <3>2, <3>3
  <2> QED BY <2>2, <2>3, <2>4 DEF OneRenewal
<1> QED BY InductiveOrderly, <1>1, PTL

\* For any sessions, workspaces and functions under way: every control session kept
\* is the selected one or that of a read under way, and its stream is the only one,
\* except those of a selection repeated while it was being opened, whose place the
\* second opening takes without closing them (app.js 542-604, 913-957).
THEOREM NoOrphansHolds == Spec => []NoOrphans
<1>1. IInv /\ OInv => NoOrphans
  BY DEF OInv, Orderly, Whole, Lists, NoOrphans
<1> QED BY InductiveOrderly, <1>1, PTL

\* However a control session ends, its selection gets another, or the user was told
\* that it could not be opened, or has none, unless a recreation begun in another
\* workspace has closed it (README.md 79-80, app.js 1267-1274).
THEOREM SelectedIsServedHolds == Spec => []SelectedIsServed
<1>1. IInv /\ OInv => SelectedIsServed
  <2>1. IInv => page.lost \in {"no", "told", "closed"}
    BY DEF IInv, Safe, Page
  <2> QED BY <2>1 DEF OInv, Orderly, OpensNow, OpensFor, Live, SelectedIsServed, Being
<1> QED BY InductiveOrderly, <1>1, PTL

\* What goes on in a later generation than its own releases no flag and selects
\* nothing, and acts on the present control session in two cases only: a mutation
\* that Cloud refuses changes its renewal, and the end of a recreation begun in
\* another workspace closes it (the comparisons with controlGeneration, and the
\* places where there is none: app.js 769-776, 1273).
THEOREM FencedHolds == Spec => Fenced
<1>1. IInv /\ OInv /\ [Next]_vars =>
        [\A c \in Calls :
          ~Free(c) /\ call'[c] # call[c] /\ call[c].gen # page.gen
              => /\ page'.busy = page.busy /\ page'.selected = page.selected
                 /\ \/ /\ page'.cs = page.cs /\ page'.streams = page.streams
                       /\ page'.renewal = page.renewal /\ page'.timers = page.timers
                    \/ TakenForPresent(c)
                    \/ Sweeps(c)]_vars
  BY StepOrderly, StutterOrderly DEF Fence
<1> QED BY InductiveOrderly, <1>1, PTL DEF Spec, Fenced
=============================================================================
