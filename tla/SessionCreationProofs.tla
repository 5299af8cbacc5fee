------------------------ MODULE SessionCreationProofs ------------------------
(***************************************************************************)
(* Proofs about SessionCreation for every set of keys, devices, workspaces *)
(* and identities and every bound of the control generation.               *)
(***************************************************************************)
EXTENDS SessionCreation, TLAPS

-----------------------------------------------------------------------------
(* The inductive invariant. *)

\* running is the flag of the one call there is.
OneCall ==
    \A j, k \in Key : pc[k] # "idle" => running /\ (pc[j] # "idle" => j = k)

\* A call that awaits the DELETE has already dropped the attempt.
Disposed == \A k \in Key : pc[k] = "dispose" => attempt = NONE

\* The key being worked on is the one of the retained attempt.
OpenOutcome ==
    \A k \in Key : outcome[k] = "open" <=> attempt # NONE /\ attempt.key = k

\* What the attempt remembers belongs to its key; a session ID is proof of creation.
Names ==
    attempt # NONE =>
        /\ attempt.commandId \in {NONE, attempt.key}
        /\ attempt.controlSession \in {NONE, attempt.key}
        /\ attempt.sessionId \in {NONE, attempt.key}
        /\ attempt.sessionId # NONE =>
               attempt.mayHaveCommitted /\ command[attempt.key] = "created"

\* What a suspended call has already recorded.
Phases ==
    \A k \in Key : attempt # NONE =>
        /\ pc[k] = "wait" => attempt.commandId = k
        /\ pc[k] \in {"list", "baseline"} => attempt.sessionId = k
        /\ pc[k] \in {"resume", "listUnknown"} => attempt.status \in Reconcilable

\* An attempt that knows of no command, and is not blocked, has none.
Unsent ==
    attempt # NONE /\ ~attempt.mayHaveCommitted /\ attempt.commandId = NONE =>
        /\ \/ pc[attempt.key] \in {"open", "renew", "encrypt"}
           \/ pc[attempt.key] = "idle" /\ attempt.status = "reauthentication_required"
           => command[attempt.key] = "none" /\ attempt.key \notin net
        /\ pc[attempt.key] = "post" /\ attempt.key \in net => command[attempt.key] = "none"

\* What the conclusions rest on.
Concluded ==
    \A k \in Key :
        /\ outcome[k] = "unused" => pc[k] = "idle" /\ command[k] = "none" /\ k \notin net
        /\ outcome[k] = "released" => pc[k] \in {"idle", "dispose"}
        /\ outcome[k] = "succeeded" => command[k] = "created"

\* What holds whatever terminals look like.
CallInv ==
    /\ TypeOK
    /\ InProgressIsRunning
    /\ OwnCompletion
    /\ OneCall
    /\ Disposed
    /\ OpenOutcome
    /\ Names
    /\ Phases
    /\ Unsent
    /\ Concluded

IInv == CallInv /\ ReleasedNeverCreated

\* update({ status }) changes the status and nothing else.
LEMMA StatusFacts ==
  ASSUME NEW a \in Attempt, NEW s \in Status
  PROVE  /\ WithStatus(a, s) \in Attempt
         /\ WithStatus(a, s).status = s
         /\ WithStatus(a, s).key = a.key
         /\ WithStatus(a, s).context = a.context
         /\ WithStatus(a, s).controlSession = a.controlSession
         /\ WithStatus(a, s).commandId = a.commandId
         /\ WithStatus(a, s).sessionId = a.sessionId
         /\ WithStatus(a, s).mayHaveCommitted = a.mayHaveCommitted
  BY DEF WithStatus, Attempt

\* update({ commandId }) changes the command ID and nothing else.
LEMMA CommandFacts ==
  ASSUME NEW a \in Attempt, NEW k \in Key
  PROVE  /\ WithCommand(a, k) \in Attempt
         /\ WithCommand(a, k).status = a.status
         /\ WithCommand(a, k).key = a.key
         /\ WithCommand(a, k).context = a.context
         /\ WithCommand(a, k).controlSession = a.controlSession
         /\ WithCommand(a, k).commandId = k
         /\ WithCommand(a, k).sessionId = a.sessionId
         /\ WithCommand(a, k).mayHaveCommitted = a.mayHaveCommitted
  BY DEF WithCommand, Attempt

\* update({ controlSessionId, encryptionBinding }) changes those two fields.
LEMMA ControlSessionFacts ==
  ASSUME NEW a \in Attempt, NEW k \in Key, NEW b \in Key \cup {NONE}
  PROVE  /\ WithControlSession(a, k, b) \in Attempt
         /\ WithControlSession(a, k, b).status = a.status
         /\ WithControlSession(a, k, b).key = a.key
         /\ WithControlSession(a, k, b).context = a.context
         /\ WithControlSession(a, k, b).controlSession = k
         /\ WithControlSession(a, k, b).commandId = a.commandId
         /\ WithControlSession(a, k, b).sessionId = a.sessionId
         /\ WithControlSession(a, k, b).mayHaveCommitted = a.mayHaveCommitted
  BY DEF WithControlSession, Attempt

\* The patch of a result marks the attempt committed, names the session and sets a status.
LEMMA CommittedFacts ==
  ASSUME NEW a \in Attempt, NEW id \in Key \cup {NONE}, NEW s \in Status
  PROVE  /\ Committed(a, id, s) \in Attempt
         /\ Committed(a, id, s).status = s
         /\ Committed(a, id, s).key = a.key
         /\ Committed(a, id, s).controlSession = a.controlSession
         /\ Committed(a, id, s).commandId = a.commandId
         /\ Committed(a, id, s).sessionId = id
         /\ Committed(a, id, s).mayHaveCommitted = TRUE
  BY DEF Committed, Attempt

\* The patch of a valid result, with the status reconcileKnownResult starts from.
LEMMA ResultFacts ==
  ASSUME NEW a \in Attempt, NEW k \in Key
  PROVE  /\ Committed(a, k, "reconciling") \in Attempt
         /\ Committed(a, k, "reconciling").key = a.key
         /\ Committed(a, k, "reconciling").controlSession = a.controlSession
         /\ Committed(a, k, "reconciling").commandId = a.commandId
         /\ Committed(a, k, "reconciling").sessionId = k
         /\ Committed(a, k, "reconciling").mayHaveCommitted = TRUE
  BY DEF Committed, Attempt, Status, InProgress

\* The types of the fields of an attempt.
LEMMA AttemptFields ==
  ASSUME NEW a \in Attempt
  PROVE  /\ a.key \in Key
         /\ a.context \in Context
         /\ a.binding \in Key \cup {NONE}
         /\ a.controlSession \in Key \cup {NONE}
         /\ a.commandId \in Key \cup {NONE}
         /\ a.sessionId \in Key \cup {NONE}
         /\ a.mayHaveCommitted \in BOOLEAN
         /\ a.status \in Status
         /\ a # NONE
  BY NoneAssumption DEF Attempt

\* What the coordinator makes of a success it cannot use: the same attempt, unresolved.
LEMMA InvalidFacts ==
  ASSUME NEW a \in Attempt
  PROVE  LET c == Committed(a, a.sessionId, "reconciliation_required")
         IN  /\ c \in Attempt
             /\ c.key = a.key
             /\ c.sessionId = a.sessionId
             /\ c.commandId = a.commandId
             /\ c.controlSession = a.controlSession
             /\ c.mayHaveCommitted = TRUE
             /\ c.status = "reconciliation_required"
<1>1. a.sessionId \in Key \cup {NONE}
  BY AttemptFields
<1> QED BY <1>1 DEF Committed, Attempt, Status, Reconcilable

-----------------------------------------------------------------------------
(* Steps of a call. *)

\* b differs from a in the status and perhaps in the control session of its key.
Same(a, b) ==
    /\ b \in Attempt
    /\ b.key = a.key
    /\ b.commandId = a.commandId
    /\ b.sessionId = a.sessionId
    /\ b.mayHaveCommitted = a.mayHaveCommitted
    /\ b.controlSession \in {a.controlSession, a.key}

\* The call of key k ends and keeps the attempt, or gives it up because of error.
Stops(k, error) ==
    \/ /\ attempt = NONE /\ attempt' = NONE /\ outcome' = outcome
       /\ pc' = [pc EXCEPT ![k] = "idle"] /\ running' = FALSE
    \/ /\ attempt # NONE /\ Same(attempt, attempt') /\ outcome' = outcome
       /\ attempt'.status \in Status \ InProgress
       /\ attempt'.status = "reauthentication_required" => error = "reauthentication"
       /\ pc' = [pc EXCEPT ![k] = "idle"] /\ running' = FALSE
    \/ /\ attempt # NONE /\ attempt' = NONE
       /\ outcome' = [outcome EXCEPT ![attempt.key] = "released"]
       /\ \/ pc' = [pc EXCEPT ![k] = "idle"] /\ running' = FALSE
          \/ pc' = [pc EXCEPT ![k] = "dispose"] /\ running' = running
       /\ ~attempt.mayHaveCommitted
       /\ error = "safe" \/ (error = "plain" /\ attempt.commandId = NONE)

Errors == {"plain", "safe", "ambiguous", "reauthentication"}

\* Two updates that keep the identity of an attempt keep it together.
LEMMA SameTransitive ==
  ASSUME NEW a \in Attempt, NEW b, NEW c, Same(a, b), Same(b, c)
  PROVE  Same(a, c)
  BY DEF Same

\* Changing the status keeps the identity of an attempt.
LEMMA StatusSame ==
  ASSUME NEW a \in Attempt, NEW s \in Status
  PROVE  Same(a, WithStatus(a, s))
  BY StatusFacts DEF Same

\* retainFailure leaves a status that is not in progress, asks for reauthentication
\* only after a reauthentication error, and releases only an attempt not known to have
\* committed: after a safe terminal, or a plain error before any command.
LEMMA VerdictRange ==
  ASSUME NEW a \in Attempt, NEW error \in Errors,
         NEW fallback \in {NONE, "reconciliation_required"}
  PROVE  /\ Verdict(a, error, fallback) \in (Status \ InProgress) \cup {"released"}
         /\ Verdict(a, error, fallback) = "reauthentication_required" => error = "reauthentication"
         /\ Verdict(a, error, fallback) = "released" =>
              /\ ~a.mayHaveCommitted
              /\ error = "safe" \/ (error = "plain" /\ a.commandId = NONE)
  BY DEF Verdict, SafeToRelease, MayHaveEffect, Status, InProgress, Reconcilable, Errors

\* What retainFailure does, entered with attempt a.
LEMMA RetainFailureStops ==
  ASSUME NEW k \in Key, NEW a, NEW e, NEW error \in Errors,
         NEW fallback \in {NONE, "reconciliation_required"},
         \/ attempt = NONE /\ a = NONE
         \/ attempt \in Attempt /\ Same(attempt, a),
         RetainFailure(k, a, e, error, fallback)
  PROVE  Stops(k, error)
<1>1. CASE a = NONE
  <2>1. attempt = NONE
    BY <1>1, NoneAssumption DEF Same
  <2> QED BY <1>1, <2>1 DEF RetainFailure, EndWith, End, Stops
<1>2. CASE a # NONE
  <2>1. attempt \in Attempt /\ Same(attempt, a) /\ a \in Attempt /\ attempt # NONE
    BY <1>2, NoneAssumption DEF Same
  <2>2. CASE Verdict(a, error, fallback) = "released"
    <3>1. DisposeAndClear(k, a, e, "released")
      BY <1>2, <2>2 DEF RetainFailure
    <3>2. a.key = attempt.key /\ a.commandId = attempt.commandId /\ a.mayHaveCommitted = attempt.mayHaveCommitted
      BY <2>1 DEF Same
    <3>3. ~a.mayHaveCommitted /\ (error = "safe" \/ (error = "plain" /\ a.commandId = NONE))
      BY <2>1, <2>2, VerdictRange
    <3> QED BY <2>1, <3>1, <3>2, <3>3 DEF DisposeAndClear, Goto, End, Stops
  <2>3. CASE Verdict(a, error, fallback) # "released"
    <3> DEFINE s == Verdict(a, error, fallback)
    <3>1. EndWith(k, WithStatus(a, s), e)
      BY <1>2, <2>3 DEF RetainFailure
    <3>2. s \in Status \ InProgress /\ (s = "reauthentication_required" => error = "reauthentication")
      BY <2>1, <2>3, VerdictRange
    <3> HIDE DEF s
    <3>3. WithStatus(a, s).status = s /\ Same(attempt, WithStatus(a, s))
      BY <2>1, <3>2, StatusFacts, StatusSame, SameTransitive
    <3> QED BY <2>1, <3>1, <3>2, <3>3 DEF EndWith, End, Stops
  <2> QED BY <2>2, <2>3
<1> QED BY <1>1, <1>2

\* While a call is at work the flag is set, every other key is idle, and a retained
\* attempt is the one of the key at work.
LEMMA CallFacts ==
  ASSUME CallInv, NEW k \in Key, pc[k] # "idle"
  PROVE  /\ running = TRUE
         /\ \A j \in Key : j # k => pc[j] = "idle"
         /\ pc[k] \in Suspended \cup {"dispose"}
         /\ attempt # NONE => /\ attempt \in Attempt
                              /\ attempt.key = k
                              /\ pc[k] \in Suspended
                              /\ outcome[k] = "open"
  BY DEF CallInv, TypeOK, OneCall, OwnCompletion, OpenOutcome, Disposed, PC

\* Cloud knows of no command of the key, and no POST can bring one.
NothingEnqueued(k) == command[k] = "none" /\ k \notin net'

\* A call that ends keeps the invariant if it asks for reauthentication only when
\* nothing can have been enqueued under a command it does not know.
LEMMA StopsPreserves ==
  ASSUME CallInv, NEW k \in Key, NEW error, pc[k] \in Suspended, Stops(k, error),
         command' = command, net' \in SUBSET net,
         ctx' \in Context, sessions' \in SUBSET Key,
         encryption' \in [Key -> {"off", "keyed", "sealed"}],
         error = "reauthentication" /\ attempt # NONE /\ ~attempt.mayHaveCommitted
             /\ attempt.commandId = NONE => NothingEnqueued(k)
  PROVE  CallInv'
<1>0. pc[k] # "idle" /\ pc[k] # "dispose"
  BY DEF Suspended
<1>1. attempt # NONE => attempt \in Attempt /\ attempt.key = k /\ outcome[k] = "open"
  BY <1>0, CallFacts
<1>2. running = TRUE /\ \A j \in Key : j # k => pc[j] = "idle"
  BY <1>0, CallFacts
<1>3. /\ pc \in [Key -> PC]
      /\ outcome \in [Key -> {"unused", "open", "succeeded", "released", "abandoned"}]
      /\ net \subseteq Key
      /\ command \in [Key -> {"none", "queued", "created", "refused"}]
  BY DEF CallInv, TypeOK
<1>4. attempt' # NONE =>
        /\ attempt # NONE
        /\ attempt' \in Attempt
        /\ attempt'.key = attempt.key
        /\ attempt'.status \notin InProgress
        /\ attempt'.status = "reauthentication_required" => error = "reauthentication"
        /\ pc' = [pc EXCEPT ![k] = "idle"] /\ running' = FALSE
        /\ outcome' = outcome
        /\ Same(attempt, attempt')
  BY DEF Stops, Same
<1>5. \/ pc' = [pc EXCEPT ![k] = "idle"] /\ running' = FALSE
      \/ pc' = [pc EXCEPT ![k] = "dispose"] /\ running' = running /\ attempt' = NONE
  BY DEF Stops
<1>6. \/ outcome' = outcome /\ (attempt # NONE => attempt' # NONE)
      \/ attempt # NONE /\ attempt' = NONE /\ outcome' = [outcome EXCEPT ![k] = "released"]
  BY <1>1, <1>4, NoneAssumption DEF Stops, Same
<1>7. TypeOK'
  <2>1. running' \in BOOLEAN /\ pc' \in [Key -> PC]
    BY <1>2, <1>3, <1>5 DEF PC
  <2>2. outcome' \in [Key -> {"unused", "open", "succeeded", "released", "abandoned"}]
    BY <1>3, <1>6
  <2> QED BY <1>3, <1>4, <2>1, <2>2 DEF TypeOK
<1>8. InProgressIsRunning'
  BY <1>4 DEF InProgressIsRunning
<1>9. OwnCompletion' /\ OneCall' /\ Disposed'
  <2>1. \A j \in Key : j # k => pc'[j] = "idle"
    BY <1>2, <1>3, <1>5
  <2>2. \/ pc'[k] = "idle" /\ running' = FALSE
        \/ pc'[k] = "dispose" /\ running' = TRUE /\ attempt' = NONE
    BY <1>2, <1>3, <1>5
  <2> QED BY <2>1, <2>2 DEF OwnCompletion, OneCall, Disposed, Suspended
<1>10. OpenOutcome'
  <2>1. CASE outcome' = outcome /\ (attempt # NONE => attempt' # NONE)
    BY <1>1, <1>4, <2>1 DEF CallInv, OpenOutcome
  <2>2. CASE attempt # NONE /\ attempt' = NONE /\ outcome' = [outcome EXCEPT ![k] = "released"]
    BY <1>1, <1>3, <2>2 DEF CallInv, OpenOutcome
  <2> QED BY <1>6, <2>1, <2>2
<1>11. Names'
  BY <1>1, <1>4 DEF CallInv, Names, Same
<1>12. Phases'
  BY <1>2, <1>3, <1>4 DEF Phases
<1>13. Unsent'
  BY <1>1, <1>3, <1>4 DEF Unsent, Same, NothingEnqueued
<1>14. Concluded'
  <2>1. outcome[k] # "unused"
    BY <1>0 DEF CallInv, Concluded
  <2>2. \A j \in Key : j # k => outcome'[j] = outcome[j] /\ pc'[j] = pc[j]
    BY <1>3, <1>5, <1>6
  <2>3. pc'[k] \in {"idle", "dispose"} /\ (outcome'[k] = outcome[k] \/ outcome'[k] = "released")
    BY <1>3, <1>5, <1>6
  <2> QED BY <2>1, <2>2, <2>3 DEF CallInv, Concluded
<1> QED BY <1>7, <1>8, <1>9, <1>10, <1>11, <1>12, <1>13, <1>14 DEF CallInv

\* A call that ends keeps ReleasedNeverCreated if a safe terminal is a refusal and a
\* plain error means that nothing was enqueued.
LEMMA StopsReleases ==
  ASSUME CallInv, ReleasedNeverCreated, NEW k \in Key, NEW error,
         pc[k] \in Suspended, Stops(k, error),
         command' = command, net' \in SUBSET net,
         error = "safe" => command[k] = "refused",
         error = "plain" /\ attempt # NONE /\ ~attempt.mayHaveCommitted
             /\ attempt.commandId = NONE => NothingEnqueued(k)
  PROVE  ReleasedNeverCreated'
<1>1. attempt # NONE => attempt.key = k
  BY CallFacts DEF Suspended
<1>2. outcome \in [Key -> {"unused", "open", "succeeded", "released", "abandoned"}]
  BY DEF CallInv, TypeOK
<1>3. CASE outcome' = outcome
  BY <1>3 DEF ReleasedNeverCreated
<1>4. CASE outcome' # outcome
  <2>1. outcome' = [outcome EXCEPT ![k] = "released"]
    BY <1>1, <1>4 DEF Stops
  <2>2. command[k] = "refused" \/ NothingEnqueued(k)
    BY <1>4 DEF Stops
  <2> QED BY <1>2, <2>1, <2>2 DEF ReleasedNeverCreated, NothingEnqueued
<1> QED BY <1>3, <1>4

\* The call of key k goes on: it is suspended again, or awaits the DELETE.
Continues(k, step) ==
    /\ pc' = [pc EXCEPT ![k] = step] /\ running' = running
    /\ outcome' = outcome
    /\ \/ attempt = NONE /\ attempt' = NONE
       \/ attempt # NONE /\ attempt' \in Attempt /\ attempt'.key = attempt.key

\* A call that goes on keeps the invariant, given what it recorded for its next await.
LEMMA ContinuesPreserves ==
  ASSUME CallInv, NEW k \in Key, NEW step \in Suspended, pc[k] \in Suspended,
         Continues(k, step),
         command' = command, net' \in SUBSET (net \cup {k}),
         ctx' \in Context, sessions' \in SUBSET Key,
         encryption' \in [Key -> {"off", "keyed", "sealed"}],
         Names', Unsent',
         attempt' # NONE =>
            /\ step = "wait" => attempt'.commandId = k
            /\ step \in {"list", "baseline"} => attempt'.sessionId = k
            /\ step \in {"resume", "listUnknown"} => attempt'.status \in Reconcilable
  PROVE  CallInv' /\ (ReleasedNeverCreated => ReleasedNeverCreated')
<1>0. pc[k] # "idle" /\ pc[k] # "dispose" /\ step # "idle" /\ step # "dispose"
  BY DEF Suspended
<1>1. attempt # NONE => attempt \in Attempt /\ attempt.key = k /\ outcome[k] = "open"
  BY <1>0, CallFacts
<1>2. running = TRUE /\ \A j \in Key : j # k => pc[j] = "idle"
  BY <1>0, CallFacts
<1>3. /\ pc \in [Key -> PC]
      /\ outcome \in [Key -> {"unused", "open", "succeeded", "released", "abandoned"}]
      /\ net \subseteq Key
      /\ command \in [Key -> {"none", "queued", "created", "refused"}]
  BY DEF CallInv, TypeOK
<1>4. /\ pc' = [pc EXCEPT ![k] = step] /\ running' = TRUE /\ outcome' = outcome
      /\ attempt' # NONE => attempt # NONE /\ attempt' \in Attempt /\ attempt'.key = k
      /\ attempt = NONE <=> attempt' = NONE
  BY <1>1, <1>2, NoneAssumption DEF Continues
<1>5. TypeOK'
  BY <1>3, <1>4 DEF TypeOK, PC
<1>6. InProgressIsRunning' /\ OwnCompletion' /\ OneCall' /\ Disposed'
  BY <1>0, <1>2, <1>3, <1>4 DEF InProgressIsRunning, OwnCompletion, OneCall, Disposed, Suspended
<1>7. OpenOutcome'
  BY <1>1, <1>4 DEF CallInv, OpenOutcome
<1>8. Phases'
  BY <1>2, <1>3, <1>4 DEF Phases
<1>9. Concluded'
  BY <1>0, <1>2, <1>3, <1>4 DEF CallInv, Concluded
<1>10. ReleasedNeverCreated => ReleasedNeverCreated'
  BY <1>0, <1>4 DEF CallInv, Concluded, ReleasedNeverCreated
<1> QED BY <1>5, <1>6, <1>7, <1>8, <1>9, <1>10 DEF CallInv
\* assertCurrent throws.
LEMMA RejectStops ==
  ASSUME CallInv, NEW k \in Key, NEW e, Reject(k, e)
  PROVE  Stops(k, "plain")
<1>1. CASE attempt = NONE
  BY <1>1 DEF Reject, EndWith, End, Fenced, Stops
<1>2. CASE attempt # NONE
  <2>1. attempt \in Attempt
    BY <1>2 DEF CallInv, TypeOK
  <2>2. /\ Same(attempt, WithStatus(attempt, "reconciliation_required"))
        /\ WithStatus(attempt, "reconciliation_required").status = "reconciliation_required"
    BY <2>1, StatusFacts, StatusSame DEF Status, Reconcilable
  <2> QED BY <1>2, <2>2 DEF Reject, EndWith, End, Fenced, Stops, Status, InProgress, Reconcilable
<1> QED BY <1>1, <1>2

\* retainFailure of the retained attempt ends the call.
LEMMA FailStops ==
  ASSUME CallInv, NEW k \in Key, NEW error \in Errors,
         NEW fallback \in {NONE, "reconciliation_required"}, Fail(k, error, fallback)
  PROVE  Stops(k, error)
<1>1. \/ attempt = NONE
      \/ attempt \in Attempt /\ Same(attempt, attempt)
  BY DEF CallInv, TypeOK, Same
<1> QED BY <1>1, RetainFailureStops DEF Fail

\* Encryption state is one of the three whatever way a call ends.
LEMMA EncryptionTyped ==
  ASSUME NEW k \in Key, NEW a \in Attempt \cup {NONE}, NEW error, NEW fallback,
         NEW e \in [Key -> {"off", "keyed", "sealed"}],
         RetainFailure(k, a, e, error, fallback)
  PROVE  encryption' \in [Key -> {"off", "keyed", "sealed"}]
BY DEF RetainFailure, DisposeAndClear, EndWith, Attempt

\* The state of the page that a call leaves alone is typed.
LEMMA Typed ==
  ASSUME CallInv
  PROVE  /\ attempt \in Attempt \cup {NONE}
         /\ ctx \in Context /\ sessions \in SUBSET Key /\ net \in SUBSET Key
         /\ encryption \in [Key -> {"off", "keyed", "sealed"}]
         /\ command \in [Key -> {"none", "queued", "created", "refused"}]
BY DEF CallInv, TypeOK

\* A new control generation leaves a typed context.
LEMMA Bumps ==
  ASSUME CallInv, NEW b \in BOOLEAN
  PROVE  Bumped(b) \in Context
BY Typed DEF Bumped, Context

\* The step keeps the invariant, and ReleasedNeverCreated when terminals are sound.
Keeps == CallInv' /\ (ReleasedNeverCreated /\ TerminalFaults = {} => ReleasedNeverCreated')

\* The two facts about a call that ends, together.
LEMMA StopsKeep ==
  ASSUME CallInv, NEW k \in Key, NEW error, pc[k] \in Suspended, Stops(k, error),
         command' = command, net' \in SUBSET net,
         ctx' \in Context, sessions' \in SUBSET Key,
         encryption' \in [Key -> {"off", "keyed", "sealed"}],
         error \in {"plain", "reauthentication"} /\ attempt # NONE
             /\ ~attempt.mayHaveCommitted /\ attempt.commandId = NONE => NothingEnqueued(k),
         error = "safe" /\ TerminalFaults = {} => command[k] = "refused"
  PROVE  Keeps
<1>1. CallInv'
  BY StopsPreserves
<1>2. ASSUME ReleasedNeverCreated, TerminalFaults = {} PROVE ReleasedNeverCreated'
  BY <1>2, StopsReleases
<1> QED BY <1>1, <1>2 DEF Keeps

\* A fenced call keeps the attempt, so it gives nothing up.
LEMMA RejectKeeps ==
  ASSUME CallInv, NEW k \in Key, pc[k] \in Suspended,
         NEW e \in [Key -> {"off", "keyed", "sealed"}], Reject(k, e),
         command' = command, net' = net, ctx' \in Context, sessions' \in SUBSET Key
  PROVE  Keeps
<1>1. /\ attempt = NONE <=> attempt' = NONE
      /\ outcome' = outcome /\ encryption' = e
  <2>1. CASE attempt = NONE
    BY <2>1 DEF Reject, EndWith, Fenced
  <2>2. CASE attempt # NONE
    BY <2>2, Typed, StatusFacts, NoneAssumption DEF Reject, EndWith, Fenced, Status, Reconcilable
  <2> QED BY <2>1, <2>2
<1>2. Stops(k, "fenced")
  BY <1>1, RejectStops DEF Stops
<1> QED BY <1>1, <1>2, Typed, StopsKeep

\* An attempt that knows of no command has none while the call has not posted, and a
\* POST under way is its first; past the POST it knows of a command.
LEMMA UnsentFact ==
  ASSUME CallInv, NEW k \in Key, attempt # NONE, ~attempt.mayHaveCommitted,
         attempt.commandId = NONE, pc[k] \in Suspended
  PROVE  /\ pc[k] \in {"open", "renew", "encrypt"} => command[k] = "none" /\ k \notin net
         /\ pc[k] = "post" /\ k \in net => command[k] = "none"
         /\ pc[k] \notin {"wait", "list", "baseline"}
<1>1. attempt.key = k
  BY CallFacts DEF Suspended
<1>2. pc[k] = "wait" => attempt.commandId = k
  BY DEF CallInv, Phases
<1>3. pc[k] \in {"list", "baseline"} => attempt.mayHaveCommitted
  BY <1>1, ConstantsAssumption DEF CallInv, Phases, Names
<1> QED BY <1>1, <1>2, <1>3, ConstantsAssumption DEF CallInv, Unsent

\* executeAndReconcile up to its first await keeps the invariant.
LEMMA ExecuteKeeps ==
  ASSUME CallInv, NEW k \in Key, pc[k] \in {"open", "renew"}, attempt # NONE,
         NEW a, Same(attempt, a),
         NEW e \in [Key -> {"off", "keyed", "sealed"}], NEW busy \in BOOLEAN,
         Execute(k, a, e, busy), UNCHANGED <<ctx, sessions, command>>
  PROVE  Keeps
<1> DEFINE polling == WithStatus(a, "polling")
<1>0. pc[k] \in Suspended /\ attempt \in Attempt /\ attempt.key = k /\ running = TRUE
  BY CallFacts, Typed DEF Suspended
<1>1. polling \in Attempt /\ Same(attempt, polling) /\ polling.status = "polling"
  BY <1>0, StatusFacts, StatusSame, SameTransitive DEF Same, Status, InProgress
<1> HIDE DEF polling
<1>2. CASE busy
  <2>1. RetainFailure(k, polling, e, "plain", NONE) /\ net' = net
    BY <1>2 DEF Execute, polling
  <2>2. Stops(k, "plain")
    BY <1>0, <1>1, <2>1, RetainFailureStops DEF Errors
  <2>3. encryption' \in [Key -> {"off", "keyed", "sealed"}]
    BY <1>1, <2>1, EncryptionTyped
  <2>4. ~attempt.mayHaveCommitted /\ attempt.commandId = NONE => NothingEnqueued(k)
    BY <1>0, <2>1, UnsentFact DEF NothingEnqueued
  <2> QED BY <1>0, <2>1, <2>2, <2>3, <2>4, Typed, StopsKeep
<1>3. CASE ~busy
  <2>1. /\ attempt' = polling /\ encryption' = e /\ outcome' = outcome /\ running' = running
        /\ \/ pc' = [pc EXCEPT ![k] = "encrypt"] /\ net' = net
           \/ pc' = [pc EXCEPT ![k] = "post"] /\ net' = net \cup {k}
    BY <1>3 DEF Execute, Goto, polling
  <2>2. Names'
    BY <1>0, <1>1, <2>1 DEF CallInv, Names, Same
  <2>3. ~attempt.mayHaveCommitted /\ attempt.commandId = NONE => command[k] = "none" /\ k \notin net
    BY <1>0, UnsentFact
  <2>4. Unsent'
    BY <1>0, <1>1, <2>1, <2>3, Typed DEF CallInv, TypeOK, Unsent, Same
  <2>5. PICK step \in {"encrypt", "post"} : Continues(k, step)
    BY <1>0, <1>1, <2>1 DEF Continues, Same
  <2> QED BY <1>0, <2>1, <2>2, <2>4, <2>5, Typed, ContinuesPreserves DEF Keeps, Suspended
<1> QED BY <1>2, <1>3

(***************************************************************************)
(* One lemma per kind of step of a call.                                   *)
(***************************************************************************)
\* Every step of a call that goes to retainFailure, leaving Cloud alone or
\* having its POST rejected.
LEMMA FailKeeps ==
  ASSUME CallInv, NEW k \in Key, pc[k] \in Suspended,
         NEW error \in Errors, NEW fallback \in {NONE, "reconciliation_required"},
         Fail(k, error, fallback),
         command' = command, net' \in SUBSET net, ctx' \in Context, sessions' \in SUBSET Key,
         error \in {"plain", "reauthentication"} /\ attempt # NONE
             /\ ~attempt.mayHaveCommitted /\ attempt.commandId = NONE => NothingEnqueued(k),
         error = "safe" /\ TerminalFaults = {} => command[k] = "refused"
  PROVE  Keeps
<1>1. encryption' \in [Key -> {"off", "keyed", "sealed"}]
  BY Typed, EncryptionTyped DEF Fail
<1> QED BY <1>1, FailStops, StopsKeep

\* openControlSession answers.
LEMMA OpenReturnsKeeps ==
  ASSUME CallInv, NEW k \in Key, NEW mode \in {"off", "keyed"}, NEW busy \in BOOLEAN,
         OpenReturns(k, mode, busy)
  PROVE  Keeps
<1> DEFINE e == [encryption EXCEPT ![k] = mode]
<1>1. e \in [Key -> {"off", "keyed", "sealed"}] /\ pc[k] \in Suspended
  BY Typed DEF OpenReturns, Suspended
<1>2. CASE Current
  <2>1. attempt # NONE /\ attempt \in Attempt /\ attempt.key = k /\ CurrentBinding \in Key \cup {NONE}
    BY <1>1, <1>2, CallFacts, AttemptFields DEF Current, CurrentBinding, Suspended
  <2>2. Same(attempt, WithControlSession(attempt, k, CurrentBinding))
    BY <2>1, ControlSessionFacts DEF Same
  <2>3. Execute(k, WithControlSession(attempt, k, CurrentBinding), e, busy)
    BY <1>2 DEF OpenReturns
  <2>4. UNCHANGED <<ctx, sessions, command>> /\ pc[k] \in {"open", "renew"}
    BY DEF OpenReturns
  <2> QED BY <1>1, <2>1, <2>2, <2>3, <2>4, ExecuteKeeps
<1>3. CASE ~Current
  BY <1>1, <1>3, Typed, RejectKeeps DEF OpenReturns
<1> QED BY <1>2, <1>3

\* renewControlSession answers.
LEMMA RenewReturnsKeeps ==
  ASSUME CallInv, NEW k \in Key, NEW busy \in BOOLEAN, RenewReturns(k, busy)
  PROVE  Keeps
<1>1. pc[k] \in {"open", "renew"} /\ pc[k] \in Suspended
  BY DEF RenewReturns, Suspended
<1>2. CASE Current
  <2>1. attempt # NONE /\ Same(attempt, attempt)
    BY <1>2, Typed DEF Current, Same
  <2>2. Execute(k, attempt, encryption, busy) /\ UNCHANGED <<ctx, sessions, command>>
    BY <1>2 DEF RenewReturns
  <2> QED BY <1>1, <2>1, <2>2, Typed, ExecuteKeeps
<1>3. CASE ~Current
  BY <1>1, <1>3, Typed, RejectKeeps DEF RenewReturns
<1> QED BY <1>2, <1>3

\* Failures that leave the network alone.
LEMMA PlainFailuresKeep ==
  ASSUME CallInv, NEW k \in Key,
         \/ \E error \in {"plain", "reauthentication"} : OpenFails(k, error)
         \/ EncryptFails(k)
         \/ PostUncertain(k)
         \/ \E error \in {"ambiguous", "reauthentication"} : WaitFails(k, error)
         \/ \E error \in {"safe", "reauthentication"} : WaitRefused(k, error)
         \/ WaitFaulty(k)
         \/ \E error \in {"plain", "reauthentication"} : ReconcileFails(k, error)
  PROVE  Keeps
<1>1. pc[k] \in Suspended
  BY DEF OpenFails, EncryptFails, PostUncertain, WaitFails, WaitRefused, WaitFaulty,
         ReconcileFails, Suspended
<1>2. PICK error \in Errors, fallback \in {NONE, "reconciliation_required"} :
        /\ Fail(k, error, fallback)
        /\ UNCHANGED <<ctx, sessions, cloud>>
        /\ error = "safe" /\ TerminalFaults = {} => command[k] = "refused"
        /\ error = "plain" => pc[k] \in {"open", "renew", "list", "baseline"}
        /\ error = "reauthentication" => pc[k] \in {"open", "renew", "wait", "list", "baseline"}
  BY DEF OpenFails, EncryptFails, PostUncertain, WaitFails, WaitRefused, WaitFaulty,
         ReconcileFails, Errors
<1>3. error \in {"plain", "reauthentication"} /\ attempt # NONE
         /\ ~attempt.mayHaveCommitted /\ attempt.commandId = NONE => NothingEnqueued(k)
  BY <1>1, <1>2, UnsentFact DEF NothingEnqueued, cloud
<1> QED BY <1>1, <1>2, <1>3, Typed, FailKeeps DEF cloud

\* Cloud rejects the POST: nothing is enqueued.
LEMMA PostRejectedKeeps ==
  ASSUME CallInv, NEW k \in Key, NEW error \in {"plain", "reauthentication"},
         PostRejected(k, error)
  PROVE  Keeps
<1>1. pc[k] \in Suspended /\ pc[k] = "post" /\ k \in net /\ net' = net \ {k}
  BY DEF PostRejected, Suspended
<1>2. attempt # NONE /\ ~attempt.mayHaveCommitted /\ attempt.commandId = NONE
        => NothingEnqueued(k)
  BY <1>1, UnsentFact DEF NothingEnqueued
<1>3. Fail(k, error, NONE) /\ UNCHANGED <<ctx, sessions, command>> /\ error \in Errors
  BY DEF PostRejected, Errors
<1> QED BY <1>1, <1>2, <1>3, Typed, FailKeeps

\* The payload is encrypted and the POST leaves.
LEMMA EncryptReturnsKeeps ==
  ASSUME CallInv, NEW k \in Key, EncryptReturns(k)
  PROVE  Keeps
<1>1. pc[k] \in Suspended /\ pc[k] = "encrypt" /\ "post" \in Suspended
  BY DEF EncryptReturns, Suspended
<1>2. attempt # NONE => attempt \in Attempt /\ attempt.key = k
  BY <1>1, CallFacts
<1>3. Continues(k, "post") /\ UNCHANGED <<attempt, ctx, sessions, command, outcome>> /\ net' = net \cup {k}
  BY <1>2 DEF EncryptReturns, Continues, Goto
<1>4. encryption' \in [Key -> {"off", "keyed", "sealed"}]
  BY Typed DEF EncryptReturns
<1>5. Names'
  BY <1>3 DEF CallInv, Names
<1>6. Unsent'
  BY <1>1, <1>2, <1>3, Typed, UnsentFact DEF CallInv, TypeOK, Unsent, Continues
<1> QED BY <1>1, <1>3, <1>4, <1>5, <1>6, Typed, ContinuesPreserves DEF Keeps

\* Cloud accepts the POST: the attempt knows of its command.
LEMMA PostAcceptedKeeps ==
  ASSUME CallInv, NEW k \in Key, PostAccepted(k)
  PROVE  Keeps
<1>1. pc[k] \in Suspended /\ pc[k] = "post" /\ "wait" \in Suspended
  BY DEF PostAccepted, Suspended
<1>2. attempt # NONE => attempt \in Attempt /\ attempt.key = k
  BY <1>1, CallFacts
<1>3. /\ UNCHANGED <<ctx, sessions, encryption, net, command, outcome>>
      /\ pc' = [pc EXCEPT ![k] = "wait"] /\ running' = running
      /\ attempt' = IF attempt = NONE THEN NONE ELSE WithCommand(attempt, k)
  BY DEF PostAccepted, Goto, cloud
<1>4. /\ attempt # NONE => /\ attempt' = WithCommand(attempt, k)
                           /\ attempt' \in Attempt
                           /\ attempt'.key = k
                           /\ attempt'.commandId = k
                           /\ attempt'.controlSession = attempt.controlSession
                           /\ attempt'.sessionId = attempt.sessionId
                           /\ attempt'.mayHaveCommitted = attempt.mayHaveCommitted
      /\ attempt = NONE => attempt' = NONE
  BY <1>2, <1>3, CommandFacts
<1>5. Continues(k, "wait")
  BY <1>2, <1>3, <1>4 DEF Continues
<1>6. Names'
  BY <1>2, <1>3, <1>4 DEF CallInv, Names
<1>7. Unsent'
  BY <1>2, <1>3, <1>4, ConstantsAssumption DEF Unsent
<1> QED BY <1>1, <1>3, <1>4, <1>5, <1>6, <1>7, Typed, ContinuesPreserves DEF Keeps

\* The result of a created session is taken over, or blocks the attempt, or is fenced.
LEMMA TakeResultKeeps ==
  ASSUME CallInv, NEW k \in Key, pc[k] \in {"wait", "resume"}, command[k] = "created",
         NEW valid \in BOOLEAN, UNCHANGED <<ctx, sessions, cloud>>,
         IF Current THEN TakeResult(k, valid) ELSE Reject(k, encryption)
  PROVE  Keeps
<1>1. pc[k] \in Suspended /\ "list" \in Suspended
  BY DEF Suspended
<1>2. CASE ~Current
  BY <1>1, <1>2, Typed, RejectKeeps DEF cloud
<1>3. CASE Current /\ valid
  <2>1. attempt # NONE /\ attempt \in Attempt /\ attempt.key = k
    BY <1>1, <1>3, CallFacts DEF Current
  <2> DEFINE a == Committed(attempt, k, "reconciling")
  <2>2. /\ attempt' = a
        /\ pc' = [pc EXCEPT ![k] = "list"] /\ running' = running
        /\ UNCHANGED <<encryption, outcome>>
    BY <1>3 DEF TakeResult, Goto
  <2>3. /\ a \in Attempt
        /\ a.key = k
        /\ a.sessionId = k
        /\ a.mayHaveCommitted = TRUE
        /\ a.commandId = attempt.commandId
        /\ a.controlSession = attempt.controlSession
    BY <2>1, ResultFacts
  <2> HIDE DEF a
  <2>4. Continues(k, "list")
    BY <2>1, <2>2, <2>3 DEF Continues
  <2>5. Names'
    BY <2>1, <2>2, <2>3 DEF CallInv, Names, cloud
  <2>6. Unsent'
    BY <2>2, <2>3 DEF Unsent
  <2> QED BY <1>1, <2>2, <2>3, <2>4, <2>5, <2>6, Typed, ContinuesPreserves DEF Keeps, cloud
<1>4. CASE Current /\ ~valid
  <2> DEFINE a == Committed(attempt, attempt.sessionId, "reconciliation_required")
  <2>1. attempt # NONE /\ attempt \in Attempt /\ attempt.key = k
    BY <1>1, <1>4, CallFacts DEF Current
  <2>2. EndWith(k, a, encryption)
    BY <1>4 DEF TakeResult
  <2>3. /\ a \in Attempt
        /\ a.key = k
        /\ a.sessionId = attempt.sessionId
        /\ a.commandId = attempt.commandId
        /\ a.controlSession = attempt.controlSession
        /\ a.mayHaveCommitted = TRUE
        /\ a.status = "reconciliation_required"
    BY <2>1, InvalidFacts
  <2> HIDE DEF a
  <2>4. /\ attempt' = a /\ encryption' = encryption /\ outcome' = outcome
        /\ pc' = [pc EXCEPT ![k] = "idle"] /\ running' = FALSE
    BY <2>2 DEF EndWith, End
  <2>5. \A j \in Key : pc'[j] = "idle"
    BY <1>1, <2>4, CallFacts DEF Suspended, CallInv, TypeOK
  <2>6. TypeOK'
    BY <2>3, <2>4, Typed DEF CallInv, TypeOK, cloud, PC
  <2>7. InProgressIsRunning' /\ OwnCompletion' /\ OneCall' /\ Disposed' /\ Phases'
    BY <2>3, <2>4, <2>5 DEF InProgressIsRunning, OwnCompletion, OneCall, Disposed, Phases,
                            Suspended, InProgress
  <2>8. OpenOutcome' /\ Names' /\ Unsent'
    BY <2>1, <2>3, <2>4, NoneAssumption DEF CallInv, OpenOutcome, Names, Unsent, cloud
  <2>9. Concluded'
    BY <2>4, <2>5 DEF CallInv, Concluded, cloud
  <2>10. ReleasedNeverCreated => ReleasedNeverCreated'
    BY <2>4 DEF ReleasedNeverCreated, cloud
  <2> QED BY <2>6, <2>7, <2>8, <2>9, <2>10 DEF CallInv, Keeps
<1> QED BY <1>2, <1>3, <1>4

\* session.list answers: the attempt is rejected, found absent, or its baseline is awaited.
LEMMA ListReturnsKeeps ==
  ASSUME CallInv, NEW k \in Key, NEW found \in SUBSET Key, NEW bump \in BOOLEAN,
         ListReturns(k, found, bump)
  PROVE  Keeps
<1>1. pc[k] \in Suspended /\ pc[k] = "list" /\ "baseline" \in Suspended
  BY DEF ListReturns, Suspended
<1>2. sessions' \in SUBSET Key /\ UNCHANGED <<net, command>>
  BY Typed DEF ListReturns, cloud
<1>3. CASE ~Current
  BY <1>1, <1>2, <1>3, Typed, RejectKeeps DEF ListReturns
<1>4. CASE Current /\ ~SelectsCreated(found)
  <2>1. Fail(k, "plain", "reconciliation_required") /\ UNCHANGED ctx
    BY <1>4 DEF ListReturns
  <2>2. attempt # NONE /\ ~attempt.mayHaveCommitted /\ attempt.commandId = NONE
          => NothingEnqueued(k)
    BY <1>1, UnsentFact
  <2> QED BY <1>1, <1>2, <2>1, <2>2, Typed, FailKeeps DEF Errors
<1>5. CASE Current /\ SelectsCreated(found)
  <2>1. attempt # NONE /\ attempt \in Attempt /\ attempt.key = k /\ attempt.sessionId = k
    BY <1>1, <1>5, CallFacts DEF Current, CallInv, Phases
  <2>2. /\ Goto(k, "baseline") /\ ctx' = Bumped(bump)
        /\ UNCHANGED <<attempt, encryption, outcome>>
    BY <1>5 DEF ListReturns
  <2>3. Continues(k, "baseline") /\ ctx' \in Context
    BY <2>1, <2>2, Bumps DEF Continues, Goto
  <2>4. Names' /\ Unsent'
    BY <1>2, <2>1, <2>2, Typed DEF CallInv, TypeOK, Names, Unsent, Goto
  <2> QED BY <1>1, <1>2, <2>1, <2>2, <2>3, <2>4, Typed, ContinuesPreserves DEF Keeps
<1> QED BY <1>3, <1>4, <1>5

\* The baseline is established: the attempt succeeds.
LEMMA BaselineReturnsKeeps ==
  ASSUME CallInv, NEW k \in Key, BaselineReturns(k)
  PROVE  Keeps
<1>1. pc[k] \in Suspended /\ pc[k] = "baseline" /\ UNCHANGED <<ctx, sessions, net, command>>
  BY DEF BaselineReturns, Suspended, cloud
<1>2. CASE ~Current
  BY <1>1, <1>2, Typed, RejectKeeps DEF BaselineReturns
<1>3. CASE Current
  <2>1. /\ attempt # NONE /\ attempt \in Attempt /\ attempt.key = k
        /\ attempt.sessionId = k /\ outcome[k] = "open"
    BY <1>1, <1>3, CallFacts DEF Current, CallInv, Phases
  <2>2. command[k] = "created"
    BY <2>1, ConstantsAssumption DEF CallInv, Names
  <2>3. DisposeAndClear(k, attempt, encryption, "succeeded")
    BY <1>3 DEF BaselineReturns
  <2>4. /\ attempt' = NONE /\ outcome' = [outcome EXCEPT ![k] = "succeeded"]
        /\ \/ pc' = [pc EXCEPT ![k] = "idle"] /\ running' = FALSE
           \/ pc' = [pc EXCEPT ![k] = "dispose"] /\ running' = running
        /\ encryption' \in [Key -> {"off", "keyed", "sealed"}]
    BY <2>1, <2>3, Typed DEF DisposeAndClear, Goto, End
  <2>5. /\ \A j \in Key : j # k => pc'[j] = "idle"
        /\ \/ pc'[k] = "idle" /\ running' = FALSE
           \/ pc'[k] = "dispose" /\ running' = TRUE
    BY <1>1, <2>4, CallFacts DEF CallInv, TypeOK, Suspended
  <2>6. TypeOK'
    BY <1>1, <2>4, Typed, CallFacts DEF CallInv, TypeOK, PC, Suspended
  <2>7. InProgressIsRunning' /\ OwnCompletion' /\ OneCall' /\ Disposed' /\ Phases' /\ Names' /\ Unsent'
    BY <2>4, <2>5 DEF InProgressIsRunning, OwnCompletion, OneCall, Disposed, Phases, Names, Unsent
  <2>8. OpenOutcome'
    BY <2>1, <2>4 DEF CallInv, TypeOK, OpenOutcome
  <2>9. Concluded'
    <3>1. outcome'[k] = "succeeded" /\ \A j \in Key : j # k => outcome'[j] = outcome[j]
      BY <2>4 DEF CallInv, TypeOK
    <3> QED BY <1>1, <2>2, <2>5, <3>1 DEF CallInv, Concluded
  <2>10. ReleasedNeverCreated => ReleasedNeverCreated'
    BY <1>1, <2>4 DEF CallInv, TypeOK, ReleasedNeverCreated
  <2> QED BY <2>6, <2>7, <2>8, <2>9, <2>10 DEF CallInv, Keeps
<1> QED BY <1>2, <1>3

\* The DELETE of the control session is answered.
LEMMA DisposeReturnsKeeps ==
  ASSUME CallInv, NEW k \in Key, DisposeReturns(k)
  PROVE  Keeps
<1>1. /\ pc[k] = "dispose" /\ pc[k] # "idle" /\ pc' = [pc EXCEPT ![k] = "idle"] /\ running' = FALSE
      /\ UNCHANGED <<attempt, ctx, sessions, encryption, net, command, outcome>>
  BY DEF DisposeReturns, End, cloud
<1>2. attempt = NONE /\ \A j \in Key : pc'[j] = "idle"
  BY <1>1, CallFacts DEF CallInv, TypeOK, Disposed
<1>3. TypeOK'
  BY <1>1 DEF CallInv, TypeOK, PC
<1>4. InProgressIsRunning' /\ OwnCompletion' /\ OneCall' /\ Disposed' /\ Phases' /\ Names' /\ Unsent'
  BY <1>1, <1>2 DEF InProgressIsRunning, OwnCompletion, OneCall, Disposed, Phases, Names, Unsent
<1>5. OpenOutcome' /\ Concluded'
  BY <1>1, <1>2 DEF CallInv, OpenOutcome, Concluded
<1>6. ReleasedNeverCreated => ReleasedNeverCreated'
  BY <1>1 DEF ReleasedNeverCreated
<1> QED BY <1>3, <1>4, <1>5, <1>6 DEF CallInv, Keeps

\* reconcile() without a handler: the attempt is blocked already and stays so.
LEMMA UnhandledKeeps ==
  ASSUME CallInv, NEW k \in Key, ResumeFails(k) \/ ListUnknownFails(k)
  PROVE  Keeps
<1>1. /\ pc[k] \in Suspended /\ pc[k] \in {"resume", "listUnknown"}
      /\ EndWith(k, attempt, encryption) /\ UNCHANGED <<ctx, sessions, net, command>>
  BY DEF ResumeFails, ListUnknownFails, Suspended, cloud
<1>2. attempt # NONE => attempt \in Attempt /\ attempt.status \in Reconcilable
  BY <1>1, Typed DEF CallInv, Phases
<1>3. Stops(k, "unhandled") /\ encryption' = encryption
  BY <1>1, <1>2 DEF EndWith, End, Stops, Same, Status, InProgress, Reconcilable
<1> QED BY <1>1, <1>3, Typed, StopsKeep

\* session.list answers an attempt without a session ID, which stays blocked.
LEMMA ListUnknownReturnsKeeps ==
  ASSUME CallInv, NEW k \in Key, NEW found \in SUBSET Key, ListUnknownReturns(k, found)
  PROVE  Keeps
<1>1. /\ pc[k] \in Suspended /\ pc[k] = "listUnknown"
      /\ sessions' \in SUBSET Key /\ UNCHANGED <<ctx, net, command>>
  BY Typed DEF ListUnknownReturns, Suspended, cloud
<1>2. CASE ~Current
  BY <1>1, <1>2, Typed, RejectKeeps DEF ListUnknownReturns
<1>3. CASE Current
  <2>1. Fail(k, "plain", "reconciliation_required")
    BY <1>3 DEF ListUnknownReturns
  <2>2. attempt # NONE /\ attempt \in Attempt /\ attempt.status \in Reconcilable
    BY <1>1, <1>3, Typed DEF Current, CallInv, Phases
  <2>3. Verdict(attempt, "plain", "reconciliation_required") = "reconciliation_required"
    <3>1. NONE # "reconciliation_required"
      BY NoneAssumption DEF Status, Reconcilable
    <3> QED BY <2>2, <3>1 DEF Verdict, SafeToRelease, MayHaveEffect
  <2>4. EndWith(k, WithStatus(attempt, "reconciliation_required"), encryption)
    BY <2>1, <2>2, <2>3 DEF Fail, RetainFailure
  <2>5. Reject(k, encryption)
    BY <2>2, <2>4 DEF Reject, Fenced
  <2> QED BY <1>1, <2>5, Typed, RejectKeeps
<1> QED BY <1>2, <1>3

\* Every step of a call keeps the invariant.
LEMMA CallStepKeeps ==
  ASSUME CallInv, NEW k \in Key, CallStep(k)
  PROVE  Keeps
<1>1. ASSUME NEW mode \in {"off", "keyed"}, NEW busy \in BOOLEAN, OpenReturns(k, mode, busy)
      PROVE  Keeps
  BY <1>1, OpenReturnsKeeps
<1>2. ASSUME NEW busy \in BOOLEAN, RenewReturns(k, busy)
      PROVE  Keeps
  BY <1>2, RenewReturnsKeeps
<1>3. CASE \/ \E error \in {"plain", "reauthentication"} : OpenFails(k, error)
           \/ EncryptFails(k)
           \/ PostUncertain(k)
           \/ \E error \in {"ambiguous", "reauthentication"} : WaitFails(k, error)
           \/ \E error \in {"safe", "reauthentication"} : WaitRefused(k, error)
           \/ WaitFaulty(k)
           \/ \E error \in {"plain", "reauthentication"} : ReconcileFails(k, error)
  BY <1>3, PlainFailuresKeep
<1>4. CASE EncryptReturns(k)
  BY <1>4, EncryptReturnsKeeps
<1>5. CASE PostAccepted(k)
  BY <1>5, PostAcceptedKeeps
<1>6. ASSUME NEW error \in {"plain", "reauthentication"}, PostRejected(k, error)
      PROVE  Keeps
  BY <1>6, PostRejectedKeeps
<1>7. ASSUME NEW valid \in BOOLEAN, WaitSucceeds(k, valid) \/ ResumeReturns(k, valid)
      PROVE  Keeps
  <2>1. /\ pc[k] \in {"wait", "resume"} /\ command[k] = "created"
        /\ UNCHANGED <<ctx, sessions, cloud>>
        /\ IF Current THEN TakeResult(k, valid) ELSE Reject(k, encryption)
    BY <1>7 DEF WaitSucceeds, ResumeReturns
  <2> QED BY <2>1, TakeResultKeeps
<1>8. ASSUME NEW found \in SUBSET Key, NEW bump \in BOOLEAN, ListReturns(k, found, bump)
      PROVE  Keeps
  BY <1>8, ListReturnsKeeps
<1>9. CASE BaselineReturns(k)
  BY <1>9, BaselineReturnsKeeps
<1>10. CASE DisposeReturns(k)
  BY <1>10, DisposeReturnsKeeps
<1>11. CASE ResumeFails(k) \/ ListUnknownFails(k)
  BY <1>11, UnhandledKeeps
<1>12. ASSUME NEW found \in SUBSET Key, ListUnknownReturns(k, found)
       PROVE  Keeps
  BY <1>12, ListUnknownReturnsKeeps
<1> QED BY <1>1, <1>2, <1>3, <1>4, <1>5, <1>6, <1>7, <1>8, <1>9, <1>10, <1>11, <1>12
        DEF CallStep

-----------------------------------------------------------------------------
(* Steps that start a call. *)

\* While nothing runs every call is idle.
LEMMA IdleFacts ==
  ASSUME CallInv, ~running
  PROVE  /\ pc = [k \in Key |-> "idle"]
         /\ \A k \in Key : pc[k] = "idle"
  BY DEF CallInv, TypeOK, OneCall

\* submit() of a new attempt keeps the invariant.
LEMMA SubmitNewKeeps ==
  ASSUME CallInv, NEW k \in Key, NEW bump \in BOOLEAN, SubmitNew(k, bump)
  PROVE  Keeps
<1>1. /\ attempt = NONE /\ outcome[k] = "unused" /\ \A j \in Key : pc[j] = "idle"
      /\ ctx' = Bumped(bump)
      /\ running' = TRUE /\ pc' = [pc EXCEPT ![k] = "open"]
      /\ outcome' = [outcome EXCEPT ![k] = "open"]
      /\ UNCHANGED <<sessions, encryption, net, command>>
  BY IdleFacts DEF SubmitNew, Ready, cloud
<1>2. ctx' \in Context
  BY <1>1, Bumps
<1>3. /\ attempt' \in Attempt /\ attempt' # NONE
      /\ attempt'.key = k /\ attempt'.controlSession = NONE /\ attempt'.commandId = NONE
      /\ attempt'.sessionId = NONE /\ attempt'.status = "submitting"
      /\ attempt'.mayHaveCommitted = FALSE
  <2> DEFINE a == [key |-> k, context |-> ctx', binding |-> NONE, controlSession |-> NONE,
                   commandId |-> NONE, sessionId |-> NONE, mayHaveCommitted |-> FALSE,
                   status |-> "submitting"]
  <2>1. attempt' = a
    BY DEF SubmitNew
  <2>2. "submitting" \in Status
    BY DEF Status, InProgress
  <2>3. a \in Attempt
    BY <1>2, <2>2 DEF Attempt
  <2> QED BY <2>1, <2>3, NoneAssumption
<1>4. pc'[k] = "open" /\ \A j \in Key : j # k => pc'[j] = "idle"
  BY <1>1 DEF CallInv, TypeOK
<1>5. outcome'[k] = "open" /\ \A j \in Key : j # k => outcome'[j] = outcome[j]
  BY <1>1 DEF CallInv, TypeOK
<1>6. TypeOK'
  <2>1. pc' \in [Key -> PC]
    BY <1>1 DEF CallInv, TypeOK, PC, Suspended
  <2>2. outcome' \in [Key -> {"unused", "open", "succeeded", "released", "abandoned"}]
    BY <1>1 DEF CallInv, TypeOK
  <2> QED BY <1>1, <1>2, <1>3, <2>1, <2>2, Typed DEF TypeOK
<1>7. InProgressIsRunning' /\ OwnCompletion' /\ OneCall' /\ Disposed' /\ Phases'
  BY <1>1, <1>3, <1>4 DEF InProgressIsRunning, OwnCompletion, OneCall, Disposed, Phases, Suspended
<1>8. OpenOutcome'
  BY <1>1, <1>3, <1>5 DEF CallInv, OpenOutcome
<1>9. Names'
  BY <1>3 DEF Names
<1>10. Unsent'
  BY <1>1, <1>3, <1>4 DEF CallInv, Concluded, Unsent
<1>11. Concluded'
  BY <1>1, <1>4, <1>5 DEF CallInv, Concluded
<1>12. ReleasedNeverCreated => ReleasedNeverCreated'
  BY <1>1, <1>5 DEF ReleasedNeverCreated
<1> QED BY <1>6, <1>7, <1>8, <1>9, <1>10, <1>11, <1>12 DEF CallInv, Keeps

\* A retained attempt is taken up again, by submit or by reconcile.
LEMMA TakenUpKeeps ==
  ASSUME CallInv, ~running, attempt # NONE,
         NEW step \in Suspended, NEW b \in Attempt, Same(attempt, b), attempt' = b,
         pc' = [pc EXCEPT ![attempt.key] = step], running' = TRUE,
         UNCHANGED <<ctx, sessions, encryption, net, command, outcome>>,
         step \notin {"wait", "baseline", "encrypt", "post"},
         step = "list" => attempt.sessionId = attempt.key,
         step \in {"resume", "listUnknown"} => b.status \in Reconcilable,
         step \in {"open", "renew"} => attempt.status = "reauthentication_required"
  PROVE  Keeps
<1> DEFINE k == attempt.key
<1>1. attempt \in Attempt /\ k \in Key /\ b # NONE /\ step # "idle" /\ step # "dispose"
  BY Typed, AttemptFields DEF Suspended
<1>2. \A j \in Key : pc[j] = "idle"
  BY IdleFacts
<1>3. /\ b.key = k /\ b.commandId = attempt.commandId /\ b.sessionId = attempt.sessionId
      /\ b.mayHaveCommitted = attempt.mayHaveCommitted
      /\ b.controlSession \in {attempt.controlSession, k}
  BY DEF Same
<1> HIDE DEF k
<1>4. pc'[k] = step /\ \A j \in Key : j # k => pc'[j] = "idle"
  BY <1>1, <1>2 DEF CallInv, TypeOK, k
<1>5. TypeOK'
  <2>1. pc' \in [Key -> PC]
    BY <1>1 DEF CallInv, TypeOK, PC, k
  <2> QED BY <2>1 DEF CallInv, TypeOK
<1>6. InProgressIsRunning' /\ OwnCompletion' /\ OneCall' /\ Disposed'
  BY <1>1, <1>3, <1>4 DEF InProgressIsRunning, OwnCompletion, OneCall, Disposed, Suspended
<1>7. Phases'
  BY <1>1, <1>3, <1>4, <1>2 DEF Phases, k
<1>8. OpenOutcome'
  BY <1>1, <1>3 DEF CallInv, OpenOutcome, k
<1>9. Names'
  BY <1>1, <1>3 DEF CallInv, Names, k
<1>10. Unsent'
  <2>1. SUFFICES ASSUME ~attempt.mayHaveCommitted, attempt.commandId = NONE,
                        step \in {"open", "renew"}
                 PROVE  command[k] = "none" /\ k \notin net
    BY <1>3, <1>4, <1>1 DEF Unsent
  <2>2. pc[k] = "idle" /\ attempt.status = "reauthentication_required"
    BY <1>1, <1>2, <2>1
  <2> QED BY <2>1, <2>2 DEF CallInv, Unsent, k
<1>11. Concluded'
  <2>1. outcome[k] = "open"
    BY <1>1 DEF CallInv, OpenOutcome, k
  <2> QED BY <1>4, <2>1 DEF CallInv, Concluded
<1>12. ReleasedNeverCreated => ReleasedNeverCreated'
  BY DEF ReleasedNeverCreated
<1> QED BY <1>5, <1>6, <1>7, <1>8, <1>9, <1>10, <1>11, <1>12 DEF CallInv, Keeps

\* submit() of the retained attempt keeps the invariant.
LEMMA SubmitRetryKeeps ==
  ASSUME CallInv, SubmitRetry
  PROVE  Keeps
<1>1. /\ ~running /\ attempt # NONE /\ attempt.status = "reauthentication_required"
      /\ attempt' = attempt /\ running' = TRUE
      /\ UNCHANGED <<ctx, sessions, encryption, net, command, outcome>>
  BY DEF SubmitRetry, Ready, Current, cloud
<1>2. attempt \in Attempt /\ Same(attempt, attempt)
  BY <1>1, Typed DEF Same
<1>3. PICK step \in {"open", "renew"} : pc' = [pc EXCEPT ![attempt.key] = step]
  BY DEF SubmitRetry
<1>4. step \in Suspended
  BY <1>3 DEF Suspended
<1> QED BY <1>1, <1>2, <1>3, <1>4, TakenUpKeeps

\* The page fences the attempt, or leaves it alone.
Fences ==
    \/ attempt' = attempt
    \/ /\ attempt # NONE /\ Same(attempt, attempt')
       /\ attempt'.status = "reconciliation_required"

\* An event of the page that at most fences the attempt keeps the invariant.
LEMMA FencesKeep ==
  ASSUME CallInv, Fences, UNCHANGED <<running, pc, net, command, outcome>>,
         ctx' \in Context, sessions' \in SUBSET Key,
         encryption' \in [Key -> {"off", "keyed", "sealed"}]
  PROVE  Keeps
<1>1. ReleasedNeverCreated => ReleasedNeverCreated'
  BY DEF ReleasedNeverCreated
<1>2. CASE attempt' = attempt
  <2>1. TypeOK'
    BY <1>2 DEF CallInv, TypeOK
  <2>2. InProgressIsRunning' /\ OwnCompletion' /\ OneCall' /\ Disposed' /\ OpenOutcome'
    BY <1>2 DEF CallInv, InProgressIsRunning, OwnCompletion, OneCall, Disposed, OpenOutcome
  <2>3. Names' /\ Phases' /\ Unsent' /\ Concluded'
    BY <1>2 DEF CallInv, Names, Phases, Unsent, Concluded
  <2> QED BY <1>1, <2>1, <2>2, <2>3 DEF CallInv, Keeps
<1>3. CASE attempt # NONE /\ Same(attempt, attempt') /\ attempt'.status = "reconciliation_required"
  <2>1. attempt' \in Attempt /\ attempt' # NONE
    BY <1>3, NoneAssumption DEF Same
  <2>2. TypeOK'
    BY <2>1 DEF CallInv, TypeOK
  <2>3. InProgressIsRunning'
    BY <1>3 DEF InProgressIsRunning, InProgress
  <2>4. OwnCompletion' /\ OneCall' /\ Disposed' /\ OpenOutcome'
    BY <1>3, <2>1 DEF CallInv, OwnCompletion, OneCall, Disposed, OpenOutcome, Same
  <2>5. Names'
    BY <1>3, <2>1 DEF CallInv, Names, Same
  <2>6. Phases'
    BY <1>3, <2>1 DEF CallInv, Phases, Same, Reconcilable
  <2>7. Unsent'
    BY <1>3, <2>1 DEF CallInv, Unsent, Same
  <2>8. Concluded'
    BY DEF CallInv, Concluded
  <2> QED BY <1>1, <2>2, <2>3, <2>4, <2>5, <2>6, <2>7, <2>8 DEF CallInv, Keeps
<1> QED BY <1>2, <1>3 DEF Fences

\* Fencing once or twice is a fence.
LEMMA FencedFacts ==
  ASSUME CallInv
  PROVE  /\ Fenced(attempt) \in Attempt \cup {NONE}
         /\ attempt' = Fenced(attempt) => Fences
         /\ attempt' = Fenced(Fenced(attempt)) => Fences
<1>1. CASE attempt = NONE
  BY <1>1 DEF Fenced, Fences
<1>2. CASE attempt # NONE
  <2> DEFINE a == WithStatus(attempt, "reconciliation_required")
             b == WithStatus(a, "reconciliation_required")
  <2>1. "reconciliation_required" \in Status /\ attempt \in Attempt
    BY <1>2, Typed DEF Status, Reconcilable
  <2>2. a \in Attempt /\ a.status = "reconciliation_required" /\ Same(attempt, a) /\ a # NONE
    BY <2>1, StatusFacts, StatusSame, NoneAssumption
  <2>3. Fenced(attempt) = a /\ Fenced(a) = b
    BY <1>2, <2>2 DEF Fenced
  <2> HIDE DEF a
  <2>4. b.status = "reconciliation_required" /\ Same(attempt, b)
    BY <2>1, <2>2, StatusFacts, StatusSame, SameTransitive
  <2> HIDE DEF b
  <2> QED BY <1>2, <2>2, <2>3, <2>4 DEF Fences
<1> QED BY <1>1, <1>2

\* reconcile() keeps the invariant.
LEMMA ReconcileKeeps ==
  ASSUME CallInv, Reconcile
  PROVE  Keeps
<1>1. /\ ~running /\ attempt # NONE /\ attempt \in Attempt /\ attempt.status \in Reconcilable
      /\ UNCHANGED <<ctx, sessions, encryption, net, command, outcome>>
  BY Typed DEF Reconcile, Ready, cloud
<1>2. CASE ~Current
  <2>1. attempt' = Fenced(attempt) /\ UNCHANGED <<running, pc>>
    BY <1>2 DEF Reconcile
  <2> QED BY <1>1, <2>1, FencedFacts, Typed, FencesKeep
<1>3. CASE Current
  <2>1. running' = TRUE /\ pc' = [pc EXCEPT ![attempt.key] = ResumePoint]
    BY <1>3 DEF Reconcile
  <2>2. attempt.sessionId # NONE => attempt.sessionId = attempt.key
    BY <1>1 DEF CallInv, Names
  <2>3. ResumePoint \in {"list", "resume", "listUnknown"} /\ (ResumePoint = "list" => attempt.sessionId # NONE)
    BY DEF ResumePoint
  <2>4. CASE ResumePoint = "list"
    <3>1. attempt' = WithStatus(attempt, "reconciling")
      BY <1>3, <2>4 DEF Reconcile
    <3>2. WithStatus(attempt, "reconciling") \in Attempt /\ Same(attempt, WithStatus(attempt, "reconciling"))
      BY <1>1, StatusFacts, StatusSame DEF Status, InProgress
    <3> QED BY <1>1, <2>1, <2>2, <2>3, <2>4, <3>1, <3>2, TakenUpKeeps DEF Suspended
  <2>5. CASE ResumePoint # "list"
    <3>1. attempt' = attempt /\ Same(attempt, attempt)
      BY <1>1, <1>3, <2>5 DEF Reconcile, Same
    <3> QED BY <1>1, <2>1, <2>3, <2>5, <3>1, TakenUpKeeps DEF Suspended
  <2> QED BY <2>4, <2>5
<1> QED BY <1>2, <1>3

-----------------------------------------------------------------------------
(* Steps of Cloud and Desktop, and of the page. *)

\* What Cloud and Desktop do keeps the invariant.
LEMMA ExternalKeeps ==
  ASSUME CallInv, NEW k \in Key, External(k)
  PROVE  Keeps
<1>1. UNCHANGED <<attempt, running, pc, encryption, outcome, ctx, sessions>>
  BY DEF External, CloudReceive, DesktopExecute, call
<1>2. /\ net' \in SUBSET net /\ command' \in [Key -> {"none", "queued", "created", "refused"}]
      /\ \A j \in Key : \/ command'[j] = command[j]
                        \/ j = k /\ k \in net /\ command[k] = "none" /\ command'[k] = "queued"
                        \/ j = k /\ command[k] = "queued"
      /\ k \in net => k \notin net' \/ command[k] = "queued"
  BY Typed DEF External, CloudReceive, DesktopExecute
<1>3. TypeOK'
  BY <1>1, <1>2 DEF CallInv, TypeOK
<1>4. InProgressIsRunning' /\ OwnCompletion' /\ OneCall' /\ Disposed' /\ OpenOutcome' /\ Phases'
  BY <1>1 DEF CallInv, InProgressIsRunning, OwnCompletion, OneCall, Disposed, OpenOutcome, Phases
<1>5. Names'
  <2>1. attempt # NONE => attempt.key \in Key
    BY Typed, AttemptFields
  <2> QED BY <1>1, <1>2, <2>1 DEF CallInv, Names
<1>6. Unsent'
  <2>1. attempt # NONE => attempt.key \in Key
    BY Typed, AttemptFields
  <2> QED BY <1>1, <1>2, <2>1 DEF CallInv, Unsent
<1>7. Concluded'
  BY <1>1, <1>2 DEF CallInv, Concluded
<1>8. ReleasedNeverCreated => ReleasedNeverCreated'
  BY <1>1, <1>2 DEF ReleasedNeverCreated
<1> QED BY <1>3, <1>4, <1>5, <1>6, <1>7, <1>8 DEF CallInv, Keeps

\* resetRemoteBrowser leaves a typed page behind.
LEMMA ResetTyped ==
  ASSUME CallInv, NEW a, NEW l \in Login \cup {NONE}, NEW d \in Device \cup {NONE}, Reset(a, l, d)
  PROVE  /\ attempt' = Fenced(a) /\ ctx' \in Context /\ sessions' \in SUBSET Key
         /\ encryption' \in [Key -> {"off", "keyed", "sealed"}]
  BY Typed DEF Reset, Context

\* logout drops the attempt and keeps the invariant.
LEMMA LogoutKeeps ==
  ASSUME CallInv, Logout
  PROVE  Keeps
<1>1. UNCHANGED <<running, pc, net, command>> /\ attempt' = NONE
  BY DEF Logout, Reset, Fenced, cloud
<1>2. /\ ctx' \in Context /\ sessions' \in SUBSET Key
      /\ encryption' \in [Key -> {"off", "keyed", "sealed"}]
  BY ResetTyped DEF Logout
<1>3. outcome' \in [Key -> {"unused", "open", "succeeded", "released", "abandoned"}]
  BY DEF Logout, CallInv, TypeOK
<1>4. \A k \in Key : \/ outcome'[k] = outcome[k] /\ (attempt = NONE \/ attempt.key # k)
                     \/ attempt # NONE /\ attempt.key = k /\ outcome'[k] = "abandoned"
  BY DEF Logout, CallInv, TypeOK
<1>5. TypeOK'
  BY <1>1, <1>2, <1>3 DEF CallInv, TypeOK
<1>6. InProgressIsRunning' /\ OwnCompletion' /\ OneCall' /\ Disposed' /\ Phases' /\ Names' /\ Unsent'
  BY <1>1 DEF CallInv, InProgressIsRunning, OwnCompletion, OneCall, Disposed, Phases, Names, Unsent
<1>7. OpenOutcome'
  BY <1>1, <1>4 DEF CallInv, OpenOutcome
<1>8. Concluded'
  BY <1>1, <1>4 DEF CallInv, Concluded
<1>9. ReleasedNeverCreated => ReleasedNeverCreated'
  BY <1>1, <1>4 DEF ReleasedNeverCreated
<1> QED BY <1>5, <1>6, <1>7, <1>8, <1>9 DEF CallInv, Keeps

\* loadDevices fences the attempt or leaves it alone.
LEMMA RefreshDevicesFences ==
  ASSUME CallInv, NEW found \in SUBSET Device, NEW reset \in BOOLEAN, RefreshDevices(found, reset)
  PROVE  /\ Fences /\ UNCHANGED <<running, pc, net, command, outcome>>
         /\ ctx' \in Context /\ sessions' \in SUBSET Key
         /\ encryption' \in [Key -> {"off", "keyed", "sealed"}]
<1>1. UNCHANGED <<running, pc, net, command, outcome>>
  BY DEF RefreshDevices, cloud
<1>2. PICK d \in Device \cup {NONE}, fenced \in {attempt, Fenced(attempt)} :
        \/ reset /\ Reset(fenced, ctx.login, d)
        \/ ~reset /\ attempt' = fenced /\ ctx' = [ctx EXCEPT !.device = d]
              /\ UNCHANGED <<sessions, encryption>>
  BY DEF RefreshDevices
<1>3. ctx.login \in Login \cup {NONE}
  BY Typed DEF Context
<1>4. CASE Reset(fenced, ctx.login, d)
  BY <1>1, <1>2, <1>3, <1>4, ResetTyped, FencedFacts
<1>5. CASE attempt' = fenced /\ ctx' = [ctx EXCEPT !.device = d] /\ UNCHANGED <<sessions, encryption>>
  BY <1>1, <1>2, <1>5, Typed, FencedFacts DEF Context, Fences
<1> QED BY <1>2, <1>4, <1>5

\* Every event of the page keeps the invariant.
LEMMA PageKeeps ==
  ASSUME CallInv, Page
  PROVE  Keeps
<1>0. ctx.login \in Login \cup {NONE} /\ ctx.device \in Device \cup {NONE} /\ ctx.generation \in Nat
  BY Typed DEF Context
<1>1. CASE Logout
  BY <1>1, LogoutKeeps
<1>2. ASSUME NEW found \in SUBSET Device, NEW reset \in BOOLEAN, RefreshDevices(found, reset)
      PROVE  Keeps
  BY <1>2, RefreshDevicesFences, FencesKeep
<1>3. CASE ShowDeviceList
  BY <1>0, <1>3, ResetTyped, FencedFacts, FencesKeep DEF ShowDeviceList, cloud
<1>4. ASSUME NEW l \in Login, SwitchOrganization(l)
      PROVE  Keeps
  BY <1>0, <1>4, ResetTyped, FencedFacts, FencesKeep DEF SwitchOrganization, cloud
<1>5. ASSUME NEW d \in Device, NEW bump \in BOOLEAN, OpenDevice(d, bump)
      PROVE  Keeps
  <2>0. Bumped(bump) \in Context
    BY Bumps
  <2>1. attempt = NONE /\ attempt' = NONE /\ UNCHANGED <<running, pc, net, command, outcome>>
    BY <1>5 DEF OpenDevice, Reset, Fenced, cloud
  <2>2. /\ ctx' \in Context /\ sessions' \in SUBSET Key
        /\ encryption' \in [Key -> {"off", "keyed", "sealed"}]
    BY <1>0, <1>5, <2>0, Typed DEF OpenDevice, Reset, Context
  <2> QED BY <2>1, <2>2, FencesKeep DEF Fences
<1>6. CASE CloseSelected
  <2>1. ctx' \in Context /\ UNCHANGED <<attempt, running, pc, encryption, outcome, sessions, net, command>>
    BY <1>6, Bumps DEF CloseSelected, call, cloud
  <2> QED BY <2>1, Typed, FencesKeep DEF Fences
<1>7. CASE RefreshDevicesFails
  <2>1. ctx' \in Context /\ UNCHANGED <<attempt, running, pc, encryption, outcome, sessions, net, command>>
    BY <1>7, Typed DEF RefreshDevicesFails, call, cloud, Context
  <2> QED BY <2>1, Typed, FencesKeep DEF Fences
<1>8. ASSUME NEW w \in Workspace, ActivateWorkspace(w)
      PROVE  Keeps
  <2>1. Bumped(TRUE) \in Context
    BY Bumps
  <2>2. /\ ctx' \in Context /\ sessions' \in SUBSET Key
        /\ UNCHANGED <<attempt, running, pc, encryption, outcome, net, command>>
    BY <1>8, <2>1 DEF ActivateWorkspace, call, cloud, Context
  <2> QED BY <2>2, Typed, FencesKeep DEF Fences
<1>9. ASSUME NEW l \in Login, SignIn(l)
      PROVE  Keeps
  <2>1. ctx' \in Context /\ UNCHANGED <<attempt, running, pc, encryption, outcome, sessions, net, command>>
    BY <1>9, Typed DEF SignIn, call, cloud, Context
  <2> QED BY <2>1, Typed, FencesKeep DEF Fences
<1> QED BY <1>1, <1>2, <1>3, <1>4, <1>5, <1>6, <1>7, <1>8, <1>9 DEF Page

-----------------------------------------------------------------------------
(* The theorems. *)

\* The invariant holds initially.
LEMMA InitCallInv == Init => CallInv /\ ReleasedNeverCreated
<1> SUFFICES ASSUME Init PROVE CallInv /\ ReleasedNeverCreated
  OBVIOUS
<1>1. TypeOK
  BY DEF Init, TypeOK, PC, Context
<1>2. InProgressIsRunning /\ OwnCompletion /\ OneCall /\ Disposed /\ OpenOutcome
  BY DEF Init, InProgressIsRunning, OwnCompletion, OneCall, Disposed, OpenOutcome, Suspended
<1>3. Names /\ Phases /\ Unsent /\ Concluded /\ ReleasedNeverCreated
  BY DEF Init, Names, Phases, Unsent, Concluded, ReleasedNeverCreated
<1> QED BY <1>1, <1>2, <1>3 DEF CallInv

\* Every step keeps the invariant.
LEMMA NextKeeps == CallInv /\ [Next]_vars => Keeps
<1> SUFFICES ASSUME CallInv, [Next]_vars PROVE Keeps
  OBVIOUS
<1>1. ASSUME NEW k \in Key, NEW bump \in BOOLEAN, SubmitNew(k, bump)
      PROVE  Keeps
  BY <1>1, SubmitNewKeeps
<1>2. CASE SubmitRetry
  BY <1>2, SubmitRetryKeeps
<1>3. CASE Reconcile
  BY <1>3, ReconcileKeeps
<1>4. ASSUME NEW k \in Key, CallStep(k)
      PROVE  Keeps
  BY <1>4, CallStepKeeps
<1>5. ASSUME NEW k \in Key, External(k)
      PROVE  Keeps
  BY <1>5, ExternalKeeps
<1>6. CASE Page
  BY <1>6, PageKeeps
<1>7. CASE UNCHANGED vars
  BY <1>7, Typed, FencesKeep DEF Fences, vars
<1> QED BY <1>1, <1>2, <1>3, <1>4, <1>5, <1>6, <1>7 DEF Next, Submit

\* The inductive invariant of calls, attempts and commands, whatever terminals look like.
THEOREM CallInvariant == Spec => []CallInv
<1>1. Init => CallInv
  BY InitCallInv
<1>2. CallInv /\ [Next]_vars => CallInv'
  BY NextKeeps DEF Keeps
<1> QED BY <1>1, <1>2, PTL DEF Spec

\* Every variable always has its type.
THEOREM TypeCorrect == Spec => []TypeOK
<1>1. CallInv => TypeOK
  BY DEF CallInv
<1> QED BY <1>1, CallInvariant, PTL

\* An attempt whose status says "in progress" always has a call working for it, so the
\* page is never locked by an attempt nobody works on (submit and reconcile refuse it).
THEOREM NeverStuckInProgress == Spec => []InProgressIsRunning
<1>1. CallInv => InProgressIsRunning
  BY DEF CallInv
<1> QED BY <1>1, CallInvariant, PTL

\* A call suspended in an await always resumes on its own attempt or on none, even
\* after a logout and a new submit: its completion cannot reach another attempt.
THEOREM LateCompletionsAreHarmless == Spec => []OwnCompletion
<1>1. CallInv => OwnCompletion
  BY DEF CallInv
<1> QED BY <1>1, CallInvariant, PTL

\* If a terminal of a created session is never unreadable or foreign, a key given up as
\* never executed has no session and never gets one: the retry cannot create a second.
THEOREM ReleaseIsSafe ==
  ASSUME TerminalFaults = {}
  PROVE  Spec => []ReleasedNeverCreated
<1>1. Init => IInv
  BY InitCallInv DEF IInv
<1>2. IInv /\ [Next]_vars => IInv'
  BY NextKeeps DEF IInv, Keeps
<1>3. IInv => ReleasedNeverCreated
  BY DEF IInv
<1> QED BY <1>1, <1>2, <1>3, PTL DEF Spec

-----------------------------------------------------------------------------
(* What a step does to the attempt and to what the page concluded. *)

ConclusionStep ==
    \/ /\ outcome' = outcome
       /\ attempt # NONE => attempt' # NONE /\ (attempt'.sessionId = attempt.sessionId \/ Current)
    \/ /\ attempt = NONE /\ command' = command
       /\ \E k \in Key : outcome[k] = "unused" /\ outcome' = [outcome EXCEPT ![k] = "open"]
    \/ /\ attempt # NONE /\ attempt' = NONE /\ command' = command
       /\ \E v \in {"succeeded", "released", "abandoned"} :
            /\ outcome' = [outcome EXCEPT ![attempt.key] = v]
            /\ v = "succeeded" => Current /\ pc[attempt.key] = "baseline"
            /\ v = "released" => ~attempt.mayHaveCommitted

\* A call that ends gives the attempt up, or keeps it with what it knew.
LEMMA StopsConclude ==
  ASSUME CallInv, NEW k \in Key, NEW error, Stops(k, error), command' = command
  PROVE  ConclusionStep
<1>1. CASE attempt = NONE /\ attempt' = NONE /\ outcome' = outcome
  BY <1>1 DEF ConclusionStep
<1>2. CASE attempt # NONE /\ Same(attempt, attempt') /\ outcome' = outcome
  BY <1>2, NoneAssumption DEF ConclusionStep, Same
<1>3. CASE /\ attempt # NONE /\ attempt' = NONE /\ ~attempt.mayHaveCommitted
           /\ outcome' = [outcome EXCEPT ![attempt.key] = "released"]
  BY <1>3 DEF ConclusionStep
<1> QED BY <1>1, <1>2, <1>3 DEF Stops

\* A call leaves conclusions alone unless it fails, ends, or takes a result.
LEMMA ExecuteConcludes ==
  ASSUME CallInv, NEW k \in Key, attempt # NONE, NEW a, Same(attempt, a),
         NEW e, NEW busy \in BOOLEAN, Execute(k, a, e, busy), command' = command
  PROVE  ConclusionStep
<1> DEFINE polling == WithStatus(a, "polling")
<1>0. attempt \in Attempt
  BY Typed
<1>1. polling \in Attempt /\ Same(attempt, polling) /\ polling # NONE
  <2>1. a \in Attempt /\ "polling" \in Status
    BY DEF Same, Status, InProgress
  <2>2. polling \in Attempt /\ Same(a, polling)
    BY <2>1, StatusFacts, StatusSame
  <2> QED BY <1>0, <2>2, SameTransitive, NoneAssumption
<1> HIDE DEF polling
<1>2. CASE busy
  <2>1. RetainFailure(k, polling, e, "plain", NONE)
    BY <1>2 DEF Execute, polling
  <2> QED BY <1>0, <1>1, <2>1, RetainFailureStops, StopsConclude DEF Errors
<1>3. CASE ~busy
  <2>1. attempt' = polling /\ outcome' = outcome
    BY <1>3 DEF Execute, polling
  <2> QED BY <1>1, <2>1 DEF ConclusionStep, Same
<1> QED BY <1>2, <1>3

\* Every step of a call concludes the attempt in one of the ways ConclusionStep lists.
LEMMA CallStepConcludes ==
  ASSUME CallInv, NEW k \in Key, CallStep(k)
  PROVE  ConclusionStep
<1>1. ASSUME NEW e, Reject(k, e), command' = command
      PROVE  ConclusionStep
  BY <1>1, RejectStops, StopsConclude
<1>2. ASSUME NEW error \in Errors, NEW fallback \in {NONE, "reconciliation_required"},
             Fail(k, error, fallback), command' = command
      PROVE  ConclusionStep
  BY <1>2, FailStops, StopsConclude
<1>3. ASSUME NEW mode \in {"off", "keyed"}, NEW busy \in BOOLEAN, OpenReturns(k, mode, busy)
      PROVE  ConclusionStep
  <2> DEFINE a == WithControlSession(attempt, k, CurrentBinding)
             e == [encryption EXCEPT ![k] = mode]
  <2>1. command' = command /\ IF Current THEN Execute(k, a, e, busy) ELSE Reject(k, e)
    BY <1>3 DEF OpenReturns
  <2>2. ASSUME Current PROVE attempt # NONE /\ Same(attempt, a)
    <3>1. attempt # NONE /\ attempt \in Attempt /\ attempt.key = k
      BY <1>3, <2>2, CallFacts DEF Current, OpenReturns, Suspended
    <3>2. CurrentBinding \in Key \cup {NONE}
      BY <3>1, AttemptFields DEF CurrentBinding
    <3> QED BY <3>1, <3>2, ControlSessionFacts DEF Same
  <2> HIDE DEF a, e
  <2> QED BY <1>1, <2>1, <2>2, ExecuteConcludes
<1>4. ASSUME NEW busy \in BOOLEAN, RenewReturns(k, busy)
      PROVE  ConclusionStep
  <2>1. /\ command' = command
        /\ IF Current THEN Execute(k, attempt, encryption, busy) ELSE Reject(k, encryption)
    BY <1>4 DEF RenewReturns
  <2>2. ASSUME Current PROVE attempt # NONE /\ Same(attempt, attempt)
    BY <2>2, Typed DEF Current, Same
  <2> QED BY <1>1, <2>1, <2>2, ExecuteConcludes
<1>5. CASE \/ \E error \in {"plain", "reauthentication"} : OpenFails(k, error)
           \/ EncryptFails(k)
           \/ \E error \in {"plain", "reauthentication"} : PostRejected(k, error)
           \/ PostUncertain(k)
           \/ \E error \in {"ambiguous", "reauthentication"} : WaitFails(k, error)
           \/ \E error \in {"safe", "reauthentication"} : WaitRefused(k, error)
           \/ WaitFaulty(k)
           \/ \E error \in {"plain", "reauthentication"} : ReconcileFails(k, error)
  <2>1. PICK error \in Errors, fallback \in {NONE, "reconciliation_required"} :
          Fail(k, error, fallback) /\ command' = command
    BY <1>5 DEF OpenFails, EncryptFails, PostRejected, PostUncertain, WaitFails, WaitRefused,
                WaitFaulty, ReconcileFails, Errors, cloud
  <2> QED BY <1>2, <2>1
<1>6. CASE EncryptReturns(k) \/ DisposeReturns(k)
  BY <1>6 DEF EncryptReturns, DisposeReturns, ConclusionStep
<1>7. CASE PostAccepted(k)
  <2>1. attempt # NONE => attempt \in Attempt
    BY Typed
  <2> QED BY <1>7, <2>1, CommandFacts, NoneAssumption DEF PostAccepted, ConclusionStep
<1>8. ASSUME NEW valid \in BOOLEAN, WaitSucceeds(k, valid) \/ ResumeReturns(k, valid)
      PROVE  ConclusionStep
  <2>1. /\ command' = command
        /\ IF Current THEN TakeResult(k, valid) ELSE Reject(k, encryption)
    BY <1>8 DEF WaitSucceeds, ResumeReturns, cloud
  <2>2. ASSUME Current, TakeResult(k, valid) PROVE ConclusionStep
    <3>1. outcome' = outcome /\ attempt # NONE /\ attempt \in Attempt
      BY <2>2, Typed DEF TakeResult, EndWith, Current
    <3>2. attempt' \in Attempt
      <4>1. /\ attempt.sessionId \in Key \cup {NONE}
            /\ "reconciling" \in Status /\ "reconciliation_required" \in Status
        BY <3>1, AttemptFields DEF Status, InProgress, Reconcilable
      <4>2. \/ attempt' = Committed(attempt, k, "reconciling")
            \/ attempt' = Committed(attempt, attempt.sessionId, "reconciliation_required")
        BY <2>2 DEF TakeResult, EndWith
      <4>3. /\ Committed(attempt, k, "reconciling") \in Attempt
            /\ Committed(attempt, attempt.sessionId, "reconciliation_required") \in Attempt
        BY <3>1, <4>1, CommittedFacts
      <4> QED BY <4>2, <4>3
    <3> QED BY <2>2, <3>1, <3>2, NoneAssumption DEF ConclusionStep
  <2> QED BY <1>1, <2>1, <2>2
<1>9. ASSUME NEW found \in SUBSET Key, NEW bump \in BOOLEAN, ListReturns(k, found, bump)
      PROVE  ConclusionStep
  <2>1. /\ command' = command
        /\ \/ Reject(k, encryption)
           \/ Fail(k, "plain", "reconciliation_required")
           \/ UNCHANGED <<attempt, outcome>>
    BY <1>9 DEF ListReturns, cloud
  <2> QED BY <1>1, <1>2, <2>1 DEF ConclusionStep, Errors
<1>10. CASE BaselineReturns(k)
  <2>1. /\ command' = command
        /\ IF Current THEN DisposeAndClear(k, attempt, encryption, "succeeded")
                      ELSE Reject(k, encryption)
    BY <1>10 DEF BaselineReturns, cloud
  <2>2. ASSUME Current, DisposeAndClear(k, attempt, encryption, "succeeded"), command' = command
        PROVE  ConclusionStep
    <3>1. pc[k] = "baseline" /\ attempt # NONE /\ attempt.key = k
      BY <1>10, <2>2, CallFacts DEF BaselineReturns, Current
    <3> QED BY <2>2, <3>1 DEF DisposeAndClear, ConclusionStep
  <2> QED BY <1>1, <2>1, <2>2
<1>11. CASE ResumeFails(k) \/ ListUnknownFails(k)
  BY <1>11 DEF ResumeFails, ListUnknownFails, EndWith, ConclusionStep
<1>12. ASSUME NEW found \in SUBSET Key, ListUnknownReturns(k, found)
       PROVE  ConclusionStep
  <2>1. /\ command' = command
        /\ Fail(k, "plain", "reconciliation_required") \/ Reject(k, encryption)
    BY <1>12 DEF ListUnknownReturns, cloud
  <2> QED BY <1>1, <1>2, <2>1 DEF Errors
<1> QED BY <1>3, <1>4, <1>5, <1>6, <1>7, <1>8, <1>9, <1>10, <1>11, <1>12 DEF CallStep

\* A fence concludes nothing.
LEMMA FencesConclude ==
  ASSUME CallInv, Fences, outcome' = outcome
  PROVE  ConclusionStep
  BY NoneAssumption DEF Fences, Same, ConclusionStep

\* Every step concludes the attempt in one of the ways ConclusionStep lists.
LEMMA NextConcludes == CallInv /\ [Next]_vars => ConclusionStep
<1> SUFFICES ASSUME CallInv, [Next]_vars PROVE ConclusionStep
  OBVIOUS
<1>1. ASSUME NEW k \in Key, NEW bump \in BOOLEAN, SubmitNew(k, bump)
      PROVE  ConclusionStep
  BY <1>1 DEF SubmitNew, ConclusionStep, cloud
<1>2. CASE SubmitRetry
  BY <1>2, FencesConclude DEF SubmitRetry, Fences
<1>3. CASE Reconcile
  <2>1. attempt \in Attempt /\ attempt # NONE /\ outcome' = outcome
    BY <1>3, Typed DEF Reconcile
  <2>2. "reconciling" \in Status
    BY DEF Status, InProgress
  <2>3. \/ attempt' = attempt \/ attempt' = Fenced(attempt)
        \/ attempt' = WithStatus(attempt, "reconciling")
    BY <1>3 DEF Reconcile
  <2> QED BY <2>1, <2>2, <2>3, FencedFacts, FencesConclude, StatusFacts, NoneAssumption
          DEF ConclusionStep, Fences
<1>4. ASSUME NEW k \in Key, CallStep(k)
      PROVE  ConclusionStep
  BY <1>4, CallStepConcludes
<1>5. ASSUME NEW k \in Key, External(k)
      PROVE  ConclusionStep
  BY <1>5 DEF External, CloudReceive, DesktopExecute, call, ConclusionStep
<1>6. CASE Logout
  <2>1. attempt' = NONE /\ command' = command
    BY <1>6 DEF Logout, Reset, Fenced, cloud
  <2> QED BY <1>6, <2>1 DEF Logout, ConclusionStep
<1>7. ASSUME NEW found \in SUBSET Device, NEW reset \in BOOLEAN, RefreshDevices(found, reset)
      PROVE  ConclusionStep
  BY <1>7, RefreshDevicesFences, FencesConclude
<1>8. CASE ShowDeviceList \/ (\E l \in Login : SwitchOrganization(l))
  BY <1>8, FencedFacts, FencesConclude DEF ShowDeviceList, SwitchOrganization, Reset
<1>9. CASE \E d \in Device, bump \in BOOLEAN : OpenDevice(d, bump)
  BY <1>9 DEF OpenDevice, Reset, ConclusionStep
<1>10. CASE \/ CloseSelected \/ RefreshDevicesFails
            \/ (\E w \in Workspace : ActivateWorkspace(w)) \/ (\E l \in Login : SignIn(l))
  BY <1>10 DEF CloseSelected, RefreshDevicesFails, ActivateWorkspace, SignIn, call, ConclusionStep
<1>11. CASE UNCHANGED vars
  BY <1>11 DEF vars, ConclusionStep
<1> QED BY <1>1, <1>2, <1>3, <1>4, <1>5, <1>6, <1>7, <1>8, <1>9, <1>10, <1>11
        DEF Next, Submit, Page

\* An attempt known to have committed leaves the page only by success or by logout,
\* whatever a terminal of its command looks like.
THEOREM CommittedIsKept == Spec => CommittedAttemptKept
<1> DEFINE Kept == attempt # NONE /\ attempt.mayHaveCommitted /\ attempt' = NONE =>
                       outcome'[attempt.key] \in {"succeeded", "abandoned"}
<1>1. CallInv /\ [Next]_vars => Kept
  <2> SUFFICES ASSUME CallInv, [Next]_vars, attempt # NONE, attempt.mayHaveCommitted, attempt' = NONE
               PROVE  outcome'[attempt.key] \in {"succeeded", "abandoned"}
    OBVIOUS
  <2>1. attempt.key \in Key /\ outcome \in [Key -> {"unused", "open", "succeeded", "released", "abandoned"}]
    BY AttemptFields DEF CallInv, TypeOK
  <2> QED BY <2>1, NextConcludes DEF ConclusionStep
<1>2. CallInv /\ [Next]_vars => [Kept]_vars
  BY <1>1
<1>3. Spec => [][Kept]_vars
  BY <1>2, CallInvariant, PTL DEF Spec
<1> QED BY <1>3 DEF CommittedAttemptKept

\* While the page is not in the context of the attempt no completion of its call
\* concludes it or gives it a session ID.
THEOREM FencingIsFinal == Spec => FencedNeverCompletes
<1> DEFINE Held == attempt # NONE /\ attempt.context # ctx =>
                     /\ outcome'[attempt.key] # "succeeded"
                     /\ attempt' # NONE => attempt'.sessionId = attempt.sessionId
<1>1. CallInv /\ [Next]_vars => Held
  <2> SUFFICES ASSUME CallInv, [Next]_vars, attempt # NONE, attempt.context # ctx
               PROVE  /\ outcome'[attempt.key] # "succeeded"
                      /\ attempt' # NONE => attempt'.sessionId = attempt.sessionId
    OBVIOUS
  <2>1. ~Current
    BY DEF Current, SameContext
  <2>2. /\ attempt.key \in Key /\ outcome[attempt.key] = "open"
        /\ outcome \in [Key -> {"unused", "open", "succeeded", "released", "abandoned"}]
    BY AttemptFields DEF CallInv, TypeOK, OpenOutcome
  <2> QED BY <2>1, <2>2, NextConcludes DEF ConclusionStep
<1>2. CallInv /\ [Next]_vars => [Held]_vars
  BY <1>1
<1>3. Spec => [][Held]_vars
  BY <1>2, CallInvariant, PTL DEF Spec
<1> QED BY <1>3 DEF FencedNeverCompletes

\* If terminals are what they should be, the whole page implements CreationContract:
\* one key at a time, no session for a key given up, success only for a created session.
THEOREM CreationImplementsContract ==
  ASSUME TerminalFaults = {}
  PROVE  Spec => ImplementsContract
<1> DEFINE made == {k \in Key : command[k] = "created"}
<1>1. Init => Contract!Init
  BY DEF Init, Contract!Init
<1>2. IInv /\ [Next]_vars => [Contract!Next]_<<outcome, made>>
  <2> SUFFICES ASSUME IInv, [Next]_vars
               PROVE  Contract!Next \/ UNCHANGED <<outcome, made>>
    OBVIOUS
  <2>1. CallInv /\ CallInv' /\ ReleasedNeverCreated /\ ReleasedNeverCreated'
    BY NextKeeps DEF IInv, Keeps
  <2>2. outcome \in [Key -> {"unused", "open", "succeeded", "released", "abandoned"}]
    BY <2>1 DEF CallInv, TypeOK
  <2>3. CASE command' = command /\ outcome' = outcome
    BY <2>3
  <2>4. CASE outcome' = outcome /\ command' # command
    <3>1. PICK k \in Key : CloudReceive(k) \/ \E result \in {"created", "refused"} : DesktopExecute(k, result)
      <4>1. ASSUME NEW k \in Key, CallStep(k) PROVE command' = command
        BY <4>1 DEF CallStep, OpenReturns, RenewReturns, OpenFails, EncryptReturns, EncryptFails,
             PostAccepted, PostRejected, PostUncertain, WaitFails, WaitRefused, WaitFaulty,
             WaitSucceeds, ListReturns, BaselineReturns, ReconcileFails, DisposeReturns,
             ResumeReturns, ResumeFails, ListUnknownReturns, ListUnknownFails, cloud
      <4>2. Submit \/ Reconcile \/ UNCHANGED vars => command' = command
        BY DEF Submit, SubmitNew, SubmitRetry, Reconcile, cloud, vars
      <4>3. Page => command' = command
        BY DEF Page, ShowDeviceList, CloseSelected, RefreshDevices, RefreshDevicesFails, OpenDevice,
               ActivateWorkspace, SwitchOrganization, Logout, SignIn, cloud
      <4> QED BY <2>4, <4>1, <4>2, <4>3 DEF Next, External
    <3>2. command \in [Key -> {"none", "queued", "created", "refused"}]
      BY <2>1 DEF CallInv, TypeOK
    <3>3. CASE CloudReceive(k)
      <4>1. made' = made
        BY <3>2, <3>3 DEF CloudReceive
      <4> QED BY <2>4, <4>1
    <3>4. CASE DesktopExecute(k, "refused")
      <4>1. made' = made
        BY <3>2, <3>4 DEF DesktopExecute
      <4> QED BY <2>4, <4>1
    <3>5. CASE DesktopExecute(k, "created")
      <4>1. made' = made \cup {k}
        BY <3>2, <3>5 DEF DesktopExecute
      <4>2. outcome[k] \in {"open", "abandoned"}
        BY <2>1, <2>2, <3>5 DEF DesktopExecute, CallInv, Concluded, ReleasedNeverCreated
      <4> QED BY <2>4, <4>1, <4>2 DEF Contract!Next, Contract!Create
    <3> QED BY <3>1, <3>3, <3>4, <3>5
  <2>5. CASE /\ attempt = NONE /\ command' = command
             /\ \E k \in Key : outcome[k] = "unused" /\ outcome' = [outcome EXCEPT ![k] = "open"]
    BY <2>1, <2>5 DEF CallInv, OpenOutcome, Contract!Next, Contract!Open
  <2>6. CASE /\ attempt # NONE /\ attempt' = NONE /\ command' = command
             /\ \E v \in {"succeeded", "released", "abandoned"} :
                  outcome' = [outcome EXCEPT ![attempt.key] = v]
    <3> DEFINE k == attempt.key
    <3>1. k \in Key /\ outcome[k] = "open"
      BY <2>1, <2>6, AttemptFields DEF CallInv, TypeOK, OpenOutcome
    <3>2. PICK v \in {"succeeded", "released", "abandoned"} : outcome' = [outcome EXCEPT ![k] = v]
      BY <2>6
    <3>3. outcome'[k] = v /\ made' = made
      BY <2>2, <2>6, <3>1, <3>2
    <3>4. v = "succeeded" => k \in made
      BY <2>1, <2>6, <3>1, <3>3 DEF CallInv, Concluded
    <3>5. v = "released" => k \notin made
      BY <2>1, <2>6, <3>1, <3>3 DEF ReleasedNeverCreated
    <3> HIDE DEF k, made
    <3>6. Contract!Succeed(k) \/ Contract!Release(k) \/ Contract!Abandon(k)
      BY <3>1, <3>2, <3>3, <3>4, <3>5
         DEF Contract!Succeed, Contract!Release, Contract!Abandon, Contract!Conclude, made
    <3> QED BY <3>1, <3>6 DEF Contract!Next
  <2> QED BY <2>1, <2>3, <2>4, <2>5, <2>6, NextConcludes DEF ConclusionStep
<1>3. Init => IInv
  BY InitCallInv DEF IInv
<1>4. IInv /\ [Next]_vars => IInv'
  BY NextKeeps DEF IInv, Keeps
<1> QED BY <1>1, <1>2, <1>3, <1>4, PTL DEF Spec, ImplementsContract, Contract!Spec

-----------------------------------------------------------------------------
(* What the list holds when the baseline of a created session answers. *)

\* The attempt was made in a control generation that is not ahead of the page's.
Behind == attempt # NONE => attempt.context.generation <= ctx.generation

\* While the baseline is awaited in the generation of the attempt, its session is listed.
Shown ==
    \A k \in Key : /\ pc[k] = "baseline" /\ attempt # NONE
                   /\ attempt.context.generation = ctx.generation
                   => attempt.key \in sessions

\* The attempt is dropped, or keeps its key and its context.
KeepsContext ==
    attempt' # NONE => /\ attempt # NONE /\ attempt'.key = attempt.key
                       /\ attempt'.context = attempt.context

\* The call of key k goes on or ends, and not to await the baseline.
Moves(k) == /\ KeepsContext /\ ctx' = ctx
            /\ \E step \in PC \ {"baseline"} : pc' = [pc EXCEPT ![k] = step]

\* A step of the page leaves the generation, or leaves alone what Shown speaks of.
Overtakes == /\ KeepsContext /\ pc' = pc
             /\ \/ ctx'.generation = ctx.generation + 1
                \/ ctx'.generation = ctx.generation /\ (attempt' = NONE \/ sessions' = sessions)

\* No patch changes the key or the context.
LEMMA PatchesKeepContext ==
  ASSUME NEW a \in Attempt, NEW s, NEW k, NEW b
  PROVE  /\ WithStatus(a, s).key = a.key /\ WithStatus(a, s).context = a.context
         /\ WithCommand(a, k).key = a.key /\ WithCommand(a, k).context = a.context
         /\ WithControlSession(a, k, b).key = a.key
         /\ WithControlSession(a, k, b).context = a.context
         /\ Committed(a, k, s).key = a.key /\ Committed(a, k, s).context = a.context
  BY DEF WithStatus, WithCommand, WithControlSession, Committed, Attempt

\* A fence keeps the context.
LEMMA FencedContext ==
  ASSUME CallInv, attempt' \in {NONE, attempt, Fenced(attempt)}
  PROVE  KeepsContext
<1>1. attempt # NONE => attempt \in Attempt
  BY Typed
<1> QED BY <1>1, PatchesKeepContext DEF Fenced, KeepsContext

\* Whatever retainFailure decides, the attempt it keeps is the one it was entered with.
LEMMA RetainFailureMoves ==
  ASSUME NEW k \in Key, NEW a, NEW e, NEW error, NEW fallback, ctx' = ctx,
         RetainFailure(k, a, e, error, fallback),
         \/ a = NONE
         \/ /\ a \in Attempt /\ attempt # NONE
            /\ a.key = attempt.key /\ a.context = attempt.context
  PROVE  Moves(k)
<1>1. CASE a = NONE
  BY <1>1 DEF RetainFailure, EndWith, End, Moves, KeepsContext, PC
<1>2. CASE a # NONE /\ Verdict(a, error, fallback) = "released"
  BY <1>2 DEF RetainFailure, DisposeAndClear, End, Goto, Moves, KeepsContext, PC
<1>3. CASE a # NONE /\ Verdict(a, error, fallback) # "released"
  <2>1. attempt' = WithStatus(a, Verdict(a, error, fallback)) /\ pc' = [pc EXCEPT ![k] = "idle"]
    BY <1>3 DEF RetainFailure, EndWith, End
  <2> QED BY <1>3, <2>1, PatchesKeepContext DEF Moves, KeepsContext, PC
<1> QED BY <1>1, <1>2, <1>3

\* A failure ends the call or disposes of its control session.
LEMMA FailMoves ==
  ASSUME CallInv, NEW k \in Key, NEW error, NEW fallback, ctx' = ctx, Fail(k, error, fallback)
  PROVE  Moves(k)
<1>1. attempt = NONE \/ attempt \in Attempt
  BY Typed
<1> QED BY <1>1, RetainFailureMoves, NoneAssumption DEF Fail

\* assertCurrent ends the call.
LEMMA RejectMoves ==
  ASSUME CallInv, NEW k \in Key, NEW e, ctx' = ctx, Reject(k, e)
  PROVE  Moves(k)
<1>1. attempt' = Fenced(attempt) /\ pc' = [pc EXCEPT ![k] = "idle"]
  BY DEF Reject, EndWith, End
<1> QED BY <1>1, FencedContext DEF Moves, PC

\* executeAndReconcile sends the POST of the attempt it is entered with.
LEMMA ExecuteMoves ==
  ASSUME NEW k \in Key, NEW a \in Attempt, NEW e, NEW busy \in BOOLEAN, ctx' = ctx,
         attempt # NONE, a.key = attempt.key, a.context = attempt.context,
         Execute(k, a, e, busy)
  PROVE  Moves(k)
<1> DEFINE polling == WithStatus(a, "polling")
<1>1. polling \in Attempt /\ polling.key = attempt.key /\ polling.context = attempt.context
  BY StatusFacts DEF Status, InProgress
<1>2. CASE busy
  <2>1. RetainFailure(k, polling, e, "plain", NONE)
    BY <1>2 DEF Execute
  <2> HIDE DEF polling
  <2> QED BY <1>1, <2>1, RetainFailureMoves
<1>3. CASE ~busy
  <2>1. attempt' = polling /\ \E step \in {"encrypt", "post"} : pc' = [pc EXCEPT ![k] = step]
    BY <1>3 DEF Execute, Goto
  <2> QED BY <1>1, <2>1 DEF Moves, KeepsContext, PC, Suspended
<1> QED BY <1>2, <1>3

\* A call that moves elsewhere leaves nothing to show.
LEMMA MovesShow ==
  ASSUME CallInv, Behind, NEW k \in Key, pc[k] # "idle", Moves(k)
  PROVE  Behind' /\ Shown'
<1>1. Behind'
  BY DEF Moves, KeepsContext, Behind
<1>2. \A j \in Key : pc'[j] # "baseline"
  BY CallFacts DEF Moves, CallInv, TypeOK
<1> QED BY <1>1, <1>2 DEF Shown

\* Leaving the generation, or what the list holds, keeps what is shown.
LEMMA OvertakesShow ==
  ASSUME CallInv, Behind, Shown, Overtakes
  PROVE  Behind' /\ Shown'
<1>1. ctx.generation \in Nat /\ (attempt # NONE => attempt.context.generation \in Nat)
  BY AttemptFields DEF CallInv, TypeOK, Context
<1>2. CASE ctx'.generation = ctx.generation + 1
  BY <1>1, <1>2 DEF Overtakes, KeepsContext, Behind, Shown
<1>3. CASE ctx'.generation = ctx.generation
  BY <1>1, <1>3 DEF Overtakes, KeepsContext, Behind, Shown
<1> QED BY <1>2, <1>3 DEF Overtakes

\* Every step of a call keeps what is shown.
LEMMA CallStepShows ==
  ASSUME CallInv, Behind, Shown, NEW k \in Key, CallStep(k)
  PROVE  Behind' /\ Shown'
<1>1. ASSUME NEW e, Reject(k, e), ctx' = ctx, pc[k] # "idle"
      PROVE  Behind' /\ Shown'
  BY <1>1, RejectMoves, MovesShow
<1>2. ASSUME NEW error, NEW fallback, Fail(k, error, fallback), ctx' = ctx, pc[k] # "idle"
      PROVE  Behind' /\ Shown'
  BY <1>2, FailMoves, MovesShow
<1>3. ASSUME NEW a \in Attempt, NEW e, NEW busy \in BOOLEAN, Execute(k, a, e, busy),
             attempt # NONE, a.key = attempt.key, a.context = attempt.context,
             ctx' = ctx, pc[k] # "idle"
      PROVE  Behind' /\ Shown'
  BY <1>3, ExecuteMoves, MovesShow
<1>4. attempt # NONE => attempt \in Attempt
  BY Typed
<1>5. ASSUME NEW mode \in {"off", "keyed"}, NEW busy \in BOOLEAN, OpenReturns(k, mode, busy)
      PROVE  Behind' /\ Shown'
  <2> DEFINE a == WithControlSession(attempt, k, CurrentBinding)
             e == [encryption EXCEPT ![k] = mode]
  <2>1. /\ ctx' = ctx /\ pc[k] # "idle"
        /\ IF Current THEN Execute(k, a, e, busy) ELSE Reject(k, e)
    BY <1>5 DEF OpenReturns
  <2>2. ASSUME Current
        PROVE  /\ attempt # NONE /\ a \in Attempt
               /\ a.key = attempt.key /\ a.context = attempt.context
    <3>1. attempt # NONE /\ CurrentBinding \in Key \cup {NONE}
      BY <1>4, <2>2, AttemptFields DEF Current, CurrentBinding
    <3> QED BY <1>4, <3>1, ControlSessionFacts
  <2> HIDE DEF a, e
  <2> QED BY <1>1, <1>3, <2>1, <2>2
<1>6. ASSUME NEW busy \in BOOLEAN, RenewReturns(k, busy)
      PROVE  Behind' /\ Shown'
  <2>1. /\ ctx' = ctx /\ pc[k] # "idle"
        /\ IF Current THEN Execute(k, attempt, encryption, busy) ELSE Reject(k, encryption)
    BY <1>6 DEF RenewReturns
  <2> QED BY <1>1, <1>3, <1>4, <2>1 DEF Current
<1>7. CASE \/ \E error \in {"plain", "reauthentication"} : OpenFails(k, error)
           \/ EncryptFails(k)
           \/ \E error \in {"plain", "reauthentication"} : PostRejected(k, error)
           \/ PostUncertain(k)
           \/ \E error \in {"ambiguous", "reauthentication"} : WaitFails(k, error)
           \/ \E error \in {"safe", "reauthentication"} : WaitRefused(k, error)
           \/ WaitFaulty(k)
           \/ \E error \in {"plain", "reauthentication"} : ReconcileFails(k, error)
  <2>1. /\ ctx' = ctx /\ pc[k] # "idle"
        /\ \E error, fallback : Fail(k, error, fallback)
    BY <1>7 DEF OpenFails, EncryptFails, PostRejected, PostUncertain, WaitFails, WaitRefused,
                WaitFaulty, ReconcileFails
  <2> QED BY <1>2, <2>1
<1>8. CASE EncryptReturns(k) \/ DisposeReturns(k)
  <2>1. Moves(k)
    BY <1>8 DEF EncryptReturns, DisposeReturns, End, Goto, Moves, KeepsContext, PC, Suspended
  <2> QED BY <1>8, <2>1, MovesShow DEF EncryptReturns, DisposeReturns
<1>9. CASE PostAccepted(k)
  <2>1. Moves(k)
    BY <1>4, <1>9, PatchesKeepContext DEF PostAccepted, Goto, Moves, KeepsContext, PC, Suspended
  <2> QED BY <1>9, <2>1, MovesShow DEF PostAccepted
<1>10. ASSUME NEW valid \in BOOLEAN, WaitSucceeds(k, valid) \/ ResumeReturns(k, valid)
       PROVE  Behind' /\ Shown'
  <2>1. /\ ctx' = ctx /\ pc[k] # "idle"
        /\ IF Current THEN TakeResult(k, valid) ELSE Reject(k, encryption)
    BY <1>10 DEF WaitSucceeds, ResumeReturns
  <2>2. ASSUME Current, TakeResult(k, valid) PROVE Moves(k)
    BY <1>4, <2>1, <2>2, PatchesKeepContext
       DEF TakeResult, EndWith, End, Goto, Current, Moves, KeepsContext, PC, Suspended
  <2> QED BY <1>1, <2>1, <2>2, MovesShow
<1>11. ASSUME NEW found \in SUBSET Key, NEW bump \in BOOLEAN, ListReturns(k, found, bump)
       PROVE  Behind' /\ Shown'
  <2>1. pc[k] = "list"
    BY <1>11 DEF ListReturns
  <2>2. CASE ~Current
    BY <1>1, <1>11, <2>1, <2>2 DEF ListReturns
  <2>3. CASE Current /\ ~SelectsCreated(found)
    BY <1>2, <1>11, <2>1, <2>3 DEF ListReturns
  <2>4. CASE Current /\ SelectsCreated(found)
    <3>1. attempt' = attempt /\ attempt # NONE /\ ctx' = Bumped(bump)
      BY <1>11, <2>4 DEF ListReturns, Current
    <3>2. attempt.key \in sessions'
      <4>1. attempt.sessionId = k /\ attempt.key = k
        BY <2>1, <3>1, CallFacts DEF CallInv, Phases
      <4>2. attempt.context = ctx
        BY <2>4 DEF Current, SameContext
      <4> QED BY <1>11, <2>4, <3>1, <4>1, <4>2 DEF ListReturns, SelectsCreated
    <3>3. ctx.generation \in Nat /\ attempt.context.generation \in Nat
          /\ ctx'.generation \in {ctx.generation, ctx.generation + 1}
      BY <1>4, <3>1, AttemptFields DEF CallInv, TypeOK, Context, Bumped
    <3> QED BY <3>1, <3>2, <3>3 DEF Behind, Shown
  <2> QED BY <2>2, <2>3, <2>4
<1>12. CASE BaselineReturns(k)
  <2>1. /\ ctx' = ctx /\ pc[k] # "idle"
        /\ IF Current THEN DisposeAndClear(k, attempt, encryption, "succeeded")
                      ELSE Reject(k, encryption)
    BY <1>12 DEF BaselineReturns
  <2>2. ASSUME DisposeAndClear(k, attempt, encryption, "succeeded") PROVE Moves(k)
    BY <2>1, <2>2 DEF DisposeAndClear, End, Goto, Moves, KeepsContext, PC
  <2> QED BY <1>1, <2>1, <2>2, MovesShow
<1>13. CASE ResumeFails(k) \/ ListUnknownFails(k)
  <2>1. Moves(k)
    BY <1>13 DEF ResumeFails, ListUnknownFails, EndWith, End, Moves, KeepsContext, PC
  <2> QED BY <1>13, <2>1, MovesShow DEF ResumeFails, ListUnknownFails
<1>14. ASSUME NEW found \in SUBSET Key, ListUnknownReturns(k, found)
       PROVE  Behind' /\ Shown'
  BY <1>1, <1>2, <1>14 DEF ListUnknownReturns
<1> QED BY <1>5, <1>6, <1>7, <1>8, <1>9, <1>10, <1>11, <1>12, <1>13, <1>14 DEF CallStep

\* No event of the page takes a session off the list within a generation, unless
\* there is no attempt.
LEMMA PageOvertakes ==
  ASSUME CallInv, Page
  PROVE  Overtakes
<1>1. /\ ctx \in Context
      /\ attempt = NONE \/ attempt \in Attempt
  BY DEF CallInv, TypeOK
<1>2. ASSUME NEW l, NEW d, Reset(attempt, l, d), pc' = pc PROVE Overtakes
  BY <1>2, FencedContext DEF Reset, Overtakes
<1>3. ASSUME NEW l, NEW d, Reset(NONE, l, d), pc' = pc PROVE Overtakes
  BY <1>3 DEF Reset, Fenced, Overtakes, KeepsContext
<1>4. ShowDeviceList => Overtakes
  BY <1>2 DEF ShowDeviceList
<1>5. ASSUME NEW l \in Login, SwitchOrganization(l) PROVE Overtakes
  BY <1>2, <1>5 DEF SwitchOrganization
<1>6. Logout => Overtakes
  BY <1>3 DEF Logout
<1>7. ASSUME NEW d \in Device, NEW bump \in BOOLEAN, OpenDevice(d, bump) PROVE Overtakes
  <2>1. CASE d # ctx.device
    BY <1>3, <1>7, <2>1 DEF OpenDevice
  <2>2. CASE d = ctx.device
    <3>1. attempt' = NONE /\ pc' = pc /\ ctx' = [Bumped(bump) EXCEPT !.workspace = NONE]
      BY <1>7, <2>2 DEF OpenDevice
    <3>2. ctx'.generation \in {ctx.generation, ctx.generation + 1}
      BY <1>1, <3>1 DEF Bumped, Context
    <3> QED BY <3>1, <3>2 DEF Overtakes, KeepsContext
  <2> QED BY <2>1, <2>2
<1>8. CloseSelected => Overtakes
  BY <1>1 DEF CloseSelected, Bumped, Context, call, Overtakes, KeepsContext
<1>9. RefreshDevicesFails => Overtakes
  BY <1>1 DEF RefreshDevicesFails, Context, call, Overtakes, KeepsContext
<1>10. ASSUME NEW w \in Workspace, ActivateWorkspace(w) PROVE Overtakes
  BY <1>1, <1>10 DEF ActivateWorkspace, Bumped, Context, call, Overtakes, KeepsContext
<1>11. ASSUME NEW l \in Login, SignIn(l) PROVE Overtakes
  BY <1>1, <1>11 DEF SignIn, Context, call, Overtakes, KeepsContext
<1>12. ASSUME NEW found \in SUBSET Device, NEW reset \in BOOLEAN, RefreshDevices(found, reset)
       PROVE  Overtakes
  <2> DEFINE fenced == IF attempt # NONE /\ attempt.context.device \notin found
                       THEN Fenced(attempt) ELSE attempt
  <2>1. PICK d : IF reset THEN Reset(fenced, ctx.login, d)
                 ELSE /\ attempt' = fenced /\ ctx' = [ctx EXCEPT !.device = d]
                      /\ UNCHANGED <<sessions, encryption>>
    BY <1>12 DEF RefreshDevices
  <2>2. pc' = pc
    BY <1>12 DEF RefreshDevices
  <2>3. Fenced(fenced) \in {NONE, Fenced(attempt)}
    BY <1>1, PatchesKeepContext DEF Fenced, WithStatus, Attempt
  <2>4. CASE reset
    BY <2>1, <2>2, <2>3, <2>4, FencedContext DEF Reset, Overtakes
  <2>5. CASE ~reset
    <3>1. ctx'.generation = ctx.generation /\ sessions' = sessions
      BY <1>1, <2>1, <2>5 DEF Context
    <3> QED BY <2>1, <2>2, <2>5, <3>1, FencedContext DEF Overtakes
  <2> QED BY <2>4, <2>5
<1> QED BY <1>4, <1>5, <1>6, <1>7, <1>8, <1>9, <1>10, <1>11, <1>12 DEF Page

\* Every step keeps what is shown.
LEMMA NextShows == CallInv /\ Behind /\ Shown /\ [Next]_vars => Behind' /\ Shown'
<1> SUFFICES ASSUME CallInv, Behind, Shown, [Next]_vars PROVE Behind' /\ Shown'
  OBVIOUS
<1>1. ASSUME NEW k \in Key, NEW bump \in BOOLEAN, SubmitNew(k, bump)
      PROVE  Behind' /\ Shown'
  <2>1. \A j \in Key : pc'[j] # "baseline"
    BY <1>1, IdleFacts DEF SubmitNew, Ready, CallInv, TypeOK
  <2>2. ctx'.generation \in Nat
    BY <1>1, Bumps DEF SubmitNew, Context
  <2> QED BY <1>1, <2>1, <2>2 DEF SubmitNew, Behind, Shown
<1>2. CASE SubmitRetry
  <2>1. \A j \in Key : pc'[j] # "baseline"
    BY <1>2, IdleFacts DEF SubmitRetry, Ready, CallInv, TypeOK
  <2> QED BY <1>2, <2>1 DEF SubmitRetry, Behind, Shown
<1>3. CASE Reconcile
  <2>1. \A j \in Key : pc'[j] # "baseline"
    BY <1>3, IdleFacts DEF Reconcile, ResumePoint, Ready, CallInv, TypeOK
  <2>2. KeepsContext /\ ctx' = ctx
    BY <1>3, Typed, PatchesKeepContext DEF Reconcile, Fenced, KeepsContext
  <2> QED BY <2>1, <2>2 DEF KeepsContext, Behind, Shown
<1>4. ASSUME NEW k \in Key, CallStep(k)
      PROVE  Behind' /\ Shown'
  BY <1>4, CallStepShows
<1>5. ASSUME NEW k \in Key, External(k)
      PROVE  Behind' /\ Shown'
  BY <1>5 DEF External, CloudReceive, DesktopExecute, call, Behind, Shown
<1>6. CASE Page
  BY <1>6, PageOvertakes, OvertakesShow
<1>7. CASE UNCHANGED vars
  BY <1>7 DEF vars, Behind, Shown
<1> QED BY <1>1, <1>2, <1>3, <1>4, <1>5, <1>6, <1>7 DEF Next, Submit

\* Creation is reported complete only for a session Desktop has created, while exactly
\* that session is in the list, whatever has overtaken the call in the meantime.
THEOREM SuccessIsListed == Spec => SucceededIsListed
<1> DEFINE Succeeds == \A k \in Key : outcome[k] # "succeeded" /\ outcome'[k] = "succeeded" =>
                           k \in sessions /\ command[k] = "created"
<1>1. Init => CallInv /\ Behind /\ Shown
  BY InitCallInv DEF Init, Behind, Shown
<1>2. CallInv /\ Behind /\ Shown /\ [Next]_vars => CallInv' /\ Behind' /\ Shown'
  BY NextKeeps, NextShows DEF Keeps
<1>3. CallInv /\ Shown /\ [Next]_vars => Succeeds
  <2> SUFFICES ASSUME CallInv, Shown, [Next]_vars, NEW k \in Key,
                      outcome[k] # "succeeded", outcome'[k] = "succeeded"
               PROVE  k \in sessions /\ command[k] = "created"
    OBVIOUS
  <2>1. outcome \in [Key -> {"unused", "open", "succeeded", "released", "abandoned"}]
    BY DEF CallInv, TypeOK
  <2>2. attempt # NONE /\ k = attempt.key /\ Current /\ pc[k] = "baseline"
    BY <2>1, NextConcludes DEF ConclusionStep
  <2>3. k \in sessions
    BY <2>2 DEF Shown, Current, SameContext
  <2>4. attempt.sessionId = k /\ k # NONE
    BY <2>2, ConstantsAssumption DEF CallInv, Phases
  <2> QED BY <2>2, <2>3, <2>4 DEF CallInv, Names
<1>4. CallInv /\ Shown /\ [Next]_vars => [Succeeds]_vars
  BY <1>3
<1>5. Spec => [][Succeeds]_vars
  BY <1>1, <1>2, <1>4, PTL DEF Spec
<1> QED BY <1>5 DEF SucceededIsListed
=============================================================================
