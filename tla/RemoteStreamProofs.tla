------------------------- MODULE RemoteStreamProofs -------------------------
(***************************************************************************)
(* What holds of the event stream for every value of the constants and     *)
(* whatever interferes.                                                    *)
(*                                                                         *)
(* First what does not depend on the bytes, because every step of the      *)
(* reader goes on as Proceed says, for any records: one connection,        *)
(* polling while connections fail, nothing begun after stop, one notice    *)
(* for a loss (StreamInv).                                                 *)
(*                                                                         *)
(* Then what the parser makes of the bytes.  What Cloud sends on a         *)
(* connection is read by an automaton, the reader, that goes from place to *)
(* place, symbol by symbol, and is never told of chunks.  Between two      *)
(* chunks the parser is at one of the reader's places where a line begins, *)
(* and the text it has kept, followed by the bytes on the way, takes the   *)
(* reader to where Cloud will go on; so the records put out are the        *)
(* messages after the cursor, in order (Carried).                          *)
(***************************************************************************)
EXTENDS RemoteStream, SequenceLemmas

-----------------------------------------------------------------------------
(* The page *)

Identities == {"session_closed", "session_disconnected"} \X Nat
Shown == {"CONNECTING", "LIVE", "RECONNECTING", "POLLING", "RESYNCING", "CLOSED", "ERROR"}

PageType == [shown : Shown, epoch : Nat, seen : Seq(Identities), told : {0, 1}]

\* The identity of the present loss.
Loss(p) == <<"session_disconnected", p.epoch>>

\* A loss that was told is remembered.
Told(p) == p.told = 1 => \E i \in 1 .. Len(p.seen) : p.seen[i] = Loss(p)

PageInv(p) == p \in PageType /\ Len(p.seen) <= MaxRemembered /\ Told(p)

LEMMA SetToSeqEmpty == SetToSeq({}) = << >>
<1>1. Cardinality({}) = 0 /\ 1 .. 0 = {}
  BY FS_EmptySet
<1>2. \A f \in [1 .. 0 -> {}] : f = << >>
  BY <1>1
<1>3. << >> \in [1 .. 0 -> {}] /\ IsInjective(<< >>)
  BY <1>1 DEF IsInjective
<1> QED BY <1>1, <1>2, <1>3 DEF SetToSeq

LEMMA SetToSeqSingleton == \A x : SetToSeq({x}) = <<x>>
<1> SUFFICES ASSUME NEW x PROVE SetToSeq({x}) = <<x>>
  OBVIOUS
<1>1. Cardinality({x}) = 1 /\ 1 .. 1 = {1}
  BY FS_Singleton
<1>2. \A f \in [1 .. 1 -> {x}] : f = <<x>>
  BY <1>1
<1>3. <<x>> \in [1 .. 1 -> {x}] /\ IsInjective(<<x>>)
  BY <1>1 DEF IsInjective
<1> QED BY <1>1, <1>2, <1>3 DEF SetToSeq

LEMMA RememberNothing ==
    ASSUME NEW seen \in Seq(Identities), Len(seen) <= MaxRemembered
    PROVE  RememberShown(seen, {}) = seen
<1>1. {c.identity : c \in {}} = {}
  OBVIOUS
<1>2. seen \o SetToSeq({c.identity : c \in {}}) = seen
  BY <1>1, SetToSeqEmpty, ConcatEmptySeq
<1>3. ~(Len(seen) > MaxRemembered)
  BY RememberedAssumption, LenProperties
<1> QED BY <1>2, <1>3 DEF RememberShown

\* What is shown is remembered, and the oldest forgotten for it.
LEMMA RememberOne ==
    ASSUME NEW seen \in Seq(Identities), Len(seen) <= MaxRemembered,
           NEW x, x.identity \in Identities,
           NEW after, after = RememberShown(seen, {x})
    PROVE  /\ after \in Seq(Identities) /\ Len(after) <= MaxRemembered
           /\ \E i \in 1 .. Len(after) : after[i] = x.identity
<1> DEFINE longer == seen \o <<x.identity>>
<1>0. MaxRemembered \in Nat /\ MaxRemembered >= 1 /\ Len(seen) \in Nat
  BY RememberedAssumption, LenProperties
<1>1. {c.identity : c \in {x}} = {x.identity}
  OBVIOUS
<1>2. after = IF Len(longer) > MaxRemembered THEN Tail(longer) ELSE longer
  BY <1>1, SetToSeqSingleton DEF RememberShown
<1>3. <<x.identity>> \in Seq(Identities) /\ Len(<<x.identity>>) = 1
  OBVIOUS
<1>4. /\ longer \in Seq(Identities) /\ Len(longer) = Len(seen) + 1
      /\ longer[Len(seen) + 1] = x.identity
  <2>1. /\ longer \in Seq(Identities) /\ Len(longer) = Len(seen) + Len(<<x.identity>>)
        /\ \A i \in 1 .. Len(seen) + Len(<<x.identity>>) :
              longer[i] = IF i <= Len(seen) THEN seen[i] ELSE <<x.identity>>[i - Len(seen)]
    BY <1>3, ConcatProperties
  <2> HIDE DEF longer
  <2>2. longer[Len(seen) + 1] = <<x.identity>>[1]
    BY <1>0, <1>3, <2>1
  <2> QED BY <1>3, <2>1, <2>2
<1> HIDE DEF longer
<1>5. CASE Len(longer) > MaxRemembered
  <2>1. longer # << >>
    BY <1>0, <1>5, <1>4
  <2>2. /\ Tail(longer) \in Seq(Identities) /\ Len(Tail(longer)) = Len(seen)
        /\ \A i \in 1 .. Len(seen) : Tail(longer)[i] = longer[i + 1]
    BY <1>0, <1>4, <2>1, HeadTailProperties
  <2>3. Len(seen) \in 1 .. Len(seen)
    BY <1>0, <1>4, <1>5
  <2>4. Tail(longer)[Len(seen)] = x.identity
    BY <1>4, <2>2, <2>3
  <2>5. after = Tail(longer)
    BY <1>2, <1>5
  <2>6. /\ after \in Seq(Identities) /\ Len(after) <= MaxRemembered
        /\ Len(seen) \in 1 .. Len(after) /\ after[Len(seen)] = x.identity
    BY <2>2, <2>3, <2>4, <2>5
  <2> QED BY <2>6
<1>6. CASE ~(Len(longer) > MaxRemembered)
  <2>1. Len(seen) + 1 \in 1 .. Len(longer)
    BY <1>0, <1>4
  <2>2. after = longer
    BY <1>2, <1>6
  <2>3. Len(longer) <= MaxRemembered
    BY <1>0, <1>4, <1>6
  <2>4. /\ after \in Seq(Identities) /\ Len(after) <= MaxRemembered
        /\ Len(seen) + 1 \in 1 .. Len(after) /\ after[Len(seen) + 1] = x.identity
    BY <1>4, <2>1, <2>2, <2>3
  <2> QED BY <2>4
<1> QED BY <1>5, <1>6

\* What a state that is not LIVE tells: nothing, or a loss that is not remembered.
LEMMA EmitKeeps ==
    ASSUME NEW p, PageInv(p), NEW value \in Shown \ {"LIVE"}
    PROVE  PageInv(Emit(p, value))
<1> DEFINE loss == [category |-> "session_disconnected", identity |-> Loss(p)]
           candidate == StreamTransition(p.shown, value, FALSE, p.epoch)
           q == Emit(p, value)
<1>0. /\ p \in PageType /\ p.seen \in Seq(Identities) /\ p.epoch \in Nat /\ p.told \in {0, 1}
      /\ Len(p.seen) <= MaxRemembered /\ Len(p.seen) \in Nat /\ DOMAIN p.seen = 1 .. Len(p.seen)
  BY LenProperties DEF PageInv, PageType
<1>1. q = [p EXCEPT !.shown = value, !.epoch = p.epoch,
                    !.seen = RememberShown(p.seen, Shows(p.seen, candidate)),
                    !.told = IF {c \in Shows(p.seen, candidate) : c.category = "session_disconnected"} # {}
                             THEN p.told + 1 ELSE p.told]
  BY DEF Emit, EmitAs, Epoch
<1>2. candidate \in {{}, {loss}}
  BY DEF StreamTransition, Signal, Loss
<1>3. Loss(p) \in Identities /\ loss.identity = Loss(p) /\ loss.category = "session_disconnected"
  BY <1>0 DEF Loss, Identities
<1> HIDE DEF candidate, loss, q
<1>4. Shows(p.seen, candidate) \in {{}, {loss}}
  BY <1>2 DEF Shows
<1>5. CASE Shows(p.seen, candidate) = {}
  <2>1. q = [p EXCEPT !.shown = value, !.epoch = p.epoch, !.seen = p.seen, !.told = p.told]
    BY <1>0, <1>1, <1>5, RememberNothing
  <2>2. q \in PageType /\ q.seen = p.seen /\ q.told = p.told /\ q.epoch = p.epoch
    BY <1>0, <2>1 DEF PageType
  <2>3. PageInv(q)
    BY <1>0, <2>2 DEF PageInv, Told, Loss
  <2> QED BY <2>3 DEF q
<1>6. CASE Shows(p.seen, candidate) = {loss}
  <2> DEFINE after == RememberShown(p.seen, {loss})
  <2>1. /\ after \in Seq(Identities) /\ Len(after) <= MaxRemembered
        /\ \E i \in 1 .. Len(after) : after[i] = Loss(p)
    BY <1>0, <1>3, RememberOne
  <2> HIDE DEF after
  <2>2. loss.identity \notin ToSet(p.seen)
    <3>1. loss \in Shows(p.seen, candidate)
      BY <1>6
    <3> QED BY <3>1 DEF Shows
  <2>3. p.told = 0
    BY <1>0, <1>3, <2>2 DEF PageInv, Told, ToSet
  <2>4. {c \in {loss} : c.category = "session_disconnected"} # {}
    BY <1>3
  <2>5. q = [p EXCEPT !.shown = value, !.epoch = p.epoch, !.seen = after, !.told = 1]
    BY <1>1, <1>6, <2>3, <2>4 DEF after
  <2>6. /\ q \in PageType /\ q.seen = after /\ q.told = 1 /\ q.epoch = p.epoch
    BY <1>0, <2>1, <2>5 DEF PageType
  <2>7. PageInv(q)
    BY <2>1, <2>6 DEF PageInv, Told, Loss
  <2> QED BY <2>7 DEF q
<1> QED BY <1>4, <1>5, <1>6

\* A connection that is answered tells nothing, and makes a further loss a new one.
LEMMA LiveKeeps ==
    ASSUME NEW p, PageInv(p)
    PROVE  PageInv([Emit(p, "LIVE") EXCEPT !.told = 0])
<1> DEFINE epoch == Epoch(p, "LIVE")
           q == [Emit(p, "LIVE") EXCEPT !.told = 0]
<1>0. /\ p \in PageType /\ p.seen \in Seq(Identities) /\ epoch \in Nat
      /\ Len(p.seen) <= MaxRemembered
  BY DEF PageInv, PageType, Epoch
<1> HIDE DEF epoch
<1>1. StreamTransition(p.shown, "LIVE", FALSE, epoch) = {}
  BY DEF StreamTransition
<1>2. Shows(p.seen, {}) = {}
  BY DEF Shows
<1>3. RememberShown(p.seen, {}) = p.seen
  BY <1>0, RememberNothing
<1>4. Emit(p, "LIVE") = [p EXCEPT !.shown = "LIVE", !.epoch = epoch, !.seen = p.seen, !.told = p.told]
  BY <1>1, <1>2, <1>3 DEF Emit, EmitAs, epoch
<1>5. q \in PageType /\ q.seen = p.seen /\ q.told = 0
  BY <1>0, <1>4 DEF PageType, Shown
<1> HIDE DEF q
<1>6. PageInv(q)
  BY <1>0, <1>5 DEF PageInv, Told
<1> QED BY <1>6 DEF q

LEMMA ShownKeeps ==
    ASSUME NEW p, PageInv(p), NEW value \in Shown
    PROVE  PageInv([p EXCEPT !.shown = value])
BY DEF PageInv, PageType, Told, Loss

LEMMA RecoveredKeeps ==
    ASSUME NEW p, PageInv(p)
    PROVE  PageInv(Recovered(p))
<1>1. \E value \in Shown : Recovered(p) = [p EXCEPT !.shown = value]
  BY DEF Recovered, PageInv, PageType, Shown
<1> QED BY <1>1, ShownKeeps

\* The end is no loss.
LEMMA ClosedTells ==
    ASSUME NEW p, PageInv(p)
    PROVE  [EmitAs(p, "CLOSED", TRUE) EXCEPT !.shown = "CLOSED"].told = p.told
<1> DEFINE candidate == StreamTransition(p.shown, "CLOSED", TRUE, Epoch(p, "CLOSED"))
           losses == {c \in Shows(p.seen, candidate) : c.category = "session_disconnected"}
           closed == EmitAs(p, "CLOSED", TRUE)
<1>1. losses = {}
  BY DEF StreamTransition, Signal, Shows
<1>2. /\ closed.told = IF losses # {} THEN p.told + 1 ELSE p.told
      /\ DOMAIN closed = DOMAIN p /\ "told" \in DOMAIN p
  BY DEF EmitAs, PageInv, PageType
<1> HIDE DEF closed, losses
<1> QED BY <1>1, <1>2 DEF closed

-----------------------------------------------------------------------------
(* The invariant *)

Shaped(c) ==
    /\ "pc" \in DOMAIN c /\ c.pc \in {"off", "fetching", "reading", "handing"}
    /\ c.pc \in {"reading", "handing"} => "records" \in DOMAIN c

Typed ==
    /\ life \in {"new", "running", "stopped"}
    /\ failures \in Nat
    /\ reconnect \in BOOLEAN /\ timer \in BOOLEAN /\ polling \in BOOLEAN
    /\ Shaped(conn)

\* Before start nothing is under way.
Unstarted == life = "new" => conn.pc = "off" /\ failures = 0 /\ reconnect = FALSE

\* After stop only onRecord may still be.
Ended == life = "stopped" => conn.pc \in {"off", "handing"} /\ reconnect = FALSE

\* A stream that is stopped tells no more.
Tells == page.told \in {0, 1} /\ (life # "stopped" => PageInv(page))

StreamInv == Typed /\ Unstarted /\ OneConnection /\ Ended /\ FallsBack /\ Tells

LEMMA Starts == Init => StreamInv
<1> SUFFICES ASSUME Init PROVE StreamInv
  OBVIOUS
<1> DEFINE first == [shown |-> "CONNECTING", epoch |-> 0, seen |-> << >>, told |-> 0]
<1>1. << >> \in Seq(Identities) /\ Len(<< >>) = 0
  OBVIOUS
<1>2. PageInv(first)
  <2>1. first \in PageType
    BY <1>1 DEF PageType, Shown
  <2> QED BY <1>1, <2>1, RememberedAssumption DEF PageInv, Told
<1>3. Typed /\ Unstarted /\ OneConnection /\ Ended /\ FallsBack
  BY StreamAssumption DEF Init, NoConnection, Typed, Shaped, Unstarted, OneConnection, Ended, FallsBack
<1>4. Tells
  BY <1>2 DEF Init, Tells
<1> QED BY <1>3, <1>4 DEF StreamInv

-----------------------------------------------------------------------------
(* How the steps of connect end *)

\* A connection that fails leaves one to be tried, and polling at the limit.
LEMMA FailsKeeps ==
    ASSUME StreamInv, life = "running", Fails, polling' = polling
    PROVE  StreamInv'
<1>1. life' = "running" /\ conn'.pc = "off" /\ reconnect' = TRUE /\ Shaped(conn')
  BY DEF Fails, NoConnection, Reconnects, Shaped
<1>2. Typed'
  BY <1>1 DEF Fails, StreamInv, Typed, Polls, Shaped
<1>3. FallsBack'
  BY StreamAssumption DEF Fails, StreamInv, Typed, FallsBack, Polls
<1>4. Tells'
  <2>1. PageInv(page)
    BY DEF StreamInv, Tells
  <2>2. "POLLING" \in Shown \ {"LIVE"} /\ "RECONNECTING" \in Shown \ {"LIVE"}
    BY DEF Shown
  <2>3. PageInv(IF Polls THEN Emit(page, "POLLING") ELSE page)
    BY <2>1, <2>2, EmitKeeps
  <2>4. PageInv(page')
    BY <2>2, <2>3, EmitKeeps DEF Fails
  <2> QED BY <2>4 DEF Tells, PageInv, PageType
<1> QED BY <1>1, <1>2, <1>3, <1>4 DEF StreamInv, Unstarted, OneConnection, Ended

LEMMA StopsKeeps ==
    ASSUME StreamInv, NEW p, NEW c, Stops(p, c), polling' = polling, Shaped(c),
           [p EXCEPT !.shown = "CLOSED"].told \in {0, 1}
    PROVE  StreamInv'
<1>1. life' = "stopped" /\ reconnect' = FALSE /\ timer' = FALSE /\ failures' = failures
  BY DEF Stops
<1>2. Shaped(conn') /\ conn'.pc \in {"off", "handing"}
  BY DEF Stops, NoConnection, Shaped
<1>3. page'.told \in {0, 1}
  BY DEF Stops
<1> QED BY <1>1, <1>2, <1>3
        DEF StreamInv, Typed, Unstarted, OneConnection, Ended, FallsBack, Tells

LEMMA ClosesKeeps ==
    ASSUME StreamInv, life # "stopped", Closes, polling' = polling
    PROVE  StreamInv'
<1>1. PageInv(page) /\ page.told \in {0, 1}
  BY DEF StreamInv, Tells
<1>2. Shaped(NoConnection)
  BY DEF Shaped, NoConnection
<1> QED BY <1>1, <1>2, ClosedTells, StopsKeeps DEF Closes

\* A step of the reader or of onRecord, with any records.
LEMMA ProceedKeeps ==
    ASSUME StreamInv, life = "running", conn.pc \in {"reading", "handing"},
           NEW c, Shaped(c), "records" \in DOMAIN c, Proceed(c), polling' = polling
    PROVE  StreamInv'
<1>1. ASSUME NEW pc \in {"reading", "handing"}, conn' = [c EXCEPT !.pc = pc],
             UNCHANGED <<life, failures, reconnect, timer, page>>
      PROVE  StreamInv'
  <2>1. conn'.pc = pc /\ Shaped(conn')
    BY <1>1 DEF Shaped
  <2> QED BY <1>1, <2>1
          DEF StreamInv, Typed, Unstarted, OneConnection, Ended, FallsBack, Tells
<1>2. ASSUME Stops(page, NoConnection) PROVE StreamInv'
  <2>1. PageInv(page)
    BY DEF StreamInv, Tells
  <2>2. [page EXCEPT !.shown = "CLOSED"].told \in {0, 1}
    BY <2>1 DEF PageInv, PageType
  <2>3. Shaped(NoConnection)
    BY DEF Shaped, NoConnection
  <2> QED BY <1>2, <2>2, <2>3, StopsKeeps
<1> QED BY <1>1, <1>2, FailsKeeps, ClosesKeeps DEF Proceed

-----------------------------------------------------------------------------
(* Every step *)

LEMMA EmitsKeep ==
    ASSUME StreamInv, life = "running", NEW value \in Shown \ {"LIVE"}
    PROVE  PageInv(Emit(page, value)) /\ PageInv(Emit(Recovered(page), value))
BY EmitKeeps, RecoveredKeeps DEF StreamInv, Tells

\* Steps that change only what the page shows.
LEMMA PageSteps == StreamInv /\ (RecoveryStarts \/ RecoveryEnds) => StreamInv'
<1> SUFFICES ASSUME StreamInv, RecoveryStarts \/ RecoveryEnds PROVE StreamInv'
  OBVIOUS
<1>1. UNCHANGED <<life, failures, reconnect, timer, polling, conn>> /\ life = "running"
  BY DEF RecoveryStarts, RecoveryEnds
<1>2. PageInv(page)
  BY <1>1 DEF StreamInv, Tells
<1>3. PageInv(page')
  <2>1. CASE RecoveryStarts
    BY <2>1, <1>2, ShownKeeps DEF RecoveryStarts, Shown
  <2>2. CASE RecoveryEnds
    BY <2>2, <1>2, RecoveredKeeps DEF RecoveryEnds
  <2> QED BY <2>1, <2>2
<1>4. Tells'
  BY <1>3 DEF Tells, PageInv, PageType
<1> QED BY <1>1, <1>4 DEF StreamInv, Typed, Unstarted, OneConnection, Ended, FallsBack

LEMMA StartStep == StreamInv /\ Start => StreamInv'
<1> SUFFICES ASSUME StreamInv, Start PROVE StreamInv'
  OBVIOUS
<1>1. conn'.pc = "fetching" /\ Shaped(conn') /\ life' = "running" /\ life = "new"
  BY DEF Start, Fetching, Shaped
<1>2. PageInv(page')
  BY <1>1, EmitKeeps DEF Start, StreamInv, Tells, Shown
<1>3. Tells'
  BY <1>2 DEF Tells, PageInv, PageType
<1> QED BY <1>1, <1>3, StreamAssumption
        DEF Start, StreamInv, Typed, Unstarted, OneConnection, Ended, FallsBack

LEMMA RunsWhileConnecting ==
    ASSUME StreamInv, conn.pc \in {"fetching", "reading"}
    PROVE  life = "running" /\ reconnect = FALSE
BY DEF StreamInv, Typed, Unstarted, Ended, OneConnection

LEMMA AnsweredStep == StreamInv /\ Answered => StreamInv'
<1> SUFFICES ASSUME StreamInv, Answered PROVE StreamInv'
  OBVIOUS
<1>1. life = "running" /\ life' = life
  BY RunsWhileConnecting DEF Answered
<1>2. conn'.pc = "reading" /\ Shaped(conn')
  BY DEF Answered, Reading, Shaped
<1>3. PageInv(page')
  BY <1>1, LiveKeeps DEF Answered, StreamInv, Tells
<1>4. Tells'
  BY <1>3 DEF Tells, PageInv, PageType
<1>5. /\ failures' = 0 /\ timer' = FALSE /\ polling' = polling /\ reconnect' = reconnect
      /\ reconnect = FALSE
  BY RunsWhileConnecting DEF Answered
<1>6. Typed'
  BY <1>1, <1>2, <1>5 DEF StreamInv, Typed
<1>7. FallsBack'
  BY <1>5, StreamAssumption DEF FallsBack
<1> QED BY <1>1, <1>2, <1>4, <1>5, <1>6, <1>7
        DEF StreamInv, Unstarted, OneConnection, Ended

LEMMA RefusedSteps == StreamInv /\ (Refused \/ Unauthorized \/ Gone) => StreamInv'
<1> SUFFICES ASSUME StreamInv, Refused \/ Unauthorized \/ Gone PROVE StreamInv'
  OBVIOUS
<1>1. life = "running" /\ reconnect = FALSE
  BY RunsWhileConnecting DEF Refused, Unauthorized, Gone
<1>2. CASE Refused
  BY <1>1, <1>2, FailsKeeps DEF Refused
<1>3. CASE Unauthorized
  <2>1. life' = "stopped" /\ conn'.pc = "off" /\ Shaped(conn')
    BY <1>3 DEF Unauthorized, NoConnection, Shaped
  <2>2. PageInv(page')
    BY <1>1, <1>3, EmitsKeep DEF Unauthorized, Shown
  <2>3. Tells'
    BY <2>2 DEF Tells, PageInv, PageType
  <2> QED BY <1>1, <1>3, <2>1, <2>3
          DEF Unauthorized, StreamInv, Typed, Unstarted, OneConnection, Ended, FallsBack
<1>4. CASE Gone
  BY <1>1, <1>4, ClosesKeeps DEF Gone
<1> QED BY <1>2, <1>3, <1>4

LEMMA ReadSteps == StreamInv /\ (ReadReturns \/ ReadEnds \/ ReadBreaks) => StreamInv'
<1> SUFFICES ASSUME StreamInv, ReadReturns \/ ReadEnds \/ ReadBreaks PROVE StreamInv'
  OBVIOUS
<1>1. conn.pc = "reading" /\ polling' = polling /\ Shaped(conn)
  BY DEF ReadReturns, ReadEnds, ReadBreaks, StreamInv, Typed
<1>2. life = "running" /\ "records" \in DOMAIN conn
  BY <1>1, RunsWhileConnecting DEF Shaped
<1>3. CASE ReadBreaks
  BY <1>1, <1>2, <1>3, FailsKeeps DEF ReadBreaks
<1>4. ASSUME NEW coming, NEW parser, NEW records,
             Proceed([conn EXCEPT !.coming = coming, !.parser = parser, !.records = records])
      PROVE  StreamInv'
  <2> DEFINE c == [conn EXCEPT !.coming = coming, !.parser = parser, !.records = records]
  <2>1. Shaped(c) /\ "records" \in DOMAIN c
    BY <1>1, <1>2 DEF Shaped
  <2> HIDE DEF c
  <2>2. Proceed(c)
    BY <1>4 DEF c
  <2> QED BY <1>1, <1>2, <2>1, <2>2, ProceedKeeps
<1>5. ASSUME NEW coming, NEW parser, NEW records,
             Proceed([conn EXCEPT !.coming = coming, !.done = TRUE,
                                  !.parser = parser, !.records = records])
      PROVE  StreamInv'
  <2> DEFINE c == [conn EXCEPT !.coming = coming, !.done = TRUE,
                               !.parser = parser, !.records = records]
  <2>1. Shaped(c) /\ "records" \in DOMAIN c
    BY <1>1, <1>2 DEF Shaped
  <2> HIDE DEF c
  <2>2. Proceed(c)
    BY <1>5 DEF c
  <2> QED BY <1>1, <1>2, <2>1, <2>2, ProceedKeeps
<1>6. CASE ReadReturns
  <2>1. PICK n \in 1 .. Len(conn.coming) :
             LET parse == Push(conn.parser, SubSeq(conn.coming, 1, n))
             IN  IF parse.refused THEN Fails
                 ELSE Proceed([conn EXCEPT !.coming = SubSeq(conn.coming, n + 1, Len(conn.coming)),
                                           !.parser = parse.parser, !.records = parse.out])
    BY <1>6 DEF ReadReturns
  <2> QED BY <1>1, <1>2, <1>4, <2>1, FailsKeeps
<1>7. CASE ReadEnds
  <2>1. LET parse == Finish(conn.parser)
        IN  IF parse.refused THEN Fails
            ELSE Proceed([conn EXCEPT !.coming = << >>, !.done = TRUE,
                                      !.parser = parse.parser, !.records = parse.out])
    BY <1>7 DEF ReadEnds
  <2> QED BY <1>1, <1>2, <1>5, <2>1, FailsKeeps
<1> QED BY <1>3, <1>6, <1>7

LEMMA HandSteps == StreamInv /\ (HandReturns \/ HandRejects) => StreamInv'
<1> SUFFICES ASSUME StreamInv, HandReturns \/ HandRejects PROVE StreamInv'
  OBVIOUS
<1>1. /\ conn.pc = "handing" /\ polling' = polling /\ Shaped(conn) /\ "records" \in DOMAIN conn
      /\ life \in {"running", "stopped"}
  BY DEF HandReturns, HandRejects, StreamInv, Typed, Unstarted, Shaped
<1>2. ASSUME life = "stopped", conn' = NoConnection,
             UNCHANGED <<life, failures, reconnect, timer, page>>
      PROVE  StreamInv'
  <2>1. conn'.pc = "off" /\ Shaped(conn')
    BY <1>2 DEF NoConnection, Shaped
  <2> QED BY <1>1, <1>2, <2>1
          DEF StreamInv, Typed, Unstarted, OneConnection, Ended, FallsBack, Tells
<1>3. CASE life = "stopped"
  BY <1>2, <1>3 DEF HandReturns, HandRejects, HandsOn
<1>4. CASE life = "running" /\ HandRejects
  BY <1>1, <1>4, FailsKeeps DEF HandRejects
<1>5. CASE life = "running" /\ HandReturns
  <2> DEFINE c == [conn EXCEPT !.records = Rest(conn)]
  <2>1. Shaped(c) /\ "records" \in DOMAIN c
    BY <1>1 DEF Shaped
  <2>2. Proceed(c)
    BY <1>5 DEF HandReturns, HandsOn
  <2> HIDE DEF c
  <2> QED BY <1>1, <1>5, <2>1, <2>2, ProceedKeeps
<1> QED BY <1>1, <1>3, <1>4, <1>5

LEMMA TimerSteps == StreamInv /\ (ReconnectFires \/ PollFires \/ PollReturns) => StreamInv'
<1> SUFFICES ASSUME StreamInv, ReconnectFires \/ PollFires \/ PollReturns PROVE StreamInv'
  OBVIOUS
<1>1. CASE ReconnectFires
  <2>1. conn'.pc = "fetching" /\ Shaped(conn')
    BY <1>1 DEF ReconnectFires, Fetching, Shaped
  <2>2. life = "running"
    BY <1>1 DEF ReconnectFires, StreamInv, Typed, Unstarted, Ended
  <2> QED BY <1>1, <2>1, <2>2
          DEF ReconnectFires, StreamInv, Typed, Unstarted, OneConnection, Ended, FallsBack, Tells
<1>2. CASE PollFires
  BY <1>2 DEF PollFires, StreamInv, Typed, Unstarted, OneConnection, Ended, FallsBack, Tells
<1>3. CASE PollReturns
  <2>1. Tells'
    <3>1. CASE life = "running"
      <4>1. PageInv(page')
        BY <1>3, <3>1, EmitsKeep DEF PollReturns, Shown
      <4> QED BY <4>1 DEF Tells, PageInv, PageType
    <3>2. CASE life # "running"
      BY <1>3, <3>2 DEF PollReturns, StreamInv, Tells
    <3> QED BY <3>1, <3>2
  <2> QED BY <1>3, <2>1
          DEF PollReturns, StreamInv, Typed, Unstarted, OneConnection, Ended, FallsBack
<1> QED BY <1>1, <1>2, <1>3

LEMMA AppClosesStep == StreamInv /\ AppCloses => StreamInv'
<1> SUFFICES ASSUME StreamInv, AppCloses PROVE StreamInv'
  OBVIOUS
<1>1. PageInv(page) /\ Shaped(conn)
  BY DEF AppCloses, StreamInv, Tells, Typed
<1>2. [page EXCEPT !.shown = "CLOSED"].told \in {0, 1}
  BY <1>1 DEF PageInv, PageType
<1> QED BY <1>1, <1>2, StopsKeeps DEF AppCloses

\* What Cloud sends is for the parser.
LEMMA CloudSteps == StreamInv /\ (CloudSends \/ CloudSendsOther) => StreamInv'
<1> SUFFICES ASSUME StreamInv, CloudSends \/ CloudSendsOther PROVE StreamInv'
  OBVIOUS
<1>1. PICK lines, next : Carries(lines, next)
  BY DEF CloudSends, CloudSendsOther
<1>2. conn'.pc = conn.pc /\ Shaped(conn')
  BY <1>1 DEF Carries, StreamInv, Typed, Shaped
<1> QED BY <1>1, <1>2
        DEF Carries, StreamInv, Typed, Unstarted, OneConnection, Ended, FallsBack, Tells

LEMMA Steps == StreamInv /\ [Next]_vars => StreamInv'
<1> SUFFICES ASSUME StreamInv, [Next]_vars PROVE StreamInv'
  OBVIOUS
<1>1. CASE Next
  BY <1>1, PageSteps, StartStep, AnsweredStep, RefusedSteps, ReadSteps, HandSteps,
     TimerSteps, AppClosesStep, CloudSteps DEF Next
<1>2. CASE UNCHANGED vars
  BY <1>2 DEF vars, StreamInv, Typed, Unstarted, OneConnection, Ended, FallsBack, Tells
<1> QED BY <1>1, <1>2

LEMMA AlwaysStreamInv == Spec => []StreamInv
BY Starts, Steps, PTL DEF Spec

-----------------------------------------------------------------------------
(* What a connection carries.  A place is where a reader of Cloud's bytes is:  *)
(* the row, the number of the message that is next or under way, the type of   *)
(* the record, the line so far, and whether the CR of a CRLF has been read.    *)

Place(row, n, type) == [row |-> row, n |-> n, type |-> type, line |-> << >>, behind |-> "line"]
\* Where a record begins.
AtStart(n) == Place("start", n, "message")

\* The reader is between the CR and the LF of a CRLF.
Mid(q) == q.behind = "cr"

\* Nothing can be read behind a line that is too long.
Ruined == Place("ruined", 1, "message")

\* A line that says nothing, however long it is.
Comment(line) == IsSequence(line) /\ Len(line) # 0 /\ line[1][1] = "comment"

\* The lines Cloud sends, from row to row of a record.
Lines(q) ==
    \/ /\ q.row = "start" /\ q.type = "message"
       /\ \/ q.line = << >>
          \/ q.line = <<<<"id", q.n>>>> /\ q.n <= MaxEvents
          \/ \E t \in OtherTypes : q.line = <<<<"event", t>>>>
          \/ Comment(q.line)
    \/ /\ q.row = "data" /\ q.type = "message" /\ q.n <= MaxEvents
       /\ q.line \in {<< >>, <<<<"data", q.n>>>>, Payload(q.n)[1]}
    \/ q.row = "message" /\ q.type = "message" /\ q.n <= MaxEvents /\ q.line = << >>
    \/ q.row = "typed" /\ q.type \in OtherTypes /\ q.line \in {<< >>, <<<<"data", q.type>>>>}
    \/ q.row = "other" /\ q.type \in OtherTypes /\ q.line = << >>
    \/ q.row = "comment" /\ q.type = "message" /\ q.line = << >>

\* A place of a reader of what Cloud sends.
Fits(q) ==
    /\ q = [row |-> q.row, n |-> q.n, type |-> q.type, line |-> q.line, behind |-> q.behind]
    /\ q.n \in 1 .. MaxEvents + 1 /\ q.behind \in {"line", "cr"}
    /\ Mid(q) => q.line = << >>
    /\ Lines(q)

\* The place behind the line that q is at the end of.
Ends(q, r) ==
    \/ q.row = "start" /\ q.line = <<<<"id", q.n>>>> /\ r = Place("data", q.n, "message")
    \/ q.row = "start" /\ \E t \in OtherTypes : q.line = <<<<"event", t>>>> /\ r = Place("typed", q.n, t)
    \/ q.row = "start" /\ Comment(q.line) /\ r = Place("comment", q.n, "message")
    \/ q.row = "data" /\ q.line = Payload(q.n)[1] /\ r = Place("message", q.n, "message")
    \/ q.row = "message" /\ r = AtStart(q.n + 1)
    \/ q.row = "typed" /\ q.line = <<<<"data", q.type>>>> /\ r = Place("other", q.n, q.type)
    \/ q.row = "other" /\ r = AtStart(q.n)
    \/ q.row = "comment" /\ r = AtStart(q.n)

\* The next symbol takes the reader from q to r.
Wrote(q, c) == [q EXCEPT !.line = Append(q.line, c)]
Continues(q, c, r) == ~Mid(q) /\ c \notin {CR, LF} /\ r = Wrote(q, c)
Joined(q, c, r) == Mid(q) /\ c = LF /\ r = [q EXCEPT !.behind = "line"]
EndsLine(q, c, r, end) ==
    /\ ~Mid(q) /\ c = end[1]
    /\ \E p : Ends(q, p) /\ Fits(p) /\ r = [p EXCEPT !.behind = IF end = <<CR, LF>> THEN "cr" ELSE "line"]
Overflows(q, c, r) == ~Mid(q) /\ c \notin {CR, LF} /\ Len(q.line) >= MaxRecordBytes /\ r = Ruined

Goes(q, c, r, end) ==
    \/ q.row = "ruined" /\ r = q
    \/ Fits(q) /\ Overflows(q, c, r)
    \/ Fits(q) /\ Fits(r) /\ (Continues(q, c, r) \/ Joined(q, c, r) \/ EndsLine(q, c, r, end))

\* The bytes w take the reader from q to r.
Through(s, q, w, r, end) ==
    /\ DOMAIN s = 1 .. Len(w) + 1 /\ s[1] = q /\ s[Len(w) + 1] = r
    /\ \A j \in 1 .. Len(w) : Goes(s[j], w[j], s[j + 1], end)
Runs(q, w, r, end) == \E s : Through(s, q, w, r, end)

\* The line terminators there are.
TerminatorSet == {<<LF>>, <<CR>>, <<CR, LF>>}

\* One symbol.
LEMMA RunOne ==
    ASSUME NEW q, NEW c, NEW r, NEW end, Goes(q, c, r, end)
    PROVE  Runs(q, <<c>>, r, end)
<1> DEFINE s == [j \in 1 .. 2 |-> IF j = 1 THEN q ELSE r]
<1>1. Len(<<c>>) = 1 /\ <<c>>[1] = c
  OBVIOUS
<1>2. \A j \in 1 .. 1 : j = 1
  OBVIOUS
<1>3. Through(s, q, <<c>>, r, end)
  BY <1>1, <1>2 DEF Through
<1> QED BY <1>3 DEF Runs

\* What follows.
LEMMA RunOn ==
    ASSUME NEW q, NEW v, IsSequence(v), NEW r, NEW w, IsSequence(w), NEW t, NEW end,
           Runs(q, v, r, end), Runs(r, w, t, end)
    PROVE  Runs(q, v \o w, t, end)
<1>1. PICK a : Through(a, q, v, r, end)
  BY DEF Runs
<1>2. PICK b : Through(b, r, w, t, end)
  BY DEF Runs
<1>3. /\ Len(v) \in Nat /\ Len(w) \in Nat /\ Len(v \o w) = Len(v) + Len(w)
      /\ \A i \in 1 .. Len(v) : (v \o w)[i] = v[i]
      /\ \A i \in 1 .. Len(w) : (v \o w)[Len(v) + i] = w[i]
  <2>1. Len(v) \in Nat /\ Len(w) \in Nat
    BY SequenceBasics
  <2>2. Len(v \o w) = Len(v) + Len(w)
    BY JoinedSequences
  <2>3. \A i \in 1 .. Len(v) : (v \o w)[i] = v[i]
    BY JoinedSequences
  <2>4. \A i \in 1 .. Len(w) : (v \o w)[Len(v) + i] = w[i]
    BY JoinedSequences
  <2> QED BY <2>1, <2>2, <2>3, <2>4
<1> DEFINE n == Len(v)
           s == [j \in 1 .. Len(v) + Len(w) + 1 |-> IF j <= Len(v) THEN a[j] ELSE b[j - Len(v)]]
<1>4. /\ \A j \in 1 .. n + 1 : s[j] = a[j]
      /\ \A j \in 1 .. Len(w) + 1 : s[n + j] = b[j]
  <2>1. ASSUME NEW j \in 1 .. Len(w) + 1 PROVE s[n + j] = b[j]
    <3>1. n + j \in 1 .. n + Len(w) + 1 /\ ~(n + j <= n) /\ n + j - n = j
      BY <1>3
    <3> QED BY <3>1
  <2>2. ASSUME NEW j \in 1 .. n PROVE s[j] = a[j]
    <3>1. j \in 1 .. n + Len(w) + 1 /\ j <= n
      BY <1>3
    <3> QED BY <3>1
  <2>3. s[n + 1] = b[1] /\ b[1] = a[n + 1]
    BY <1>1, <1>2, <1>3, <2>1 DEF Through
  <2> QED BY <1>3, <2>1, <2>2, <2>3
<1>5. DOMAIN s = 1 .. n + Len(w) + 1
  OBVIOUS
<1> HIDE DEF s
<1>6. ASSUME NEW j \in 1 .. n + Len(w) PROVE Goes(s[j], (v \o w)[j], s[j + 1], end)
  <2>1. CASE j <= n
    <3>1. j \in 1 .. n /\ j \in 1 .. n + 1 /\ j + 1 \in 1 .. n + 1
      BY <1>3, <2>1
    <3> QED BY <1>1, <1>3, <1>4, <3>1 DEF Through
  <2>2. CASE ~(j <= n)
    <3>1. PICK i \in 1 .. Len(w) : j = n + i
      <4>1. j - n \in 1 .. Len(w) /\ j = n + (j - n)
        BY <1>3, <2>2
      <4> QED BY <4>1
    <3>2. i \in 1 .. Len(w) + 1 /\ i + 1 \in 1 .. Len(w) + 1 /\ j + 1 = n + (i + 1)
      BY <1>3, <3>1
    <3>3. s[j] = b[i] /\ s[j + 1] = b[i + 1] /\ (v \o w)[j] = w[i]
      BY <1>3, <1>4, <3>1, <3>2
    <3> QED BY <1>2, <3>1, <3>3 DEF Through
  <2> QED BY <2>1, <2>2
<1>7. s[1] = q /\ s[n + Len(w) + 1] = t
  <2>1. 1 \in 1 .. n + 1 /\ Len(w) + 1 \in 1 .. Len(w) + 1 /\ n + (Len(w) + 1) = n + Len(w) + 1
    BY <1>3
  <2> QED BY <1>1, <1>2, <1>4, <2>1 DEF Through
<1>8. Through(s, q, v \o w, t, end)
  BY <1>3, <1>5, <1>6, <1>7 DEF Through
<1> QED BY <1>8 DEF Runs

\* Behind a line that is too long.
LEMMA RunRuined ==
    ASSUME NEW w, IsSequence(w), NEW end
    PROVE  Runs(Ruined, w, Ruined, end)
<1> DEFINE s == [j \in 1 .. Len(w) + 1 |-> Ruined]
<1>1. Len(w) \in Nat
  BY SequenceBasics
<1>2. Ruined.row = "ruined"
  BY DEF Ruined, Place
<1>3. Through(s, Ruined, w, Ruined, end)
  BY <1>1, <1>2 DEF Through, Goes
<1> QED BY <1>3 DEF Runs

\* Nothing.
LEMMA RunNothing == ASSUME NEW q, NEW end PROVE Runs(q, << >>, q, end)
<1> DEFINE s == [j \in 1 .. 1 |-> q]
<1>1. Len(<< >>) = 0
  OBVIOUS
<1>2. Through(s, q, << >>, q, end)
  BY <1>1 DEF Through
<1> QED BY <1>2 DEF Runs

LEMMA PlaceFields ==
    ASSUME NEW row, NEW n, NEW t
    PROVE  /\ Place(row, n, t).row = row /\ Place(row, n, t).n = n /\ Place(row, n, t).type = t
           /\ Place(row, n, t).line = << >> /\ ~Mid(Place(row, n, t))
           /\ Place(row, n, t).behind = "line"
BY DEF Place, Mid

\* The places where lines begin.
LEMMA PlacesFit ==
    ASSUME NEW n \in 1 .. MaxEvents + 1
    PROVE  /\ Fits(AtStart(n)) /\ Fits(Place("comment", n, "message"))
           /\ n <= MaxEvents => Fits(Place("data", n, "message")) /\ Fits(Place("message", n, "message"))
           /\ \A t \in OtherTypes : Fits(Place("typed", n, t)) /\ Fits(Place("other", n, t))
<1>1. ASSUME NEW row, NEW t, Lines(Place(row, n, t)) PROVE Fits(Place(row, n, t))
  BY <1>1 DEF Fits, Place
<1>2. /\ Lines(AtStart(n)) /\ Lines(Place("comment", n, "message"))
      /\ n <= MaxEvents => Lines(Place("data", n, "message")) /\ Lines(Place("message", n, "message"))
      /\ \A t \in OtherTypes : Lines(Place("typed", n, t)) /\ Lines(Place("other", n, t))
  <2>1. \A row, t : /\ Place(row, n, t).row = row /\ Place(row, n, t).n = n
                    /\ Place(row, n, t).type = t /\ Place(row, n, t).line = << >>
    BY PlaceFields
  <2>2. Lines(Place("start", n, "message")) /\ Lines(Place("comment", n, "message"))
    BY <2>1 DEF Lines
  <2>3. n <= MaxEvents => Lines(Place("data", n, "message")) /\ Lines(Place("message", n, "message"))
    BY <2>1 DEF Lines
  <2>4. ASSUME NEW t \in OtherTypes PROVE Lines(Place("typed", n, t)) /\ Lines(Place("other", n, t))
    BY <2>1 DEF Lines
  <2> QED BY <2>2, <2>3, <2>4 DEF AtStart
<1> QED BY <1>1, <1>2 DEF AtStart

\* A line that ends.
LEMMA RunEnd ==
    ASSUME NEW q, Fits(q), ~Mid(q), NEW p, Ends(q, p), Fits(p), ~Mid(p),
           NEW end \in TerminatorSet
    PROVE  Runs(q, end, p, end)
<1>0. PICK row, n, t : p = Place(row, n, t)
  BY DEF Ends, AtStart
<1>1. p = [p EXCEPT !.behind = "line"] /\ p.line = << >>
  BY <1>0 DEF Place
<1>2. CASE end # <<CR, LF>>
  <2>1. end = <<end[1]>>
    BY <1>2 DEF TerminatorSet
  <2>2. EndsLine(q, end[1], p, end)
    BY <1>1, <1>2 DEF EndsLine
  <2>3. Goes(q, end[1], p, end)
    BY <2>2 DEF Goes
  <2> QED BY <2>1, <2>3, RunOne
<1>3. CASE end = <<CR, LF>>
  <2> DEFINE m == [p EXCEPT !.behind = "cr"]
  <2>1. Fits(m)
    <3>1. p.n \in 1 .. MaxEvents + 1 /\ Lines(p)
      BY DEF Fits
    <3>2. /\ m = [row |-> row, n |-> n, type |-> t, line |-> << >>, behind |-> "cr"]
          /\ p.row = row /\ p.n = n /\ p.type = t /\ p.line = << >>
          /\ m.row = p.row /\ m.n = p.n /\ m.type = p.type /\ m.line = p.line /\ m.behind = "cr"
      BY <1>0 DEF Place
    <3>3. Lines(m)
      BY <3>1, <3>2 DEF Lines
    <3> HIDE DEF m
    <3> QED BY <1>1, <3>1, <3>2, <3>3 DEF Fits
  <2>2. EndsLine(q, CR, m, end)
    BY <1>3 DEF EndsLine
  <2>3. Joined(m, LF, p)
    <3>1. m.behind = "cr" /\ p = [m EXCEPT !.behind = "line"]
      <4>1. m = [row |-> row, n |-> n, type |-> t, line |-> << >>, behind |-> "cr"]
        BY <1>0 DEF Place
      <4> HIDE DEF m
      <4> QED BY <1>0, <4>1 DEF Place
    <3> QED BY <3>1 DEF Joined, Mid
  <2> HIDE DEF m
  <2>4. Goes(q, CR, m, end) /\ Goes(m, LF, p, end)
    BY <2>1, <2>2, <2>3 DEF Goes
  <2>5. Runs(q, <<CR>>, m, end) /\ Runs(m, <<LF>>, p, end)
    BY <2>4, RunOne
  <2>6. <<CR, LF>> = <<CR>> \o <<LF>> /\ IsSequence(<<CR>>) /\ IsSequence(<<LF>>)
    <3>1. <<CR>> \in Seq({CR}) /\ <<LF>> \in Seq({LF})
      OBVIOUS
    <3>2. <<CR, LF>> = <<CR>> \o <<LF>>
      OBVIOUS
    <3> QED BY <3>1, <3>2, MembersMakeSequence
  <2> QED BY <1>3, <2>5, <2>6, RunOn
<1> QED BY <1>2, <1>3

LEMMA EndsAreSequences == \A end \in TerminatorSet : IsSequence(end)
BY TuplesAreSequences DEF TerminatorSet

\* What follows in a line without a terminator.
LEMMA RunSymbol ==
    ASSUME NEW q, Fits(q), ~Mid(q), NEW c, c \notin {CR, LF}, Lines(Wrote(q, c)), NEW end
    PROVE  LET r == Wrote(q, c) IN
           /\ Fits(r) /\ ~Mid(r) /\ r.row = q.row /\ r.n = q.n /\ r.type = q.type
           /\ r.line = Append(q.line, c) /\ Runs(q, <<c>>, r, end)
<1> DEFINE r == Wrote(q, c)
<1>1. /\ r.row = q.row /\ r.n = q.n /\ r.type = q.type /\ r.behind = q.behind /\ r.line = Append(q.line, c) /\ ~Mid(r)
      /\ r = [row |-> r.row, n |-> r.n, type |-> r.type, line |-> r.line, behind |-> r.behind]
  BY DEF Fits, Mid, Wrote
<1> HIDE DEF r
<1>2. Fits(r)
  BY <1>1 DEF Fits, Mid, r
<1>3. Goes(q, c, r, end)
  BY <1>2 DEF Goes, Continues, r
<1> QED BY <1>1, <1>2, <1>3, RunOne DEF r

\* A whole line and its end.
LEMMA RunLine ==
    ASSUME NEW q, Fits(q), NEW w, IsSequence(w), NEW r, Fits(r), ~Mid(r), NEW p, Ends(r, p), Fits(p), ~Mid(p),
           NEW end \in TerminatorSet, Runs(q, w, r, end)
    PROVE  Runs(q, w \o end, p, end) /\ IsSequence(w \o end)
BY RunEnd, RunOn, EndsAreSequences, JoinedSequences

\* The first symbol of a line.
LEMMA RunWord ==
    ASSUME NEW row, NEW n, NEW t, Fits(Place(row, n, t)), NEW c, c \notin {CR, LF},
           Lines(Wrote(Place(row, n, t), c)), NEW end
    PROVE  LET r == Wrote(Place(row, n, t), c) IN
           /\ Fits(r) /\ ~Mid(r) /\ r.row = row /\ r.n = n /\ r.type = t /\ r.line = <<c>>
           /\ Runs(Place(row, n, t), <<c>>, r, end)
<1> DEFINE q == Place(row, n, t)
<1>1. q.row = row /\ q.n = n /\ q.type = t /\ q.line = << >> /\ ~Mid(q)
  BY PlaceFields
<1>2. Append(q.line, c) = <<c>>
  BY <1>1, TuplesAreSequences
<1> HIDE DEF q
<1> QED BY <1>1, <1>2, RunSymbol DEF q

\* Its fields, when the line has one symbol.
LEMMA WordFields ==
    ASSUME NEW row, NEW n, NEW t, NEW c
    PROVE  LET r == Wrote(Place(row, n, t), c) IN
           r.row = row /\ r.n = n /\ r.type = t /\ r.line = <<c>>
<1>1. Append(<< >>, c) = <<c>>
  BY TuplesAreSequences
<1>2. Wrote(Place(row, n, t), c) = [row |-> row, n |-> n, type |-> t, line |-> Append(<< >>, c), behind |-> "line"]
  BY DEF Wrote, Place
<1> QED BY <1>1, <1>2

\* A message takes a reader from its start to that of the next.
LEMMA RunMessage ==
    ASSUME NEW n \in 1 .. MaxEvents, NEW end \in TerminatorSet
    PROVE  Runs(AtStart(n), Message(n, end), AtStart(n + 1), end) /\ IsSequence(Message(n, end))
<1> DEFINE q0 == AtStart(n)
           q1 == Place("data", n, "message")
           q2 == Place("message", n, "message")
           i == <<"id", n>>
           d == <<"data", n>>
           x == <<"rest", n>>
           a == Wrote(q0, i)
           b == Wrote(q1, d)
           c == Wrote(b, x)
<1>1. /\ Fits(q0) /\ Fits(q1) /\ Fits(q2) /\ Fits(AtStart(n + 1))
      /\ ~Mid(q0) /\ ~Mid(q1) /\ ~Mid(q2) /\ ~Mid(AtStart(n + 1))
  <2>1. n \in 1 .. MaxEvents + 1 /\ n + 1 \in 1 .. MaxEvents + 1 /\ n <= MaxEvents
    BY StreamAssumption
  <2> QED BY <2>1, PlacesFit, PlaceFields DEF AtStart
<1>2. Fits(a) /\ ~Mid(a) /\ a.row = "start" /\ a.n = n /\ a.line = <<i>> /\ Runs(q0, <<i>>, a, end)
  <2>1. i \notin {CR, LF} /\ n <= MaxEvents
    BY StreamAssumption DEF CR, LF
  <2>2. Lines(a)
    BY <2>1, WordFields DEF Lines, AtStart
  <2> HIDE DEF i, a
  <2> QED BY <1>1, <2>1, <2>2, RunWord DEF a, AtStart
<1>3. Fits(b) /\ ~Mid(b) /\ b.row = "data" /\ b.type = "message" /\ b.n = n /\ b.line = <<d>> /\ Runs(q1, <<d>>, b, end)
  <2>1. d \notin {CR, LF} /\ n <= MaxEvents
    BY StreamAssumption DEF CR, LF
  <2>2. Lines(b)
    <3>1. b.row = "data" /\ b.n = n /\ b.type = "message" /\ b.line = <<d>>
      BY WordFields
    <3> HIDE DEF b
    <3> QED BY <2>1, <3>1 DEF Lines
  <2> HIDE DEF d, b
  <2> QED BY <1>1, <2>1, <2>2, RunWord DEF b, AtStart
<1>4. Fits(c) /\ ~Mid(c) /\ c.row = "data" /\ c.n = n /\ c.line = Payload(n)[1] /\ Runs(b, <<x>>, c, end)
  <2> HIDE DEF b
  <2>1. x \notin {CR, LF} /\ Append(<<d>>, x) = <<d, x>> /\ Payload(n)[1] = <<d, x>>
    <3>1. x \notin {CR, LF} /\ Payload(n)[1] = <<d, x>>
      BY DEF Payload, CR, LF
    <3> HIDE DEF d, x
    <3>2. Append(<<d>>, x) = <<d, x>>
      BY TuplesAreSequences
    <3> QED BY <3>1, <3>2
  <2>2. c.row = b.row /\ c.type = b.type /\ c.n = b.n /\ c.line = Append(b.line, x)
    BY <1>3 DEF Fits, Wrote
  <2>3. Lines(c)
    BY <1>3, <2>1, <2>2 DEF Lines
  <2> HIDE DEF x, d
  <2> QED BY <1>3, <2>1, <2>2, <2>3, RunSymbol
<1>5. Ends(a, q1) /\ Ends(c, q2) /\ Ends(q2, AtStart(n + 1))
  <2>1. Ends(a, q1) /\ Ends(c, q2)
    <3> HIDE DEF a, c
    <3> QED BY <1>2, <1>4 DEF Ends
  <2>2. Ends(q2, AtStart(n + 1))
    BY PlaceFields DEF Ends
  <2> QED BY <2>1, <2>2
<1> HIDE DEF a, b, c, q0, q1, q2
<1>6. Runs(q0, <<i>> \o end, q1, end) /\ IsSequence(<<i>> \o end)
  BY <1>1, <1>2, <1>5, RunLine, TuplesAreSequences
<1>7. Runs(q1, Payload(n)[1], c, end) /\ IsSequence(Payload(n)[1])
  <2>1. Payload(n)[1] = <<d>> \o <<x>>
    BY DEF Payload
  <2> HIDE DEF d, x
  <2> QED BY <1>3, <1>4, <2>1, RunOn, TuplesAreSequences, JoinedSequences
<1>8. Runs(q0, <<i>> \o end \o Payload(n)[1], c, end) /\ IsSequence(<<i>> \o end \o Payload(n)[1])
  BY <1>6, <1>7, RunOn, JoinedSequences
<1>9. Runs(q0, <<i>> \o end \o Payload(n)[1] \o end, q2, end) /\ IsSequence(<<i>> \o end \o Payload(n)[1] \o end)
  BY <1>1, <1>4, <1>5, <1>8, RunLine
<1>10. Runs(q0, <<i>> \o end \o Payload(n)[1] \o end \o end, AtStart(n + 1), end)
       /\ IsSequence(<<i>> \o end \o Payload(n)[1] \o end \o end)
  BY <1>1, <1>5, <1>9, RunLine
<1> QED BY <1>10 DEF Message, q0

\* What Cloud sends, from the start of a record to the start of the next.
LEMMA RunNamed ==
    ASSUME NEW n \in 1 .. MaxEvents + 1, NEW t \in OtherTypes, NEW end \in TerminatorSet
    PROVE  Runs(AtStart(n), Named(t, end), AtStart(n), end) /\ IsSequence(Named(t, end))
<1> DEFINE q0 == AtStart(n)
           q1 == Place("typed", n, t)
           q2 == Place("other", n, t)
           e == <<"event", t>>
           d == <<"data", t>>
           a == Wrote(q0, e)
           b == Wrote(q1, d)
<1>1. /\ Fits(q0) /\ Fits(q1) /\ Fits(q2) /\ ~Mid(q0) /\ ~Mid(q1) /\ ~Mid(q2)
  BY PlacesFit, PlaceFields DEF AtStart
<1>2. Fits(a) /\ ~Mid(a) /\ a.row = "start" /\ a.n = n /\ a.line = <<e>> /\ Runs(q0, <<e>>, a, end)
  <2>1. e \notin {CR, LF}
    BY DEF CR, LF
  <2>2. Lines(a)
    BY WordFields DEF Lines, AtStart
  <2> HIDE DEF e, a
  <2> QED BY <1>1, <2>1, <2>2, RunWord DEF a, AtStart
<1>3. Fits(b) /\ ~Mid(b) /\ b.row = "typed" /\ b.type = t /\ b.n = n /\ b.line = <<d>> /\ Runs(q1, <<d>>, b, end)
  <2>1. d \notin {CR, LF}
    BY DEF CR, LF
  <2>2. Lines(b)
    <3>1. b.row = "typed" /\ b.n = n /\ b.type = t /\ b.line = <<d>>
      BY WordFields
    <3> HIDE DEF b
    <3> QED BY <3>1 DEF Lines
  <2> HIDE DEF d, b
  <2> QED BY <1>1, <2>1, <2>2, RunWord DEF b, AtStart
<1>4. Ends(a, q1) /\ Ends(b, q2) /\ Ends(q2, q0)
  <2>1. Ends(a, q1) /\ Ends(b, q2)
    <3> HIDE DEF a, b
    <3> QED BY <1>2, <1>3 DEF Ends
  <2>2. Ends(q2, q0)
    BY PlaceFields DEF Ends
  <2> QED BY <2>1, <2>2
<1> HIDE DEF a, b, q0, q1, q2
<1>5. Runs(q0, <<e>> \o end, q1, end) /\ IsSequence(<<e>> \o end)
  BY <1>1, <1>2, <1>4, RunLine, TuplesAreSequences
<1>6. Runs(q0, <<e>> \o end \o <<d>>, b, end) /\ IsSequence(<<e>> \o end \o <<d>>)
  BY <1>3, <1>5, RunOn, TuplesAreSequences, JoinedSequences
<1>7. Runs(q0, <<e>> \o end \o <<d>> \o end, q2, end) /\ IsSequence(<<e>> \o end \o <<d>> \o end)
  BY <1>1, <1>3, <1>4, <1>6, RunLine
<1>8. Runs(q0, <<e>> \o end \o <<d>> \o end \o end, q0, end) /\ IsSequence(<<e>> \o end \o <<d>> \o end \o end)
  BY <1>1, <1>4, <1>7, RunLine
<1> QED BY <1>8 DEF Named, q0

LEMMA RunPing ==
    ASSUME NEW n \in 1 .. MaxEvents + 1, NEW end \in TerminatorSet
    PROVE  Runs(AtStart(n), Ping(end), AtStart(n), end) /\ IsSequence(Ping(end))
<1> DEFINE q0 == AtStart(n)
           q1 == Place("comment", n, "message")
           e == <<"comment", 0>>
           a == Wrote(q0, e)
<1>1. /\ Fits(q0) /\ Fits(q1) /\ ~Mid(q0) /\ ~Mid(q1)
  BY PlacesFit, PlaceFields DEF AtStart
<1>2. Fits(a) /\ ~Mid(a) /\ a.row = "start" /\ a.n = n /\ a.line = <<e>> /\ Runs(q0, <<e>>, a, end)
      /\ Comment(a.line)
  <2>1. e \notin {CR, LF}
    BY DEF CR, LF
  <2>2. IsSequence(<<e>>) /\ Len(<<e>>) = 1
    BY TuplesAreSequences
  <2>3. Comment(<<e>>)
    BY <2>2 DEF Comment
  <2>4. Lines(a) /\ Comment(a.line)
    BY <2>3, WordFields DEF Lines, AtStart
  <2> HIDE DEF e, a
  <2> QED BY <1>1, <2>1, <2>4, RunWord DEF a, AtStart
<1>3. Ends(a, q1) /\ Ends(q1, q0)
  <2>1. Ends(a, q1)
    <3> HIDE DEF a
    <3> QED BY <1>2 DEF Ends
  <2>2. Ends(q1, q0)
    BY PlaceFields DEF Ends
  <2> QED BY <2>1, <2>2
<1> HIDE DEF a, q0, q1
<1>4. Runs(q0, <<e>> \o end, q1, end) /\ IsSequence(<<e>> \o end)
  BY <1>1, <1>2, <1>3, RunLine, TuplesAreSequences
<1>5. Runs(q0, <<e>> \o end \o end, q0, end) /\ IsSequence(<<e>> \o end \o end)
  BY <1>1, <1>3, <1>4, RunLine
<1> QED BY <1>5 DEF Ping, q0

\* A line that does not end leaves nothing to be read.
LEMMA RunEndless ==
    ASSUME NEW n \in 1 .. MaxEvents + 1, NEW end \in TerminatorSet
    PROVE  Runs(AtStart(n), Endless, Ruined, end) /\ IsSequence(Endless)
<1> DEFINE N == MaxRecordBytes + 1
           line(k) == [i \in 1 .. k |-> <<"comment", i>>]
           q(k) == [AtStart(n) EXCEPT !.line = line(k)]
           s == [j \in 1 .. N + 1 |-> IF j = N + 1 THEN Ruined ELSE q(j - 1)]
<1>1. N \in Nat /\ N >= 2
  BY ParserAssumption
<1>2. ASSUME NEW k \in Nat
      PROVE  /\ IsSequence(line(k)) /\ Len(line(k)) = k
             /\ Append(line(k), <<"comment", k + 1>>) = line(k + 1)
  <2> DEFINE T == {<<"comment", i>> : i \in Nat}
  <2>1. ASSUME NEW m \in Nat PROVE IsSequence(line(m)) /\ Len(line(m)) = m
    <3>1. line(m) \in [1 .. m -> T]
      OBVIOUS
    <3>2. line(m) \in Seq(T) /\ Len(line(m)) = m
      BY <3>1
    <3> QED BY <3>2, MembersMakeSequence
  <2>2. /\ IsSequence(line(k)) /\ Len(line(k)) = k
        /\ IsSequence(line(k + 1)) /\ Len(line(k + 1)) = k + 1
    <3> HIDE DEF line
    <3> QED BY <2>1
  <2> DEFINE u == Append(line(k), <<"comment", k + 1>>)
  <2>3. /\ IsSequence(u) /\ DOMAIN u = 1 .. k + 1
        /\ \A i \in 1 .. k : u[i] = line(k)[i]
        /\ u[k + 1] = <<"comment", k + 1>>
    <3>1. DOMAIN line(k) = 1 .. k
      OBVIOUS
    <3> HIDE DEF line
    <3> QED BY <2>2, <3>1, AppendToSequence
  <2>4. \A i \in 1 .. k + 1 : u[i] = line(k + 1)[i]
    <3> HIDE DEF u
    <3> QED BY <2>3
  <2>5. DOMAIN line(k + 1) = 1 .. k + 1
    OBVIOUS
  <2>6. u = line(k + 1)
    <3> HIDE DEF u, line
    <3> QED BY <2>2, <2>3, <2>4, <2>5, SameSequence
  <2> QED BY <2>2, <2>6
<1>3. ASSUME NEW k \in Nat
      PROVE  /\ Fits(q(k)) /\ ~Mid(q(k)) /\ q(k).line = line(k)
             /\ q(k + 1) = [q(k) EXCEPT !.line = line(k + 1)]
  <2>1. /\ q(k) = [row |-> "start", n |-> n, type |-> "message", line |-> line(k), behind |-> "line"]
        /\ q(k + 1) = [row |-> "start", n |-> n, type |-> "message", line |-> line(k + 1), behind |-> "line"]
    <3> HIDE DEF line
    <3> QED BY DEF AtStart, Place
  <2>2. line(k) = << >> \/ Comment(line(k))
    <3>1. CASE k = 0
      <4>1. IsSequence(line(k)) /\ Len(line(k)) = 0
        BY <1>2, <3>1
      <4> HIDE DEF line
      <4>2. DOMAIN line(k) = 1 .. 0 /\ DOMAIN << >> = 1 .. 0 /\ IsSequence(<< >>)
        BY <4>1, SequenceBasics, EmptyIsSequence
      <4> QED BY <4>1, <4>2, SameSequence
    <3>2. CASE k # 0
      <4>1. 1 \in 1 .. k
        BY <3>2
      <4>2. line(k)[1] = <<"comment", 1>>
        BY <4>1
      <4> HIDE DEF line
      <4> QED BY <1>2, <3>2, <4>2 DEF Comment
    <3> HIDE DEF line
    <3> QED BY <3>1, <3>2
  <2> HIDE DEF q, line
  <2>3. q(k).row = "start" /\ q(k).n = n /\ q(k).type = "message" /\ q(k).line = line(k) /\ q(k).behind = "line"
    BY <2>1
  <2>4. Lines(q(k))
    BY <2>2, <2>3 DEF Lines
  <2>5. q(k + 1) = [q(k) EXCEPT !.line = line(k + 1)]
    BY <2>1
  <2> QED BY <2>1, <2>3, <2>4, <2>5 DEF Fits, Mid
<1>4. ASSUME NEW j \in 1 .. N PROVE Goes(s[j], <<"comment", j>>, s[j + 1], end)
  <2>1. <<"comment", j>> \notin {CR, LF}
    BY DEF CR, LF
  <2>2. j - 1 \in Nat /\ j - 1 + 1 = j /\ j + 1 - 1 = j /\ j \in Nat
    BY <1>1
  <2>3. s[j] = q(j - 1)
    <3> HIDE DEF q
    <3> QED BY <1>1
  <2>4. CASE j = N
    <3>1. s[j + 1] = Ruined
      <4> HIDE DEF q
      <4> QED BY <1>1, <2>4
    <3>2. Len(q(j - 1).line) >= MaxRecordBytes
      <4>1. q(j - 1).line = line(j - 1) /\ Len(line(j - 1)) = j - 1
        <5> HIDE DEF q, line
        <5> QED BY <1>2, <1>3, <2>2
      <4> QED BY <4>1, <2>4, ParserAssumption
    <3>3. Fits(q(j - 1)) /\ ~Mid(q(j - 1))
      <4> HIDE DEF q, line
      <4> QED BY <1>3, <2>2
    <3> HIDE DEF q, s
    <3> QED BY <2>1, <2>3, <3>1, <3>2, <3>3 DEF Goes, Overflows
  <2>5. CASE j # N
    <3>1. s[j + 1] = q(j)
      <4> HIDE DEF q
      <4> QED BY <1>1, <2>2, <2>5
    <3>2. Fits(q(j - 1)) /\ ~Mid(q(j - 1)) /\ Fits(q(j))
          /\ q(j) = [q(j - 1) EXCEPT !.line = Append(q(j - 1).line, <<"comment", j>>)]
      <4> HIDE DEF q, line
      <4>1. /\ Fits(q(j - 1)) /\ ~Mid(q(j - 1)) /\ q(j - 1).line = line(j - 1) /\ Fits(q(j))
            /\ q(j - 1 + 1) = [q(j - 1) EXCEPT !.line = line(j - 1 + 1)]
            /\ Append(line(j - 1), <<"comment", j - 1 + 1>>) = line(j - 1 + 1)
        BY <1>2, <1>3, <2>2
      <4> QED BY <2>2, <4>1
    <3> HIDE DEF q, s
    <3> QED BY <2>1, <2>3, <3>1, <3>2 DEF Goes, Continues, Wrote
  <2> QED BY <2>4, <2>5
<1>5. IsSequence(Endless) /\ Len(Endless) = N /\ \A j \in 1 .. N : Endless[j] = <<"comment", j>>
  BY <1>1, <1>2 DEF Endless
<1>6. s[1] = AtStart(n)
  <2>1. s[1] = q(0)
    <3> HIDE DEF q
    <3> QED BY <1>1
  <2>2. line(0) = << >>
    <3>1. IsSequence(line(0)) /\ Len(line(0)) = 0
      BY <1>2
    <3> HIDE DEF line
    <3>2. DOMAIN line(0) = 1 .. 0 /\ DOMAIN << >> = 1 .. 0 /\ IsSequence(<< >>)
      BY <3>1, SequenceBasics, EmptyIsSequence
    <3> QED BY <3>1, <3>2, SameSequence
  <2>3. q(0) = AtStart(n)
    <3> HIDE DEF line
    <3> QED BY <2>2 DEF AtStart, Place
  <2> QED BY <2>1, <2>3
<1>7. s[N + 1] = Ruined /\ DOMAIN s = 1 .. N + 1
  <2> HIDE DEF q
  <2> QED BY <1>1
<1> HIDE DEF s
<1>8. Through(s, AtStart(n), Endless, Ruined, end)
  BY <1>4, <1>5, <1>6, <1>7 DEF Through
<1> QED BY <1>5, <1>8 DEF Runs

-----------------------------------------------------------------------------
(* The parser keeps its shape                                               *)

\* The shapes of a parser and of a parse.
IsParser(x) ==
    /\ x = [text |-> x.text, data |-> x.data, event |-> x.event, id |-> x.id, bytes |-> x.bytes]
    /\ IsSequence(x.text) /\ IsSequence(x.data) /\ x.bytes \in Nat

IsParse(p) ==
    /\ p = [parser |-> p.parser, out |-> p.out, refused |-> p.refused]
    /\ p.refused \in BOOLEAN /\ IsParser(p.parser) /\ IsSequence(p.out)

\* A refusal is one.
LEMMA RefuseRefuses ==
    ASSUME NEW p, "refused" \in DOMAIN p
    PROVE  Refuse(p).refused /\ "refused" \in DOMAIN Refuse(p)
<1> DEFINE a == [p EXCEPT !.refused = TRUE]
<1>1. a.refused /\ "refused" \in DOMAIN a
  OBVIOUS
<1>2. Refuse(p) = [a EXCEPT !.out = << >>]
  BY DEF Refuse
<1> HIDE DEF a
<1> QED BY <1>1, <1>2

\* What an empty line does.
LEMMA DispatchGives ==
    ASSUME NEW p, IsParse(p), p.refused = FALSE
    PROVE  LET r == Dispatch(p) IN
           /\ IsParse(r) /\ r.refused = FALSE
           /\ r.parser = [text |-> p.parser.text, data |-> << >>, event |-> "message",
                          id |-> p.parser.id, bytes |-> 0]
           /\ r.out = IF p.parser.data = << >> THEN p.out
                      ELSE Append(p.out, [type |-> p.parser.event, data |-> p.parser.data,
                                          id |-> p.parser.id])
<1> DEFINE r == Dispatch(p)
           x == p.parser
           out == IF x.data = << >> THEN p.out
                  ELSE Append(p.out, [type |-> x.event, data |-> x.data, id |-> x.id])
           y == [text |-> x.text, data |-> << >>, event |-> "message", id |-> x.id, bytes |-> 0]
<1>1. ResetRecord(x) = y
  <2>1. x = [text |-> x.text, data |-> x.data, event |-> x.event, id |-> x.id, bytes |-> x.bytes]
    BY DEF IsParse, IsParser
  <2> DEFINE a == [x EXCEPT !.data = << >>]
             b == [a EXCEPT !.event = "message"]
  <2>2. ResetRecord(x) = [b EXCEPT !.bytes = 0]
    BY DEF ResetRecord
  <2> HIDE DEF x
  <2>3. a = [text |-> x.text, data |-> << >>, event |-> x.event, id |-> x.id, bytes |-> x.bytes]
    BY <2>1
  <2> HIDE DEF a
  <2>4. b = [text |-> x.text, data |-> << >>, event |-> "message", id |-> x.id, bytes |-> x.bytes]
    BY <2>3
  <2> HIDE DEF b
  <2> QED BY <2>2, <2>4
<1>2. r = [p EXCEPT !.parser = ResetRecord(x), !.out = out]
  BY DEF Dispatch
<1>3. IsSequence(<< >>) /\ IsSequence(out) /\ IsSequence(x.text)
  BY EmptyIsSequence, AppendToSequence DEF IsParse, IsParser
<1>4. IsParser(y)
  BY <1>3 DEF IsParser
<1> HIDE DEF x, y, out
<1>5. r = [parser |-> y, out |-> out, refused |-> FALSE]
  BY <1>1, <1>2 DEF IsParse
<1> HIDE DEF r
<1>6. IsParse(r) /\ r.refused = FALSE /\ r.parser = y /\ r.out = out
  BY <1>3, <1>4, <1>5 DEF IsParse
<1> QED BY <1>6 DEF x, y, out, r

\* What a line with something in it does.
LEMMA LineGives ==
    ASSUME NEW p, IsParse(p), p.refused = FALSE, NEW line, IsSequence(line), line # << >>
    PROVE  LET r == Line(p, line)
               bytes == p.parser.bytes + Len(line) + 1 IN
           \/ r.refused /\ "refused" \in DOMAIN r /\ bytes > MaxRecordBytes
           \/ /\ IsParse(r) /\ r.refused = FALSE /\ r.out = p.out /\ bytes <= MaxRecordBytes
              /\ r.parser = [text |-> p.parser.text,
                             data |-> IF line[1][1] = "data" THEN Append(p.parser.data, line)
                                      ELSE p.parser.data,
                             event |-> IF line[1][1] = "event" THEN line[1][2] ELSE p.parser.event,
                             id |-> IF line[1][1] = "id" THEN line[1][2] ELSE p.parser.id,
                             bytes |-> bytes]
<1> DEFINE r == Line(p, line)
           bytes == p.parser.bytes + Len(line) + 1
           x == p.parser
           z == [x EXCEPT !.bytes = bytes]
           y == [text |-> x.text,
                 data |-> IF line[1][1] = "data" THEN Append(x.data, line) ELSE x.data,
                 event |-> IF line[1][1] = "event" THEN line[1][2] ELSE x.event,
                 id |-> IF line[1][1] = "id" THEN line[1][2] ELSE x.id,
                 bytes |-> bytes]
<1>1. bytes \in Nat /\ MaxRecordBytes \in Nat
  BY SequenceBasics, ParserAssumption DEF IsParse, IsParser
<1>2. Head(line) = line[1]
  BY TailOfSequence
<1>3. SetField(z, line) = y
  <2>1. z = [text |-> x.text, data |-> x.data, event |-> x.event, id |-> x.id, bytes |-> bytes]
    BY DEF IsParse, IsParser
  <2> HIDE DEF z, x, bytes
  <2> QED BY <1>2, <2>1 DEF SetField
<1>4. CASE bytes > MaxRecordBytes
  <2>1. r = Refuse(p)
    BY <1>4 DEF Line
  <2>2. "refused" \in DOMAIN p
    BY DEF IsParse
  <2> QED BY <1>4, <2>1, <2>2, RefuseRefuses
<1>5. CASE ~(bytes > MaxRecordBytes)
  <2>1. r = [p EXCEPT !.parser = SetField(z, line)]
    BY <1>5 DEF Line
  <2>2. IsSequence(y.data) /\ IsSequence(x.text)
    BY AppendToSequence DEF IsParse, IsParser
  <2>3. IsParser(y)
    <3> HIDE DEF bytes
    <3> QED BY <1>1, <2>2 DEF IsParser
  <2> HIDE DEF y, x, z, bytes, r
  <2>4. r = [parser |-> y, out |-> p.out, refused |-> FALSE]
    BY <1>3, <2>1 DEF IsParse
  <2>5. IsParse(r) /\ r.refused = FALSE /\ r.out = p.out /\ r.parser = y
    BY <2>3, <2>4 DEF IsParse
  <2>6. bytes <= MaxRecordBytes
    BY <1>1, <1>5
  <2> QED BY <2>5, <2>6 DEF y, x, bytes, r
<1> QED BY <1>4, <1>5

-----------------------------------------------------------------------------
(* The parser reads the lines of a record as the reader does                *)

\* The data of the record that is under way at q.
DataAt(q) ==
    CASE q.row = "message" -> Payload(q.n)
      [] q.row = "other" -> <<<<<<"data", q.type>>>>>>
      [] OTHER -> << >>

\* The parser x has what was carried before q.
Parsed(x, q) ==
    /\ IsParser(x)
    /\ x.event = q.type /\ x.data = DataAt(q)
    /\ q.row \in {"data", "message"} => x.id = q.n

\* A record is the message i, whole unless the connection was cut.
Right(record, i, ending) ==
    /\ record.id = i /\ i \in 1 .. MaxEvents
    /\ \/ record.data = Payload(i)
       \/ ending = "cut" /\ IsPrefix(Head(record.data), Head(Payload(i)))

AllMessages(out, j) == \A i \in 1 .. j : out[i].type = "message"

\* The records put out are the messages from the number first on, up to the
\* first record that is none.
Delivered(out, first, ending) ==
    /\ IsSequence(out)
    /\ \A j \in 1 .. Len(out) : AllMessages(out, j) => Right(out[j], first + j - 1, ending)

\* The next message is the one after those put out.
Reached(out, first, n) == AllMessages(out, Len(out)) => n = first + Len(out)

\* Before anything is put out.
LEMMA NothingDelivered ==
    ASSUME NEW first \in Nat, NEW ending
    PROVE  Delivered(<< >>, first, ending) /\ Reached(<< >>, first, first)
<1>1. IsSequence(<< >>) /\ Len(<< >>) = 0
  BY EmptyIsSequence
<1> QED BY <1>1 DEF Delivered, Reached

\* One more record.
LEMMA DeliverOne ==
    ASSUME NEW out, NEW first \in Nat, NEW n \in Nat, NEW ending,
           Delivered(out, first, "open") \/ Delivered(out, first, ending), Reached(out, first, n),
           NEW record, record.type = "message" => Right(record, n, ending)
    PROVE  /\ Delivered(Append(out, record), first, ending)
           /\ Reached(Append(out, record), first, IF record.type = "message" THEN n + 1 ELSE n)
<1> DEFINE longer == Append(out, record)
<1>1. /\ IsSequence(out) /\ Len(out) \in Nat /\ DOMAIN out = 1 .. Len(out)
      /\ IsSequence(longer) /\ Len(longer) = Len(out) + 1 /\ longer[Len(out) + 1] = record
      /\ \A i \in 1 .. Len(out) : longer[i] = out[i]
  <2>1. IsSequence(out)
    BY DEF Delivered
  <2> QED BY <2>1, SequenceBasics, AppendToSequence
<1> HIDE DEF longer
<1>2. ASSUME NEW j \in 1 .. Len(out), AllMessages(longer, j) PROVE AllMessages(out, j)
  <2>1. \A i \in 1 .. j : i \in 1 .. Len(out)
    BY <1>1
  <2> QED BY <1>1, <1>2, <2>1 DEF AllMessages
<1>3. AllMessages(longer, Len(out) + 1) => AllMessages(out, Len(out)) /\ record.type = "message"
  <2>1. \A i \in 1 .. Len(out) : i \in 1 .. Len(out) + 1
    BY <1>1
  <2>2. Len(out) + 1 \in 1 .. Len(out) + 1
    BY <1>1
  <2> QED BY <1>1, <2>1, <2>2 DEF AllMessages
<1>4. ASSUME NEW j \in 1 .. Len(longer), AllMessages(longer, j)
      PROVE  Right(longer[j], first + j - 1, ending)
  <2>1. CASE j \in 1 .. Len(out)
    BY <1>1, <1>2, <1>4, <2>1 DEF Delivered, Right
  <2>2. CASE j = Len(out) + 1
    <3>1. n = first + Len(out) /\ record.type = "message"
      BY <1>3, <1>4, <2>2 DEF Reached
    <3>2. first + j - 1 = n
      BY <1>1, <2>2, <3>1
    <3> QED BY <1>1, <2>2, <3>1, <3>2
  <2>3. j \in 1 .. Len(out) \/ j = Len(out) + 1
    BY <1>1
  <2> QED BY <2>1, <2>2, <2>3
<1>5. ASSUME AllMessages(longer, Len(longer))
      PROVE  record.type = "message" /\ n + 1 = first + Len(longer)
  <2>1. record.type = "message" /\ n = first + Len(out)
    BY <1>1, <1>3, <1>5 DEF Reached
  <2> QED BY <1>1, <2>1
<1> QED BY <1>1, <1>4, <1>5 DEF Delivered, Reached, longer

\* A line that ends takes the parser where it takes the reader.
LEMMA LineReads ==
    ASSUME NEW q, Fits(q), ~Mid(q), NEW r, Ends(q, r),
           NEW p, IsParse(p), p.refused = FALSE, Parsed(p.parser, q),
           NEW first \in Nat, Delivered(p.out, first, "open"), Reached(p.out, first, q.n)
    PROVE  LET g == Line(p, q.line) IN
           \/ g.refused /\ "refused" \in DOMAIN g
           \/ /\ IsParse(g) /\ g.refused = FALSE /\ Parsed(g.parser, r)
              /\ Delivered(g.out, first, "open") /\ Reached(g.out, first, r.n)
<1> DEFINE g == Line(p, q.line)
           x == p.parser
           line == q.line
           bytes == x.bytes + Len(line) + 1
           y == [text |-> x.text,
                 data |-> IF line[1][1] = "data" THEN Append(x.data, line) ELSE x.data,
                 event |-> IF line[1][1] = "event" THEN line[1][2] ELSE x.event,
                 id |-> IF line[1][1] = "id" THEN line[1][2] ELSE x.id,
                 bytes |-> bytes]
           z == [text |-> x.text, data |-> << >>, event |-> "message", id |-> x.id, bytes |-> 0]
<1>0. /\ q.n \in 1 .. MaxEvents + 1 /\ q.n \in Nat /\ Lines(q) /\ Parsed(x, q) /\ Append(<< >>, line) = <<line>>
      /\ IsParser(x)
  BY StreamAssumption, TuplesAreSequences DEF Fits, Parsed
<1>1. ASSUME line # << >>, IsSequence(line), r.n = q.n, Parsed(y, r)
      PROVE  \/ g.refused /\ "refused" \in DOMAIN g
             \/ /\ IsParse(g) /\ g.refused = FALSE /\ Parsed(g.parser, r)
                /\ Delivered(g.out, first, "open") /\ Reached(g.out, first, r.n)
  <2>1. \/ g.refused /\ "refused" \in DOMAIN g
        \/ IsParse(g) /\ g.refused = FALSE /\ g.out = p.out /\ g.parser = y
    BY <1>1, LineGives
  <2> HIDE DEF y, g, line, x
  <2> QED BY <1>1, <2>1
<1>2. ASSUME line = << >>, Parsed(z, r),
             r.n = IF q.row = "message" THEN q.n + 1 ELSE q.n,
             q.row = "message" => x.event = "message" /\ Right([type |-> x.event, data |-> x.data, id |-> x.id], q.n, "open"),
             q.row # "message" => x.event # "message" \/ x.data = << >>,
             q.row = "message" => x.data # << >>
      PROVE  /\ IsParse(g) /\ g.refused = FALSE /\ Parsed(g.parser, r)
             /\ Delivered(g.out, first, "open") /\ Reached(g.out, first, r.n)
  <2> DEFINE record == [type |-> x.event, data |-> x.data, id |-> x.id]
  <2>1. g = Dispatch(p)
    BY <1>2 DEF Line
  <2>2. /\ IsParse(g) /\ g.refused = FALSE /\ g.parser = z
        /\ g.out = IF x.data = << >> THEN p.out ELSE Append(p.out, record)
    BY <2>1, DispatchGives
  <2>3. record.type = x.event
    OBVIOUS
  <2> HIDE DEF g, z, x, record
  <2>4. CASE x.data = << >>
    BY <1>2, <2>2, <2>4
  <2>5. CASE x.data # << >>
    <3>1. record.type = "message" => Right(record, q.n, "open")
      BY <1>2, <2>3, <2>5 DEF record
    <3>2. /\ Delivered(Append(p.out, record), first, "open")
          /\ Reached(Append(p.out, record), first, IF record.type = "message" THEN q.n + 1 ELSE q.n)
      BY <1>0, <3>1, DeliverOne
    <3>3. r.n = IF record.type = "message" THEN q.n + 1 ELSE q.n
      BY <1>2, <2>3, <2>5
    <3> QED BY <1>2, <2>2, <2>5, <3>2, <3>3
  <2> QED BY <2>4, <2>5
<1>3. IsParser(x) /\ x.bytes \in Nat
  BY <1>0 DEF IsParser
<1>4. ASSUME line # << >>, IsSequence(line)
      PROVE /\ y.event = IF line[1][1] = "event" THEN line[1][2] ELSE x.event
            /\ y.data = IF line[1][1] = "data" THEN Append(x.data, line) ELSE x.data
            /\ y.id = IF line[1][1] = "id" THEN line[1][2] ELSE x.id
            /\ IsParser(y)
  <2>1. bytes \in Nat /\ IsSequence(y.data) /\ IsSequence(x.text)
    BY <1>3, <1>4, SequenceBasics, AppendToSequence DEF IsParser
  <2> HIDE DEF bytes
  <2> QED BY <2>1 DEF IsParser
<1>5. IsParser(z) /\ z.event = "message" /\ z.data = << >> /\ z.id = x.id
  <2>1. IsSequence(<< >>) /\ IsSequence(x.text)
    BY <1>3, EmptyIsSequence DEF IsParser
  <2> QED BY <2>1 DEF IsParser
<1> HIDE DEF g, y, z
<1>6. CASE q.row = "start" /\ line = <<<<"id", q.n>>>> /\ r = Place("data", q.n, "message")
  <2>1. line # << >> /\ IsSequence(line) /\ line[1][1] = "id" /\ line[1][2] = q.n
    BY <1>6, TuplesAreSequences
  <2>2. y.event = x.event /\ y.data = x.data /\ y.id = q.n /\ IsParser(y)
    BY <1>4, <2>1
  <2>3. r.row = "data" /\ r.n = q.n /\ r.type = "message"
    BY <1>6, PlaceFields
  <2>4. x.event = "message" /\ x.data = << >>
    BY <1>0, <1>6 DEF Parsed, DataAt, Lines
  <2>5. Parsed(y, r)
    BY <2>2, <2>3, <2>4 DEF Parsed, DataAt
  <2> QED BY <1>1, <2>1, <2>3, <2>5 DEF g
<1>7. CASE q.row = "start" /\ \E t \in OtherTypes : line = <<<<"event", t>>>> /\ r = Place("typed", q.n, t)
  <2>0. PICK t \in OtherTypes : line = <<<<"event", t>>>> /\ r = Place("typed", q.n, t)
    BY <1>7
  <2>1. line # << >> /\ IsSequence(line) /\ line[1][1] = "event" /\ line[1][2] = t
    BY <2>0, TuplesAreSequences
  <2>2. y.event = t /\ y.data = x.data /\ IsParser(y)
    BY <1>4, <2>1
  <2>3. r.row = "typed" /\ r.n = q.n /\ r.type = t
    BY <2>0, PlaceFields
  <2>4. x.data = << >>
    BY <1>0, <1>7 DEF Parsed, DataAt
  <2>5. Parsed(y, r)
    BY <2>2, <2>3, <2>4 DEF Parsed, DataAt
  <2> QED BY <1>1, <2>1, <2>3, <2>5 DEF g
<1>8. CASE q.row = "start" /\ Comment(line) /\ r = Place("comment", q.n, "message")
  <2>1. line # << >> /\ IsSequence(line) /\ line[1][1] = "comment"
    <3>1. Len(<< >>) = 0
      OBVIOUS
    <3> QED BY <1>8, <3>1 DEF Comment
  <2>2. y.event = x.event /\ y.data = x.data /\ IsParser(y)
    BY <1>4, <2>1
  <2>3. r.row = "comment" /\ r.n = q.n /\ r.type = "message"
    BY <1>8, PlaceFields
  <2>4. x.event = "message" /\ x.data = << >>
    BY <1>0, <1>8 DEF Parsed, DataAt, Lines
  <2>5. Parsed(y, r)
    BY <2>2, <2>3, <2>4 DEF Parsed, DataAt
  <2> QED BY <1>1, <2>1, <2>3, <2>5 DEF g
<1>9. CASE q.row = "data" /\ line = Payload(q.n)[1] /\ r = Place("message", q.n, "message")
  <2>1. line # << >> /\ IsSequence(line) /\ line[1][1] = "data" /\ Payload(q.n) = <<line>>
    <3>1. Payload(q.n)[1] = <<<<"data", q.n>>, <<"rest", q.n>>>> /\ Payload(q.n) = <<Payload(q.n)[1]>>
      BY DEF Payload
    <3> QED BY <1>9, <3>1, TuplesAreSequences
  <2>3. r.row = "message" /\ r.n = q.n /\ r.type = "message"
    BY <1>9, PlaceFields
  <2>4. x.event = "message" /\ x.data = << >> /\ x.id = q.n
    BY <1>0, <1>9 DEF Parsed, DataAt, Lines
  <2>2. y.event = "message" /\ y.data = Payload(q.n) /\ y.id = q.n /\ IsParser(y)
    BY <1>0, <1>4, <2>1, <2>4
  <2>5. Parsed(y, r)
    BY <2>2, <2>3 DEF Parsed, DataAt
  <2> QED BY <1>1, <2>1, <2>3, <2>5 DEF g
<1>10. CASE q.row = "typed" /\ line = <<<<"data", q.type>>>> /\ r = Place("other", q.n, q.type)
  <2>1. line # << >> /\ IsSequence(line) /\ line[1][1] = "data" /\ <<line>> = <<<<<<"data", q.type>>>>>>
    BY <1>10, TuplesAreSequences
  <2>3. r.row = "other" /\ r.n = q.n /\ r.type = q.type
    BY <1>10, PlaceFields
  <2>4. x.event = q.type /\ x.data = << >>
    BY <1>0, <1>10 DEF Parsed, DataAt
  <2>2. y.event = q.type /\ y.data = <<<<<<"data", q.type>>>>>> /\ IsParser(y)
    BY <1>0, <1>4, <2>1, <2>4
  <2>5. Parsed(y, r)
    BY <2>2, <2>3 DEF Parsed, DataAt
  <2> QED BY <1>1, <2>1, <2>3, <2>5 DEF g
<1>11. CASE q.row = "message" /\ r = AtStart(q.n + 1)
  <2>1. line = << >> /\ q.n <= MaxEvents /\ q.type = "message"
    BY <1>0, <1>11 DEF Lines
  <2>2. r.row = "start" /\ r.n = q.n + 1 /\ r.type = "message"
    BY <1>11, PlaceFields DEF AtStart
  <2>3. x.event = "message" /\ x.data = Payload(q.n) /\ x.id = q.n
    BY <1>0, <1>11, <2>1 DEF Parsed, DataAt
  <2>4. Parsed(z, r)
    BY <1>5, <2>2 DEF Parsed, DataAt
  <2>5. Right([type |-> x.event, data |-> x.data, id |-> x.id], q.n, "open")
    BY <1>0, <2>1, <2>3, StreamAssumption DEF Right
  <2>6. Payload(q.n) # << >>
    BY DEF Payload
  <2> HIDE DEF x, line
  <2> QED BY <1>2, <1>11, <2>1, <2>2, <2>3, <2>4, <2>5, <2>6 DEF g, line
<1>12. CASE q.row = "other" /\ r = AtStart(q.n)
  <2>1. line = << >> /\ q.type \in OtherTypes
    BY <1>0, <1>12 DEF Lines
  <2>2. r.row = "start" /\ r.n = q.n /\ r.type = "message"
    BY <1>12, PlaceFields DEF AtStart
  <2>3. x.event # "message"
    BY <1>0, <2>1 DEF Parsed, OtherTypes
  <2>4. Parsed(z, r)
    BY <1>5, <2>2 DEF Parsed, DataAt
  <2> HIDE DEF x, line
  <2> QED BY <1>2, <1>12, <2>1, <2>2, <2>3, <2>4 DEF g, line
<1>13. CASE q.row = "comment" /\ r = AtStart(q.n)
  <2>1. line = << >>
    BY <1>0, <1>13 DEF Lines
  <2>2. r.row = "start" /\ r.n = q.n /\ r.type = "message"
    BY <1>13, PlaceFields DEF AtStart
  <2>3. x.data = << >>
    BY <1>0, <1>13 DEF Parsed, DataAt
  <2>4. Parsed(z, r)
    BY <1>5, <2>2 DEF Parsed, DataAt
  <2> HIDE DEF x, line
  <2> QED BY <1>2, <1>13, <2>1, <2>2, <2>3, <2>4 DEF g, line
<1> QED BY <1>6, <1>7, <1>8, <1>9, <1>10, <1>11, <1>12, <1>13 DEF Ends, g

-----------------------------------------------------------------------------
(* What the parser takes of its text, symbol by symbol                      *)

\* Before the first symbol of the text.
First(parser) == [parse |-> Parse(parser), line |-> << >>, behindCR |-> FALSE]

\* What is taken is defined step by step.
LEMMA TakenExists ==
    ASSUME NEW parser
    PROVE  \A e \in Nat :
             \E g : g = [n \in 0 .. e |-> IF n = 0 THEN First(parser) ELSE Take(g[n - 1], parser.text[n])]
<1> DEFINE Good(e, g) == g = [n \in 0 .. e |-> IF n = 0 THEN First(parser) ELSE Take(g[n - 1], parser.text[n])]
           S == {e \in Nat : \E g : Good(e, g)}
<1>1. 0 \in S
  <2> DEFINE g == [n \in 0 .. 0 |-> First(parser)]
  <2>1. Good(0, g)
    <3>1. \A n \in 0 .. 0 : n = 0
      OBVIOUS
    <3> QED BY <3>1
  <2> QED BY <2>1
<1>2. ASSUME NEW e \in Nat, e \in S PROVE e + 1 \in S
  <2>1. PICK g : Good(e, g)
    BY <1>2
  <2> DEFINE h == [n \in 0 .. e + 1 |-> IF n \in 0 .. e THEN g[n] ELSE Take(g[e], parser.text[e + 1])]
  <2>2. \A n \in 0 .. e : h[n] = g[n]
    OBVIOUS
  <2>3. h[e + 1] = Take(g[e], parser.text[e + 1])
    OBVIOUS
  <2>4. DOMAIN h = 0 .. e + 1 /\ h = [n \in 0 .. e + 1 |-> h[n]]
    OBVIOUS
  <2> HIDE DEF h
  <2>5. ASSUME NEW n \in 0 .. e + 1
        PROVE  h[n] = IF n = 0 THEN First(parser) ELSE Take(h[n - 1], parser.text[n])
    <3>1. CASE n \in 0 .. e
      <4>1. n # 0 => n - 1 \in 0 .. e
        BY <3>1
      <4>2. g[n] = IF n = 0 THEN First(parser) ELSE Take(g[n - 1], parser.text[n])
        BY <2>1, <3>1
      <4> QED BY <2>2, <3>1, <4>1, <4>2
    <3>2. CASE n = e + 1
      <4>1. n # 0 /\ n - 1 = e /\ e \in 0 .. e
        BY <3>2
      <4>2. h[e] = g[e]
        BY <2>2, <4>1
      <4> QED BY <2>3, <3>2, <4>1, <4>2
    <3> QED BY <3>1, <3>2
  <2>6. Good(e + 1, h)
    BY <2>4, <2>5
  <2> QED BY <2>6
<1> HIDE DEF Good
<1>3. Nat \subseteq S
  <2> HIDE DEF S
  <2> QED BY <1>1, <1>2, Induction
<1> QED BY <1>3 DEF Good

LEMMA TakenStepwise ==
    ASSUME NEW parser, NEW e \in Nat
    PROVE  LET taken == Taken(parser, e) IN
           /\ taken[0] = First(parser)
           /\ \A n \in 1 .. e : taken[n] = Take(taken[n - 1], parser.text[n])
<1> DEFINE taken == Taken(parser, e)
           f == CHOOSE f : f = [n \in 0 .. e |-> IF n = 0 THEN First(parser) ELSE Take(f[n - 1], parser.text[n])]
<1>1. f = [n \in 0 .. e |-> IF n = 0 THEN First(parser) ELSE Take(f[n - 1], parser.text[n])]
  BY TakenExists
<1>2. taken = f
  BY DEF Taken, First
<1> HIDE DEF f, taken
<1>3. \A n \in 1 .. e : n \in 0 .. e /\ n # 0
  OBVIOUS
<1>4. 0 \in 0 .. e
  OBVIOUS
<1> QED BY <1>1, <1>2, <1>3, <1>4 DEF taken

\* What the next symbol does to the line.
IsTaken(t) == DOMAIN t = {"parse", "line", "behindCR"}

\* The three cases of a symbol.
LEMMA TakeGives ==
    ASSUME NEW t, IsTaken(t), NEW c
    PROVE  LET u == Take(t, c) IN
           /\ IsTaken(u)
           /\ t.behindCR /\ c = LF => u.parse = t.parse /\ u.line = t.line /\ ~u.behindCR
           /\ ~(t.behindCR /\ c = LF) /\ c \in {CR, LF} =>
                 u.parse = Line(t.parse, t.line) /\ u.line = << >> /\ (u.behindCR <=> c = CR)
           /\ c \notin {CR, LF} => u.parse = t.parse /\ u.line = Append(t.line, c) /\ ~u.behindCR
<1> DEFINE u == Take(t, c)
<1>1. CASE Joins(t, c)
  <2>1. u = [t EXCEPT !.behindCR = FALSE]
    BY <1>1 DEF Take
  <2> QED BY <1>1, <2>1 DEF IsTaken, Joins
<1>2. CASE ~Joins(t, c) /\ c \in {CR, LF}
  <2>1. u = [parse |-> Line(t.parse, t.line), line |-> << >>, behindCR |-> c = CR]
    BY <1>2 DEF Take
  <2> DEFINE behind == c = CR
             line == Line(t.parse, t.line)
  <2>2. u = [parse |-> line, line |-> << >>, behindCR |-> behind]
    BY <2>1
  <2> HIDE DEF behind, u, line
  <2>3. DOMAIN u = {"parse", "line", "behindCR"} /\ u.parse = line /\ u.line = << >> /\ u.behindCR = behind
    BY <2>2
  <2>4. u.behindCR <=> c = CR
    BY <2>3 DEF behind
  <2>5. IsTaken(u)
    BY <2>3 DEF IsTaken
  <2>6. ~(t.behindCR /\ c = LF) /\ c \in {CR, LF}
    BY <1>2 DEF Joins
  <2> QED BY <2>3, <2>4, <2>5, <2>6 DEF u, line
<1>3. CASE ~Joins(t, c) /\ c \notin {CR, LF}
  <2> DEFINE a == [t EXCEPT !.line = Append(t.line, c)]
  <2>1. u = [a EXCEPT !.behindCR = FALSE]
    BY <1>3 DEF Take
  <2>2. DOMAIN a = DOMAIN t /\ a.parse = t.parse /\ a.line = Append(t.line, c)
    BY DEF IsTaken
  <2> HIDE DEF a
  <2>3. DOMAIN u = DOMAIN t /\ u.parse = t.parse /\ u.line = Append(t.line, c) /\ ~u.behindCR
    BY <2>1, <2>2 DEF IsTaken
  <2>4. c # LF
    BY <1>3
  <2> HIDE DEF u
  <2>5. IsTaken(u)
    BY <2>3 DEF IsTaken
  <2> QED BY <1>3, <2>3, <2>4, <2>5 DEF u
<1>4. Joins(t, c) => c \in {CR, LF}
  BY DEF Joins
<1> QED BY <1>1, <1>2, <1>3, <1>4

-----------------------------------------------------------------------------
(* A symbol: the parser and the reader go on in step                        *)

\* Reading(...) the record under way: parse p of the text before the place q.
Reads(p, q, first) ==
    /\ IsParse(p) /\ p.refused = FALSE
    /\ Parsed(p.parser, q) /\ Delivered(p.out, first, "open") /\ Reached(p.out, first, q.n)

\* The text is refused.
Refuses(p) == p.refused /\ "refused" \in DOMAIN p

\* A line that is too long for a record to have it.
Overlong(t) == IsSequence(t.line) /\ Len(t.line) > MaxRecordBytes /\ IsParse(t.parse) /\ t.parse.refused = FALSE

\* q is the place where the line of r begins.
Begins(q, r) ==
    /\ Fits(q) /\ q.line = << >> /\ q.row = r.row /\ q.n = r.n /\ q.type = r.type
    /\ Mid(q) => Mid(r)

\* What has been made of the first j symbols of the text, in step with the
\* reader's places s.
Step(t, s, j, text, first, end) ==
    LET r == s[j + 1] IN
    /\ r.row # "ruined" /\ Fits(r) /\ IsSequence(t.line) /\ t.line = r.line
    /\ Reads(t.parse, r, first)
    /\ Mid(r) => t.behindCR /\ end = <<CR, LF>>
    /\ t.behindCR => Mid(r) \/ end = <<CR>>
    /\ \E i \in 0 .. j :
          /\ i + Len(t.line) = j /\ Begins(s[i + 1], r)
          /\ \A k \in 1 .. Len(t.line) : t.line[k] = text[i + k]

InStep(t, s, j, text, first, end) ==
    /\ IsTaken(t)
    /\ \/ Refuses(t.parse)
       \/ s[j + 1].row = "ruined" /\ Overlong(t)
       \/ Step(t, s, j, text, first, end)

\* A refusal stays one, and a line that is too long gets no shorter.
LEMMA RefusedStays ==
    ASSUME NEW t, Refuses(t.parse), IsTaken(t), NEW c
    PROVE  Refuses(Take(t, c).parse)
<1>1. Line(t.parse, t.line) = t.parse
  BY DEF Line, Refuses
<1>2. c \in {CR, LF} \/ c \notin {CR, LF}
  OBVIOUS
<1> QED BY <1>1, <1>2, TakeGives

LEMMA OverlongStays ==
    ASSUME NEW t, Overlong(t), IsTaken(t), NEW c
    PROVE  Refuses(Take(t, c).parse) \/ Overlong(Take(t, c))
<1>1. Len(t.line) \in Nat /\ MaxRecordBytes \in Nat /\ t.parse.parser.bytes \in Nat
  BY SequenceBasics, ParserAssumption DEF Overlong, IsParse, IsParser
<1>2. t.line # << >>
  BY <1>1 DEF Overlong
<1>3. Refuses(Line(t.parse, t.line))
  <2>1. ~(t.parse.parser.bytes + Len(t.line) + 1 <= MaxRecordBytes)
    BY <1>1 DEF Overlong
  <2> QED BY <1>2, <2>1, LineGives DEF Overlong, Refuses
<1>4. IsSequence(Append(t.line, c)) /\ Len(Append(t.line, c)) > MaxRecordBytes
  BY <1>1, AppendToSequence DEF Overlong
<1>5. CASE c \notin {CR, LF}
  BY <1>4, <1>5, TakeGives DEF Overlong
<1>6. CASE t.behindCR /\ c = LF
  BY <1>6, TakeGives DEF Overlong
<1>7. CASE ~(t.behindCR /\ c = LF) /\ c \in {CR, LF}
  BY <1>3, <1>7, TakeGives
<1> QED BY <1>5, <1>6, <1>7

\* A symbol takes the parser where it takes the reader.
LEMMA StepStays ==
    ASSUME NEW t, IsTaken(t), NEW s, NEW j \in Nat, NEW text, NEW first \in Nat,
           NEW end \in TerminatorSet, Step(t, s, j, text, first, end),
           Goes(s[j + 1], text[j + 1], s[j + 2], end)
    PROVE  InStep(Take(t, text[j + 1]), s, j + 1, text, first, end)
<1> DEFINE c == text[j + 1]
           u == Take(t, c)
           q == s[j + 1]
           r == s[j + 2]
<1>0. /\ IsTaken(u) /\ j + 1 + 1 = j + 2 /\ j + 1 \in Nat
      /\ q.row # "ruined" /\ Fits(q) /\ IsSequence(t.line) /\ t.line = q.line /\ Reads(t.parse, q, first)
      /\ Mid(q) => t.behindCR /\ end = <<CR, LF>>
      /\ t.behindCR => Mid(q) \/ end = <<CR>>
      /\ Len(t.line) \in Nat
  BY TakeGives, SequenceBasics DEF Step
<1>1. PICK i \in 0 .. j : /\ i + Len(t.line) = j /\ Begins(s[i + 1], q)
                          /\ \A k \in 1 .. Len(t.line) : t.line[k] = text[i + k]
  BY DEF Step
<1>2. Overflows(q, c, r) \/ (Fits(r) /\ (Continues(q, c, r) \/ Joined(q, c, r) \/ EndsLine(q, c, r, end)))
  BY <1>0 DEF Goes
<1>3. i \in 0 .. j + 1 /\ j + 1 \in 0 .. j + 1 /\ CR # LF
  BY DEF CR, LF
<1> HIDE DEF u
<1>4. CASE Overflows(q, c, r)
  <2>1. c \notin {CR, LF} /\ r.row = "ruined" /\ Len(t.line) >= MaxRecordBytes
    BY <1>0, <1>4 DEF Overflows, Ruined, Place
  <2>2. u.parse = t.parse /\ u.line = Append(t.line, c)
    BY <2>1, TakeGives DEF u
  <2>3. Overlong(u)
    <3>1. IsSequence(Append(t.line, c)) /\ Len(Append(t.line, c)) = Len(t.line) + 1
      BY <1>0, AppendToSequence
    <3> QED BY <1>0, <2>1, <2>2, <3>1, ParserAssumption DEF Overlong, Reads
  <2> QED BY <1>0, <2>1, <2>3 DEF InStep, u
<1>5. CASE Fits(r) /\ Continues(q, c, r)
  <2>1. c \notin {CR, LF} /\ r = Wrote(q, c) /\ ~Mid(q)
    BY <1>5 DEF Continues
  <2>2. u.parse = t.parse /\ u.line = Append(t.line, c) /\ ~u.behindCR
    BY <2>1, TakeGives DEF u
  <2>3. r.row = q.row /\ r.n = q.n /\ r.type = q.type /\ r.line = Append(q.line, c) /\ ~Mid(r)
    BY <1>0, <2>1 DEF Wrote, Fits, Mid
  <2>4. /\ IsSequence(u.line) /\ Len(u.line) = Len(t.line) + 1 /\ u.line[Len(t.line) + 1] = c
        /\ \A k \in 1 .. Len(t.line) : u.line[k] = t.line[k]
    <3>1. DOMAIN t.line = 1 .. Len(t.line)
      BY <1>0, SequenceBasics
    <3> QED BY <1>0, <2>2, <3>1, AppendToSequence
  <2>5. ASSUME NEW k \in 1 .. Len(u.line) PROVE u.line[k] = text[i + k]
    <3>1. CASE k \in 1 .. Len(t.line)
      BY <1>1, <2>4, <3>1
    <3>2. CASE k = Len(t.line) + 1
      <4>1. i + k = j + 1
        BY <1>0, <1>1, <3>2
      <4>2. u.line[k] = c
        BY <2>4, <3>2
      <4>3. text[i + k] = c
        BY <4>1
      <4> QED BY <4>2, <4>3
    <3>3. k \in 1 .. Len(t.line) \/ k = Len(t.line) + 1
      BY <1>0, <2>4
    <3> QED BY <3>1, <3>2, <3>3
  <2>6. i + Len(u.line) = j + 1
    BY <1>0, <1>1, <2>4
  <2>7. Begins(s[i + 1], r)
    BY <1>1, <2>1, <2>3 DEF Begins
  <2>8. Reads(u.parse, r, first)
    BY <1>0, <2>2, <2>3 DEF Reads, Parsed, DataAt
  <2> HIDE DEF q, r, c
  <2>9. Step(u, s, j + 1, text, first, end)
    <3>1. s[j + 1 + 1] = r
      BY <1>0 DEF r
    <3> QED BY <1>0, <1>3, <1>5, <2>2, <2>3, <2>4, <2>5, <2>6, <2>7, <2>8, <3>1 DEF Step
  <2> QED BY <1>0, <2>9 DEF InStep, u, c
<1>6. CASE Fits(r) /\ Joined(q, c, r)
  <2>1. c = LF /\ r = [q EXCEPT !.behind = "line"] /\ Mid(q) /\ q.line = << >>
    BY <1>0, <1>6 DEF Joined, Fits
  <2>2. u.parse = t.parse /\ u.line = t.line /\ ~u.behindCR
    BY <1>0, <2>1, TakeGives DEF u
  <2>3. r.row = q.row /\ r.n = q.n /\ r.type = q.type /\ r.line = q.line /\ ~Mid(r)
    BY <1>0, <2>1 DEF Fits, Mid
  <2>4. Len(t.line) = 0
    <3>1. Len(<< >>) = 0
      OBVIOUS
    <3> QED BY <1>0, <2>1, <3>1
  <2>5. j + 1 + Len(u.line) = j + 1 /\ 1 .. Len(u.line) = {}
    BY <1>0, <2>2, <2>4
  <2>6. Begins(r, r)
    BY <1>6, <2>1, <2>3 DEF Begins
  <2>7. Reads(u.parse, r, first)
    BY <1>0, <2>2, <2>3 DEF Reads, Parsed, DataAt
  <2> HIDE DEF q, r, c
  <2>8. Step(u, s, j + 1, text, first, end)
    <3>1. s[j + 1 + 1] = r
      BY <1>0 DEF r
    <3> QED BY <1>0, <1>3, <1>6, <2>1, <2>2, <2>3, <2>5, <2>6, <2>7, <3>1 DEF Step
  <2> QED BY <1>0, <2>8 DEF InStep, u, c
<1>7. CASE Fits(r) /\ EndsLine(q, c, r, end)
  <2>1. PICK p : Ends(q, p) /\ Fits(p) /\ r = [p EXCEPT !.behind = IF end = <<CR, LF>> THEN "cr" ELSE "line"]
    BY <1>7 DEF EndsLine
  <2>2. ~Mid(q) /\ c = end[1]
    BY <1>7 DEF EndsLine
  <2>3. c \in {CR, LF} /\ (c = LF => end = <<LF>>) /\ (c = CR => end # <<LF>>)
    BY <1>3, <2>2 DEF TerminatorSet
  <2>4. ~(t.behindCR /\ c = LF)
    BY <1>0, <1>3, <2>2, <2>3
  <2>5. u.parse = Line(t.parse, t.line) /\ u.line = << >> /\ (u.behindCR <=> c = CR)
    BY <2>3, <2>4, TakeGives DEF u
  <2>6. /\ r.row = p.row /\ r.n = p.n /\ r.type = p.type /\ r.line = p.line
        /\ Mid(r) <=> end = <<CR, LF>>
    BY <2>1 DEF Fits, Mid
  <2>7. p.line = << >> /\ p.row # "ruined"
    BY <2>1, PlaceFields DEF Ends, AtStart
  <2>8. Refuses(u.parse) \/ Reads(u.parse, r, first)
    <3>1. Refuses(u.parse) \/ Reads(u.parse, p, first)
      <4> DEFINE g == Line(t.parse, q.line)
      <4>1. u.parse = g
        BY <1>0, <2>5
      <4>2. /\ IsParse(t.parse) /\ t.parse.refused = FALSE /\ Parsed(t.parse.parser, q)
            /\ Delivered(t.parse.out, first, "open") /\ Reached(t.parse.out, first, q.n)
        BY <1>0 DEF Reads
      <4>3. \/ g.refused /\ "refused" \in DOMAIN g
            \/ /\ IsParse(g) /\ g.refused = FALSE /\ Parsed(g.parser, p)
               /\ Delivered(g.out, first, "open") /\ Reached(g.out, first, p.n)
        <5> HIDE DEF q
        <5> QED BY <1>0, <2>1, <2>2, <4>2, LineReads DEF q
      <4> HIDE DEF g
      <4> QED BY <4>1, <4>3 DEF Reads, Refuses
    <3> HIDE DEF r
    <3> QED BY <2>6, <3>1 DEF Reads, Parsed, DataAt
  <2>9. IsSequence(<< >>) /\ Len(<< >>) = 0 /\ 1 .. 0 = {}
    BY EmptyIsSequence
  <2>10. j + 1 + Len(u.line) = j + 1 /\ 1 .. Len(u.line) = {}
    BY <2>5, <2>9
  <2>11. Begins(r, r)
    BY <1>7, <2>6, <2>7 DEF Begins
  <2> HIDE DEF q, r, c
  <2>12. ASSUME Reads(u.parse, r, first) PROVE Step(u, s, j + 1, text, first, end)
    <3>1. s[j + 1 + 1] = r
      BY <1>0 DEF r
    <3>2. Mid(r) => u.behindCR /\ end = <<CR, LF>>
      <4>1. end = <<CR, LF>> => end # <<LF>>
        OBVIOUS
      <4> QED BY <2>3, <2>5, <2>6, <4>1
    <3>3. u.behindCR => Mid(r) \/ end = <<CR>>
      BY <2>3, <2>5, <2>6 DEF TerminatorSet
    <3> QED BY <1>0, <1>3, <1>7, <2>5, <2>6, <2>7, <2>9, <2>10, <2>11, <2>12, <3>1, <3>2, <3>3 DEF Step
  <2> QED BY <1>0, <2>8, <2>12 DEF InStep, u, c
<1> QED BY <1>2, <1>4, <1>5, <1>6, <1>7

-----------------------------------------------------------------------------
(* A text, from a place where a line begins                                 *)

\* A place at which a line begins, and a parser that is there.
Ready(parser, q) == Fits(q) /\ ~Mid(q) /\ q.line = << >> /\ Parsed(parser, q)

\* Before the first symbol.
LEMMA FreshStep ==
    ASSUME NEW parser, NEW q, Ready(parser, q), NEW s, s[1] = q, NEW end
    PROVE  InStep(First(parser), s, 0, parser.text, q.n, end)
<1> DEFINE t == First(parser)
           p == Parse(parser)
<1>1. t.parse = p /\ t.line = << >> /\ ~t.behindCR /\ IsTaken(t)
  BY DEF First, IsTaken
<1>2. p.parser = parser /\ p.out = << >> /\ p.refused = FALSE /\ IsParse(p)
  <2>1. IsSequence(<< >>)
    BY EmptyIsSequence
  <2>2. IsParser(parser)
    BY DEF Ready, Parsed
  <2> QED BY <2>1, <2>2 DEF Parse, IsParse
<1> HIDE DEF t, p
<1>3. Reads(p, q, q.n)
  <2>1. q.n \in Nat
    BY StreamAssumption DEF Ready, Fits
  <2> QED BY <1>2, <2>1, NothingDelivered DEF Reads, Ready
<1>4. q.row # "ruined"
  BY DEF Ready, Fits, Lines
<1>5. IsSequence(<< >>) /\ Len(<< >>) = 0 /\ 1 .. 0 = {} /\ 0 \in 0 .. 0 /\ s[0 + 1] = q
  BY EmptyIsSequence
<1>6. Begins(q, q)
  BY DEF Begins, Ready
<1>7. Step(t, s, 0, parser.text, q.n, end)
  BY <1>1, <1>3, <1>4, <1>5, <1>6 DEF Step, Ready
<1> QED BY <1>1, <1>7 DEF InStep, t

\* The parser goes through its text in step with the reader.
LEMMA Scans ==
    ASSUME NEW parser, NEW q, Ready(parser, q), NEW w, IsSequence(w), NEW s, NEW r,
           NEW end \in TerminatorSet, Through(s, q, w, r, end),
           NEW e \in 0 .. Len(w), \A k \in 1 .. e : parser.text[k] = w[k]
    PROVE  \A j \in 0 .. e : InStep(Taken(parser, e)[j], s, j, parser.text, q.n, end)
<1> DEFINE taken == Taken(parser, e)
           Stays(j) == InStep(taken[j], s, j, parser.text, q.n, end)
           S == {j \in Nat : j <= e => Stays(j)}
<1>0. Len(w) \in Nat /\ e \in Nat /\ q.n \in Nat
  BY SequenceBasics, StreamAssumption DEF Ready, Fits
<1>1. 0 \in S
  <2>1. taken[0] = First(parser)
    BY <1>0, TakenStepwise
  <2>2. s[1] = q
    BY DEF Through
  <2> HIDE DEF taken
  <2>3. Stays(0)
    BY <2>1, <2>2, FreshStep
  <2> QED BY <2>3
<1>2. ASSUME NEW j \in Nat, j \in S PROVE j + 1 \in S
  <2>1. CASE j + 1 <= e
    <3>1. Stays(j)
      BY <1>0, <1>2, <2>1
    <3>2. j + 1 \in 1 .. e /\ j + 1 \in 1 .. Len(w) /\ j + 1 - 1 = j /\ j + 1 + 1 = j + 2
      BY <1>0, <2>1
    <3>3. taken[j + 1] = Take(taken[j], parser.text[j + 1])
      <4>1. taken[j + 1] = Take(taken[j + 1 - 1], parser.text[j + 1])
        BY <1>0, <3>2, TakenStepwise
      <4> HIDE DEF taken
      <4> QED BY <3>2, <4>1
    <3>4. Goes(s[j + 1], parser.text[j + 1], s[j + 2], end)
      <4>1. Goes(s[j + 1], w[j + 1], s[j + 1 + 1], end)
        BY <3>2 DEF Through
      <4>2. parser.text[j + 1] = w[j + 1]
        BY <3>2
      <4> QED BY <3>2, <4>1, <4>2
    <3> HIDE DEF taken
    <3>5. IsTaken(taken[j])
      BY <3>1 DEF InStep
    <3>6. CASE Refuses(taken[j].parse)
      <4>1. Refuses(taken[j + 1].parse)
        BY <3>3, <3>5, <3>6, RefusedStays
      <4>2. IsTaken(taken[j + 1])
        BY <3>3, <3>5, TakeGives
      <4> QED BY <4>1, <4>2 DEF InStep
    <3>7. CASE s[j + 1].row = "ruined" /\ Overlong(taken[j])
      <4>1. Refuses(taken[j + 1].parse) \/ Overlong(taken[j + 1])
        BY <3>3, <3>5, <3>7, OverlongStays
      <4>2. s[j + 2] = s[j + 1]
        <5>1. ~Fits(s[j + 1])
          BY <3>7 DEF Fits, Lines
        <5> QED BY <3>4, <3>7, <5>1 DEF Goes
      <4>3. IsTaken(taken[j + 1])
        BY <3>3, <3>5, TakeGives
      <4>4. s[j + 1 + 1].row = "ruined"
        BY <3>2, <3>7, <4>2
      <4>5. Stays(j + 1)
        BY <4>1, <4>3, <4>4 DEF InStep
      <4> QED BY <4>5
    <3>8. CASE Step(taken[j], s, j, parser.text, q.n, end)
      <4>1. Stays(j + 1)
        BY <1>0, <3>3, <3>4, <3>5, <3>8, StepStays
      <4> QED BY <4>1
    <3> QED BY <3>1, <3>6, <3>7, <3>8 DEF InStep
  <2> QED BY <2>1
<1>3. Nat \subseteq S
  <2> HIDE DEF S
  <2> QED BY <1>1, <1>2, Induction
<1>4. ASSUME NEW j \in 0 .. e PROVE Stays(j)
  <2>1. j \in Nat /\ j <= e
    BY <1>0
  <2> HIDE DEF Stays
  <2> QED BY <1>3, <2>1
<1> QED BY <1>4

\* What is left of the bytes is what the reader has still to read.
LEMMA RunFrom ==
    ASSUME NEW s, NEW q, NEW w, IsSequence(w), NEW r, NEW end, Through(s, q, w, r, end),
           NEW i \in 0 .. Len(w), NEW v, Len(v) = Len(w) - i,
           \A k \in 1 .. Len(w) - i : v[k] = w[i + k]
    PROVE  Runs(s[i + 1], v, r, end)
<1> DEFINE n == Len(w) - i
           rest == [m \in 1 .. n + 1 |-> s[i + m]]
<1>0. Len(w) \in Nat /\ n \in Nat /\ i \in Nat
  BY SequenceBasics
<1>1. rest[1] = s[i + 1]
  BY <1>0
<1>2. rest[n + 1] = r
  <2>1. i + (n + 1) = Len(w) + 1 /\ n + 1 \in 1 .. n + 1
    BY <1>0
  <2>2. rest[n + 1] = s[i + (n + 1)]
    BY <2>1
  <2> QED BY <2>1, <2>2 DEF Through
<1>3. ASSUME NEW k \in 1 .. n PROVE Goes(rest[k], v[k], rest[k + 1], end)
  <2>1. /\ i + k \in 1 .. Len(w) /\ k \in 1 .. n + 1 /\ k + 1 \in 1 .. n + 1
        /\ i + k + 1 = i + (k + 1)
    BY <1>0
  <2>2. rest[k] = s[i + k] /\ rest[k + 1] = s[i + (k + 1)]
    BY <2>1
  <2>3. Goes(s[i + k], w[i + k], s[i + k + 1], end)
    BY <2>1 DEF Through
  <2> QED BY <2>1, <2>2, <2>3
<1>4. DOMAIN rest = 1 .. n + 1
  OBVIOUS
<1> HIDE DEF rest
<1>5. Through(rest, s[i + 1], v, r, end)
  BY <1>0, <1>1, <1>2, <1>3, <1>4 DEF Through
<1> QED BY <1>5 DEF Runs

-----------------------------------------------------------------------------
(* What is left of a text: an unfinished line, a CR that an LF may follow    *)

\* A parser whose text is another.
LEMMA TextReplaced ==
    ASSUME NEW x, IsParser(x), NEW rest, IsSequence(rest)
    PROVE  LET y == [x EXCEPT !.text = rest] IN
           /\ IsParser(y) /\ y.text = rest /\ y.data = x.data /\ y.event = x.event
           /\ y.id = x.id /\ y.bytes = x.bytes
<1> DEFINE y == [x EXCEPT !.text = rest]
<1>1. x = [text |-> x.text, data |-> x.data, event |-> x.event, id |-> x.id, bytes |-> x.bytes]
  BY DEF IsParser
<1>2. y = [text |-> rest, data |-> x.data, event |-> x.event, id |-> x.id, bytes |-> x.bytes]
  BY <1>1
<1> HIDE DEF y
<1> QED BY <1>2 DEF IsParser, y

LEMMA ParseReplaced ==
    ASSUME NEW p, IsParse(p), p.refused = FALSE, NEW rest, IsSequence(rest)
    PROVE  LET g == [p EXCEPT !.parser.text = rest] IN
           /\ IsParse(g) /\ g.refused = FALSE /\ g.out = p.out
           /\ g.parser = [p.parser EXCEPT !.text = rest]
<1> DEFINE y == [p.parser EXCEPT !.text = rest]
           g == [p EXCEPT !.parser = y]
<1>0. [p EXCEPT !.parser.text = rest] = g
  OBVIOUS
<1>1. IsParser(y)
  BY TextReplaced DEF IsParse
<1> HIDE DEF y
<1>2. PICK x, o, f : p = [parser |-> x, out |-> o, refused |-> f] /\ f \in BOOLEAN
  BY DEF IsParse
<1>3. p.out = o /\ p.refused = f
  BY <1>2
<1>4. g = [parser |-> y, out |-> o, refused |-> f]
  BY <1>2
<1> HIDE DEF g
<1>5. g.parser = y /\ g.out = o /\ g.refused = f
  BY <1>4
<1>6. IsParse(g)
  <2>1. IsSequence(o)
    BY <1>3 DEF IsParse
  <2>2. g = [parser |-> g.parser, out |-> g.out, refused |-> g.refused]
    BY <1>4, <1>5
  <2> QED BY <1>1, <1>2, <1>5, <2>1, <2>2 DEF IsParse
<1> QED BY <1>0, <1>3, <1>5, <1>6 DEF y

\* A line that is too long is refused at the end of the text at the latest.
LEMMA OverlongRefused ==
    ASSUME NEW t, Overlong(t), NEW left, IsSequence(left), NEW final
    PROVE  EndText(t.parse, t.line \o left, final).refused
<1> DEFINE rest == t.line \o left
<1>1. /\ Len(t.line) \in Nat /\ Len(left) \in Nat /\ MaxRecordBytes \in Nat
      /\ t.parse.parser.bytes \in Nat /\ Len(rest) = Len(t.line) + Len(left)
  BY SequenceBasics, JoinedSequences, ParserAssumption DEF Overlong, IsParse, IsParser
<1> HIDE DEF rest
<1>2. TooLong(t.parse, rest)
  BY <1>1 DEF TooLong, Overlong
<1>3. EndText(t.parse, rest, final) = Refuse(t.parse)
  BY <1>2 DEF EndText
<1>4. "refused" \in DOMAIN t.parse
  BY DEF Overlong, IsParse
<1> QED BY <1>3, <1>4, RefuseRefuses DEF rest

LEMMA RefusedEnds ==
    ASSUME NEW p, Refuses(p), NEW rest, NEW final
    PROVE  EndText(p, rest, final).refused
<1>1. EndText(p, rest, final) = Refuse(p)
  BY DEF EndText, Refuses
<1> QED BY <1>1, RefuseRefuses DEF Refuses

\* Between the CR and the LF of a CRLF a text is not left.
LEMMA NotMid ==
    ASSUME NEW q, Fits(q), ~Mid(q), NEW w, IsSequence(w), NEW s, NEW r,
           NEW end \in TerminatorSet, Through(s, q, w, r, end),
           NEW e \in 0 .. Len(w), Fits(s[e + 1]), s[e + 1].row # "ruined",
           \/ e # Len(w) /\ w[e + 1] = CR
           \/ e = 0 \/ w[e] # CR
    PROVE  ~Mid(s[e + 1])
<1> SUFFICES ASSUME Mid(s[e + 1]) PROVE FALSE
  OBVIOUS
<1>0. Len(w) \in Nat /\ CR # LF /\ e \in Nat
  BY SequenceBasics DEF CR, LF
<1>1. CASE e # Len(w) /\ w[e + 1] = CR
  <2>1. e + 1 \in 1 .. Len(w)
    BY <1>0, <1>1
  <2>2. Goes(s[e + 1], CR, s[e + 1 + 1], end)
    BY <1>1, <2>1 DEF Through
  <2> QED BY <1>0, <2>2 DEF Goes, Overflows, Continues, Joined, EndsLine
<1>2. CASE e = 0
  BY <1>2 DEF Through
<1>3. CASE e # 0 /\ w[e] # CR
  <2>1. e \in 1 .. Len(w)
    BY <1>0, <1>3
  <2>2. Goes(s[e], w[e], s[e + 1], end)
    BY <2>1 DEF Through
  <2>3. s[e].row # "ruined" \/ s[e + 1] = s[e]
    BY <2>2 DEF Goes, Fits, Lines
  <2>4. CASE Overflows(s[e], w[e], s[e + 1])
    BY <2>4, PlaceFields DEF Overflows, Ruined
  <2>5. CASE Fits(s[e]) /\ Continues(s[e], w[e], s[e + 1])
    BY <2>5 DEF Continues, Wrote, Fits, Mid
  <2>6. CASE Fits(s[e]) /\ Joined(s[e], w[e], s[e + 1])
    BY <2>6 DEF Joined, Fits, Mid
  <2>7. CASE EndsLine(s[e], w[e], s[e + 1], end)
    <3>1. end[1] # CR
      BY <1>3, <2>7 DEF EndsLine
    <3>2. end # <<CR, LF>>
      BY <3>1
    <3> QED BY <2>7, <3>2 DEF EndsLine, Fits, Mid
  <2> QED BY <2>2, <2>3, <2>4, <2>5, <2>6, <2>7 DEF Goes
<1> QED BY <1>1, <1>2, <1>3

\* A CR at the end is left.
LEMMA DeferredGives ==
    ASSUME NEW text, IsSequence(text)
    PROVE  LET left == Deferred(text, FALSE)
               e == Len(text) - Len(left) IN
           /\ IsSequence(left) /\ Len(left) \in {0, 1} /\ e \in 0 .. Len(text)
           /\ \/ e + 1 = Len(text) /\ left = <<CR>> /\ text[e + 1] = CR
              \/ e = Len(text) /\ left = << >> /\ (e = 0 \/ text[e] # CR)
<1> DEFINE left == Deferred(text, FALSE)
           e == Len(text) - Len(left)
<1>0. Len(text) \in Nat /\ DOMAIN text = 1 .. Len(text)
  BY SequenceBasics
<1>1. CASE text # << >> /\ Last(text) = CR
  <2>1. left = <<CR>>
    BY <1>1 DEF Deferred
  <2>2. IsSequence(left) /\ Len(left) = 1
    BY <2>1, TuplesAreSequences
  <2>3. Len(text) # 0
    BY <1>1, TailOfSequence, <1>0
  <2>4. text[Len(text)] = CR
    BY <1>1 DEF Last
  <2> HIDE DEF left
  <2>5. e = Len(text) - 1
    BY <2>2
  <2> HIDE DEF e
  <2>6. e + 1 = Len(text) /\ e \in 0 .. Len(text)
    BY <1>0, <2>3, <2>5
  <2> QED BY <2>1, <2>2, <2>4, <2>6 DEF e, left
<1>2. CASE ~(text # << >> /\ Last(text) = CR)
  <2>1. left = << >>
    BY <1>2 DEF Deferred
  <2>2. IsSequence(left) /\ Len(left) = 0
    BY <2>1, EmptyIsSequence
  <2>3. text = << >> => Len(text) = 0
    OBVIOUS
  <2>4. text # << >> => text[Len(text)] # CR
    BY <1>2 DEF Last
  <2> HIDE DEF left
  <2>5. e = Len(text)
    BY <1>0, <2>2
  <2> HIDE DEF e
  <2>6. e \in 0 .. Len(text)
    BY <1>0, <2>5
  <2> QED BY <2>1, <2>2, <2>3, <2>4, <2>5, <2>6 DEF e, left
<1> QED BY <1>1, <1>2

-----------------------------------------------------------------------------
(* A chunk                                                                  *)

\* Small enough for a record to be.
Bounded(x) == Len(x.text) + x.bytes <= MaxRecordBytes

\* What the text keeps when a line is unfinished.
LEMMA EndTextGives ==
    ASSUME NEW p, IsParse(p), p.refused = FALSE, NEW rest, IsSequence(rest)
    PROVE  LET g == EndText(p, rest, FALSE) IN
           \/ g.refused
           \/ /\ IsParse(g) /\ g.refused = FALSE /\ g.out = p.out
              /\ g.parser = [p.parser EXCEPT !.text = rest] /\ Bounded(g.parser)
<1>1. CASE TooLong(p, rest)
  <2>1. EndText(p, rest, FALSE) = Refuse(p)
    BY <1>1 DEF EndText
  <2>2. "refused" \in DOMAIN p
    BY DEF IsParse
  <2> QED BY <2>1, <2>2, RefuseRefuses
<1>2. CASE ~TooLong(p, rest)
  <2> DEFINE g == [p EXCEPT !.parser.text = rest]
             y == [p.parser EXCEPT !.text = rest]
  <2>1. EndText(p, rest, FALSE) = g
    BY <1>2 DEF EndText
  <2>2. IsParse(g) /\ g.refused = FALSE /\ g.out = p.out /\ g.parser = y
    BY ParseReplaced
  <2>3. IsParser(p.parser)
    BY DEF IsParse
  <2>4. y.text = rest /\ y.bytes = p.parser.bytes
    BY <2>3, TextReplaced
  <2>5. Len(rest) \in Nat /\ p.parser.bytes \in Nat /\ MaxRecordBytes \in Nat
    BY <2>3, SequenceBasics, ParserAssumption DEF IsParser
  <2> HIDE DEF y
  <2>6. Bounded(y)
    BY <1>2, <2>4, <2>5 DEF Bounded, TooLong
  <2> HIDE DEF g
  <2> QED BY <2>1, <2>2, <2>6 DEF y
<1> QED BY <1>1, <1>2

\* The parser that is at a place reads what depends only on its record.
LEMMA ReadyAt ==
    ASSUME NEW x, NEW q, Parsed(x, q), NEW y, IsParser(y), y.data = x.data, y.event = x.event, y.id = x.id,
           NEW r, r.row = q.row, r.n = q.n, r.type = q.type
    PROVE  Parsed(y, r)
BY DEF Parsed, DataAt

\* A chunk: the parser refuses it, or goes on to where the next line begins.
LEMMA PushReads ==
    ASSUME NEW parser, NEW q, Ready(parser, q), NEW end \in TerminatorSet,
           NEW chunk, IsSequence(chunk), NEW more, IsSequence(more),
           NEW r, Runs(q, parser.text \o (chunk \o more), r, end)
    PROVE  LET g == Push(parser, chunk) IN
           \/ g.refused
           \/ /\ Bounded(g.parser) /\ IsSequence(g.parser.text)
              /\ \E q1 : /\ Ready(g.parser, q1) /\ Runs(q1, g.parser.text \o more, r, end)
                         /\ Delivered(g.out, q.n, "open") /\ Reached(g.out, q.n, q1.n)
<1> DEFINE text == parser.text \o chunk
           x == [parser EXCEPT !.text = text]
           left == Deferred(text, FALSE)
           e == Len(text) - Len(left)
           t == Taken(x, e)[e]
           rest == t.line \o left
           g == EndText(t.parse, rest, FALSE)
           w == text \o more
           n == Len(text)
<1>1. /\ IsParser(parser) /\ IsSequence(parser.text) /\ Fits(q) /\ ~Mid(q) /\ q.line = << >>
      /\ q.n \in Nat /\ Parsed(parser, q)
  BY StreamAssumption DEF Ready, Parsed, IsParser, Fits
<1>2. IsSequence(text) /\ w = parser.text \o (chunk \o more)
  <2>0. IsSequence(parser.text)
    BY <1>1
  <2>1. IsSequence(text)
    BY <2>0, JoinedSequences
  <2>2. w = parser.text \o (chunk \o more)
    <3> DEFINE v == chunk \o more
    <3>1. text = parser.text \o chunk /\ v = chunk \o more
      BY DEF text
    <3> HIDE DEF v, text
    <3>2. PICK a : a = parser.text
      OBVIOUS
    <3>3. IsSequence(a) /\ text = a \o chunk
      BY <2>0, <3>1, <3>2
    <3>4. text \o more = a \o v
      BY <3>1, <3>3, JoinedTwice
    <3> QED BY <3>2, <3>4 DEF w, v
  <2> QED BY <2>1, <2>2
<1>3. IsParser(x) /\ x.text = text /\ Parsed(x, q)
  <2>1. /\ IsParser(x) /\ x.text = text /\ x.data = parser.data /\ x.event = parser.event
        /\ x.id = parser.id
    <3> HIDE DEF text
    <3> QED BY <1>1, <1>2, TextReplaced
  <2> HIDE DEF x
  <2> QED BY <1>1, <2>1, ReadyAt
<1>4. Push(parser, chunk) = g
  <2>1. Push(parser, chunk) = Process(x, FALSE)
    BY DEF Push
  <2> HIDE DEF x, text
  <2> QED BY <1>3, <2>1 DEF Process
<1> HIDE DEF text, x
<1>5. /\ IsSequence(w) /\ Len(w) = n + Len(more) /\ n \in Nat /\ Len(more) \in Nat
      /\ \A k \in 1 .. n : w[k] = text[k]
      /\ \A k \in 1 .. Len(more) : w[n + k] = more[k]
  <2>0. IsSequence(text)
    BY <1>2
  <2>1. IsSequence(w) /\ Len(w) = n + Len(more)
    BY <2>0, JoinedSequences
  <2>2. /\ \A k \in 1 .. n : w[k] = text[k]
        /\ \A k \in 1 .. Len(more) : w[n + k] = more[k]
    BY <2>0, JoinedSequences
  <2>3. n \in Nat /\ Len(more) \in Nat
    BY <2>0, SequenceBasics
  <2> QED BY <2>1, <2>2, <2>3
<1>6. /\ IsSequence(left) /\ Len(left) \in {0, 1} /\ e \in 0 .. n
      /\ \/ e + 1 = n /\ left = <<CR>> /\ text[e + 1] = CR
         \/ e = n /\ left = << >> /\ (e = 0 \/ text[e] # CR)
  BY <1>2, DeferredGives
<1>7. PICK s : Through(s, q, w, r, end)
  BY <1>2 DEF Runs
<1> HIDE DEF w, left
<1>13. n = e + Len(left)
  <2>1. Len(left) \in Nat
    BY <1>6, SequenceBasics
  <2> QED BY <1>5, <2>1
<1> HIDE DEF e
<1>8. InStep(t, s, e, text, q.n, end)
  <2>1. e \in 0 .. Len(w) /\ e \in 0 .. e
    BY <1>5, <1>6
  <2>2. \A k \in 1 .. e : x.text[k] = w[k]
    <3>1. \A k \in 1 .. e : k \in 1 .. n
      BY <1>5, <1>6
    <3> QED BY <1>3, <1>5, <3>1
  <2>3. Ready(x, q)
    BY <1>1, <1>3 DEF Ready
  <2> QED BY <1>3, <1>5, <1>7, <2>1, <2>2, <2>3, Scans
<1> HIDE DEF t
<1>9. CASE Refuses(t.parse)
  BY <1>4, <1>9, RefusedEnds
<1>10. CASE Overlong(t)
  BY <1>4, <1>6, <1>10, OverlongRefused
<1>11. CASE Step(t, s, e, text, q.n, end)
  <2> DEFINE p == t.parse
             re == s[e + 1]
  <2>1. /\ re.row # "ruined" /\ Fits(re) /\ IsSequence(t.line)
        /\ IsParse(p) /\ p.refused = FALSE /\ Parsed(p.parser, re)
        /\ Delivered(p.out, q.n, "open") /\ Reached(p.out, q.n, re.n)
    BY <1>11 DEF Step, Reads
  <2>2. PICK i \in 0 .. e : /\ i + Len(t.line) = e /\ Begins(s[i + 1], re)
                            /\ \A k \in 1 .. Len(t.line) : t.line[k] = text[i + k]
    BY <1>11 DEF Step
  <2> DEFINE q1 == s[i + 1]
             v == rest \o more
             y == [p.parser EXCEPT !.text = rest]
  <2>3. ~Mid(re)
    <3>1. e \in 0 .. Len(w)
      BY <1>5, <1>6
    <3>2. \/ e # Len(w) /\ w[e + 1] = CR
          \/ e = 0 \/ w[e] # CR
      <4>1. CASE e + 1 = n /\ left = <<CR>> /\ text[e + 1] = CR
        <5>1. e # Len(w) /\ e + 1 \in 1 .. n
          BY <1>5, <1>6, <4>1
        <5> QED BY <1>5, <4>1, <5>1
      <4>2. CASE e = n /\ e # 0 /\ text[e] # CR
        <5>1. e \in 1 .. n
          BY <1>5, <4>2
        <5> QED BY <1>5, <4>2, <5>1
      <4> QED BY <1>6, <4>1, <4>2
    <3> QED BY <1>1, <1>5, <1>7, <2>1, <3>1, <3>2, NotMid
  <2>4. Fits(q1) /\ ~Mid(q1) /\ q1.line = << >> /\ q1.row = re.row /\ q1.n = re.n /\ q1.type = re.type
    BY <2>2, <2>3 DEF Begins
  <2>5. /\ IsSequence(rest) /\ Len(rest) = Len(t.line) + Len(left) /\ Len(t.line) \in Nat /\ Len(left) \in Nat
        /\ \A k \in 1 .. Len(t.line) : rest[k] = t.line[k]
        /\ \A k \in 1 .. Len(left) : rest[Len(t.line) + k] = left[k]
    <3>1. IsSequence(rest) /\ Len(rest) = Len(t.line) + Len(left)
      BY <1>6, <2>1, JoinedSequences
    <3>2. /\ \A k \in 1 .. Len(t.line) : rest[k] = t.line[k]
          /\ \A k \in 1 .. Len(left) : rest[Len(t.line) + k] = left[k]
      BY <1>6, <2>1, JoinedSequences
    <3>3. Len(t.line) \in Nat /\ Len(left) \in Nat
      BY <1>6, <2>1, SequenceBasics
    <3> QED BY <3>1, <3>2, <3>3
  <2>14. Len(rest) \in Nat
    BY <2>5, SequenceBasics
  <2> HIDE DEF rest
  <2>6. /\ Len(v) = Len(rest) + Len(more)
        /\ \A k \in 1 .. Len(rest) : v[k] = rest[k]
        /\ \A k \in 1 .. Len(more) : v[Len(rest) + k] = more[k]
    <3>1. Len(v) = Len(rest) + Len(more)
      BY <2>5, JoinedSequences
    <3>2. /\ \A k \in 1 .. Len(rest) : v[k] = rest[k]
          /\ \A k \in 1 .. Len(more) : v[Len(rest) + k] = more[k]
      BY <2>5, JoinedSequences
    <3> QED BY <3>1, <3>2
  <2>7. i + Len(rest) = n /\ i \in 0 .. Len(w) /\ Len(v) = Len(w) - i
    <3> HIDE DEF v
    <3>1. i + Len(rest) = n
      BY <1>5, <1>13, <2>2, <2>5, <1>6
    <3>2. i \in 0 .. Len(w)
      BY <1>5, <1>6
    <3>3. Len(v) = Len(w) - i
      <4>1. Len(w) = n + Len(more) /\ Len(v) = Len(rest) + Len(more) /\ i \in Nat /\ n \in Nat /\ Len(more) \in Nat
        BY <1>5, <1>6, <2>6
      <4> QED BY <2>14, <3>1, <4>1
    <3> QED BY <3>1, <3>2, <3>3
  <2> HIDE DEF v
  <2>8. ASSUME NEW k \in 1 .. Len(w) - i PROVE v[k] = w[i + k]
    <3>1. CASE k \in 1 .. Len(t.line)
      <4>1. k \in 1 .. Len(rest) /\ i + k \in 1 .. n
        BY <1>5, <2>2, <2>5, <2>7, <3>1
      <4> QED BY <1>5, <2>2, <2>5, <2>6, <3>1, <4>1
    <3>2. CASE k = Len(t.line) + 1 /\ k \in 1 .. Len(rest)
      <4>1. Len(left) = 1 /\ left = <<CR>> /\ text[e + 1] = CR /\ e + 1 = n
        BY <1>6, <2>5, <3>2
      <4>2. left[1] = CR /\ 1 \in 1 .. Len(left)
        BY <4>1
      <4>3. v[k] = CR
        BY <2>5, <2>6, <3>2, <4>2
      <4>4. i + k = e + 1 /\ i + k \in 1 .. n
        BY <1>5, <2>2, <2>5, <3>2, <4>1
      <4>5. w[i + k] = text[e + 1]
        BY <1>5, <4>4
      <4> QED BY <4>1, <4>3, <4>5
    <3>3. CASE k \notin 1 .. Len(rest)
      <4>1. PICK m \in 1 .. Len(more) : k = Len(rest) + m
        <5>1. k - Len(rest) \in 1 .. Len(more) /\ k = Len(rest) + (k - Len(rest))
          BY <1>5, <2>14, <2>7, <3>3
        <5> QED BY <5>1
      <4>2. i + k = n + m
        <5>1. i + Len(rest) = n /\ i \in Nat /\ Len(rest) \in Nat /\ m \in Nat
          BY <1>5, <2>14, <2>7
        <5> DEFINE l == Len(rest)
        <5>2. k = l + m /\ i + l = n /\ i \in Nat /\ l \in Nat /\ m \in Nat
          BY <4>1, <5>1
        <5> HIDE DEF l, n
        <5> QED BY <5>2
      <4> QED BY <1>5, <2>6, <4>1, <4>2
    <3>4. k \in 1 .. Len(t.line) \/ k = Len(t.line) + 1 \/ k \notin 1 .. Len(rest)
      BY <1>6, <2>5
    <3> QED BY <3>1, <3>2, <3>3, <3>4
  <2>9. Runs(q1, v, r, end)
    <3>1. Len(v) = Len(w) - i /\ i \in 0 .. Len(w)
      BY <2>7
    <3> QED BY <1>5, <1>7, <2>8, <3>1, RunFrom
  <2>10. /\ IsParser(y) /\ y.text = rest /\ y.data = p.parser.data /\ y.event = p.parser.event
         /\ y.id = p.parser.id
    <3>1. IsParser(p.parser)
      BY <2>1 DEF IsParse
    <3> QED BY <2>5, <3>1, TextReplaced
  <2>11. g.refused \/ (g.out = p.out /\ g.parser = y /\ Bounded(g.parser))
    BY <2>1, <2>5, EndTextGives
  <2> HIDE DEF y, q1
  <2>12. Ready(y, q1)
    <3>1. Parsed(y, q1)
      BY <2>1, <2>4, <2>10, ReadyAt
    <3> QED BY <2>4, <3>1 DEF Ready
  <2> HIDE DEF g
  <2>13. CASE ~g.refused
    <3>1. g.out = p.out /\ g.parser = y /\ Bounded(g.parser) /\ g.parser.text = rest
      BY <2>10, <2>11, <2>13
    <3>2. /\ Ready(g.parser, q1) /\ Runs(q1, g.parser.text \o more, r, end)
          /\ Delivered(g.out, q.n, "open") /\ Reached(g.out, q.n, q1.n)
      BY <2>1, <2>4, <2>9, <2>12, <3>1 DEF v
    <3> QED BY <1>4, <2>5, <3>1, <3>2
  <2> QED BY <1>4, <2>13
<1> QED BY <1>8, <1>9, <1>10, <1>11 DEF InStep

-----------------------------------------------------------------------------
(* The end of a connection, perhaps within a record                         *)

\* A line that the end of the connection has cut short, or not, gives the record
\* under way no more than the beginning of what Cloud sent.
LEMMA CutLine ==
    ASSUME NEW q, Fits(q), q.line # << >>, NEW p, IsParse(p), p.refused = FALSE, Parsed(p.parser, q)
    PROVE  LET g == Line(p, q.line)
               record == [type |-> g.parser.event, data |-> g.parser.data, id |-> g.parser.id] IN
           \/ g.refused /\ "refused" \in DOMAIN g
           \/ /\ IsParse(g) /\ g.refused = FALSE /\ g.out = p.out
              /\ g.parser.data # << >> /\ record.type = "message" => Right(record, q.n, "cut")
<1> DEFINE g == Line(p, q.line)
           x == p.parser
           line == q.line
           record == [type |-> g.parser.event, data |-> g.parser.data, id |-> g.parser.id]
<1>1. /\ Lines(q) /\ q.n \in 1 .. MaxEvents + 1 /\ x.event = q.type /\ x.data = DataAt(q)
      /\ q.row \in {"data", "message"} => x.id = q.n
  BY DEF Fits, Parsed
<1>2. IsSequence(line)
  <2>1. /\ IsSequence(<<<<"id", q.n>>>>) /\ IsSequence(<<<<"data", q.n>>>>)
        /\ IsSequence(Payload(q.n)[1]) /\ IsSequence(<<<<"data", q.type>>>>)
        /\ \A t : IsSequence(<<<<"event", t>>>>)
    BY TuplesAreSequences DEF Payload
  <2> QED BY <1>1, <2>1 DEF Lines, Comment
<1>3. record.type = g.parser.event /\ record.data = g.parser.data /\ record.id = g.parser.id
  OBVIOUS
<1>4. \/ g.refused /\ "refused" \in DOMAIN g
      \/ /\ IsParse(g) /\ g.refused = FALSE /\ g.out = p.out
         /\ g.parser.data = IF line[1][1] = "data" THEN Append(x.data, line) ELSE x.data
         /\ g.parser.id = IF line[1][1] = "id" THEN line[1][2] ELSE x.id
         /\ g.parser.event = IF line[1][1] = "event" THEN line[1][2] ELSE x.event
  <2> DEFINE y == [text |-> x.text,
                   data |-> IF line[1][1] = "data" THEN Append(x.data, line) ELSE x.data,
                   event |-> IF line[1][1] = "event" THEN line[1][2] ELSE x.event,
                   id |-> IF line[1][1] = "id" THEN line[1][2] ELSE x.id,
                   bytes |-> x.bytes + Len(line) + 1]
  <2>1. \/ g.refused /\ "refused" \in DOMAIN g
        \/ IsParse(g) /\ g.refused = FALSE /\ g.out = p.out /\ g.parser = y
    <3> HIDE DEF record
    <3> QED BY <1>2, LineGives
  <2>2. /\ y.data = IF line[1][1] = "data" THEN Append(x.data, line) ELSE x.data
        /\ y.id = IF line[1][1] = "id" THEN line[1][2] ELSE x.id
        /\ y.event = IF line[1][1] = "event" THEN line[1][2] ELSE x.event
    OBVIOUS
  <2> HIDE DEF g, y, record, x, line
  <2> QED BY <2>1, <2>2
<1> HIDE DEF g, record
<1>5. CASE /\ IsParse(g) /\ g.refused = FALSE /\ g.out = p.out
           /\ g.parser.data = IF line[1][1] = "data" THEN Append(x.data, line) ELSE x.data
           /\ g.parser.id = IF line[1][1] = "id" THEN line[1][2] ELSE x.id
           /\ g.parser.event = IF line[1][1] = "event" THEN line[1][2] ELSE x.event
  <2>1. CASE q.row = "start" /\ line[1][1] \in {"id", "event", "comment"}
    <3>1. x.data = << >>
      BY <1>1, <2>1 DEF DataAt
    <3>2. g.parser.data = << >>
      BY <1>5, <2>1, <3>1
    <3> QED BY <1>5, <3>2 DEF g
  <2>2. CASE q.row = "data"
    <3>1. x.data = << >> /\ x.event = "message" /\ x.id = q.n /\ q.n <= MaxEvents
      BY <1>1, <2>2 DEF DataAt, Lines
    <3>2. line \in {<<<<"data", q.n>>>>, Payload(q.n)[1]}
      BY <1>1, <2>2 DEF Lines
    <3>3. line[1][1] = "data"
      BY <3>2 DEF Payload
    <3>4. Append(<< >>, line) = <<line>>
      BY TuplesAreSequences
    <3>5. record.data = <<line>> /\ record.id = q.n
      BY <1>3, <1>5, <3>1, <3>3, <3>4
    <3>6. <<line>> = Payload(q.n) \/ IsPrefix(line, Payload(q.n)[1])
      <4>1. CASE line = Payload(q.n)[1]
        BY <4>1 DEF Payload
      <4>2. CASE line = <<<<"data", q.n>>>>
        <5> DEFINE d == <<"data", q.n>>
                   e == <<"rest", q.n>>
        <5>1. Payload(q.n)[1] = <<d, e>>
          BY DEF Payload
        <5> HIDE DEF d, e
        <5>2. /\ IsSequence(<<d>>) /\ Len(<<d>>) = 1 /\ IsSequence(<<d, e>>) /\ Len(<<d, e>>) = 2
              /\ <<d>>[1] = d /\ <<d, e>>[1] = d
          BY TuplesAreSequences
        <5>5. SubSeq(<<d>>, 1, 1) = SubSeq(<<d, e>>, 1, 1)
          BY <5>2, FirstOfSequence
        <5>6. IsPrefix(<<d>>, <<d, e>>)
          BY <5>2, <5>5 DEF IsPrefix
        <5> QED BY <4>2, <5>1, <5>6 DEF d
      <4> QED BY <3>2, <4>1, <4>2
    <3>7. Head(<<line>>) = line /\ Head(Payload(q.n)) = Payload(q.n)[1]
      BY DEF Payload
    <3>8. Right(record, q.n, "cut")
      BY <1>1, <3>1, <3>5, <3>6, <3>7, StreamAssumption DEF Right
    <3> QED BY <1>5, <3>8 DEF g, record
  <2>3. CASE q.row = "typed"
    <3>1. line = <<<<"data", q.type>>>> /\ q.type \in OtherTypes
      BY <1>1, <2>3 DEF Lines
    <3>2. line[1][1] = "data"
      BY <3>1
    <3>3. g.parser.event = q.type
      BY <1>1, <1>5, <3>2
    <3>4. record.type # "message"
      BY <1>3, <3>1, <3>3 DEF OtherTypes
    <3> QED BY <1>5, <3>4 DEF g, record
  <2>4. q.row = "start" => line[1][1] \in {"id", "event", "comment"}
    BY <1>1 DEF Lines, Comment
  <2>5. q.row \in {"start", "data", "typed"}
    BY <1>1 DEF Lines
  <2> QED BY <2>1, <2>2, <2>3, <2>4, <2>5
<1> QED BY <1>4, <1>5 DEF g

\* The record under way when the connection ends between two lines.
LEMMA CutRecord ==
    ASSUME NEW q, Fits(q), q.line = << >>, NEW x, Parsed(x, q)
    PROVE  LET record == [type |-> x.event, data |-> x.data, id |-> x.id] IN
           x.data # << >> /\ record.type = "message" => Right(record, q.n, "cut")
<1> DEFINE record == [type |-> x.event, data |-> x.data, id |-> x.id]
<1>1. /\ Lines(q) /\ q.n \in 1 .. MaxEvents + 1 /\ x.event = q.type /\ x.data = DataAt(q)
      /\ q.row \in {"data", "message"} => x.id = q.n
  BY DEF Fits, Parsed
<1>2. record.type = x.event /\ record.data = x.data /\ record.id = x.id
  OBVIOUS
<1> HIDE DEF record
<1>3. CASE q.row = "message"
  <2>1. x.data = Payload(q.n) /\ q.n \in 1 .. MaxEvents /\ x.id = q.n
    BY <1>1, <1>3, StreamAssumption DEF DataAt, Lines
  <2> QED BY <1>2, <2>1 DEF Right, record
<1>4. CASE q.row = "other"
  <2>1. record.type # "message"
    BY <1>1, <1>2, <1>4 DEF Lines, OtherTypes
  <2> QED BY <2>1 DEF record
<1>5. CASE q.row \notin {"message", "other"}
  BY <1>1, <1>5 DEF DataAt
<1> QED BY <1>3, <1>4, <1>5

\* The end: what is put out last may be the beginning of a message.
LEMMA FinishReads ==
    ASSUME NEW parser, NEW q, Ready(parser, q), NEW end \in TerminatorSet,
           NEW more, IsSequence(more), NEW r, Runs(q, parser.text \o more, r, end)
    PROVE  LET g == Finish(parser) IN
           \/ g.refused
           \/ Bounded(g.parser) /\ IsSequence(g.parser.text) /\ Delivered(g.out, q.n, "cut")
<1> DEFINE text == parser.text
           e == Len(text)
           t == Taken(parser, e)[e]
           p == t.parse
           w == text \o more
<1>1. /\ IsParser(parser) /\ IsSequence(text) /\ e \in Nat /\ Len(more) \in Nat /\ q.n \in Nat
  BY StreamAssumption, SequenceBasics DEF Ready, Parsed, IsParser, Fits
<1>2. Finish(parser) = EndText(p, t.line \o << >>, TRUE)
  <2>1. Deferred(text, TRUE) = << >> /\ Len(<< >>) = 0
    BY DEF Deferred
  <2>2. e - Len(Deferred(text, TRUE)) = e
    <3> DEFINE d == Len(Deferred(text, TRUE))
    <3>1. d = 0
      BY <2>1
    <3> HIDE DEF d, e
    <3>2. e - d = e
      BY <1>1, <3>1
    <3> QED BY <3>2 DEF d
  <2> QED BY <2>1, <2>2 DEF Finish, Process
<1>3. /\ IsSequence(w) /\ Len(w) = e + Len(more) /\ \A k \in 1 .. e : text[k] = w[k]
  <2> HIDE DEF e
  <2>1. IsSequence(text)
    BY <1>1
  <2> HIDE DEF text
  <2> QED BY <2>1, JoinedSequences DEF e
<1>4. PICK s : Through(s, q, w, r, end)
  BY DEF Runs
<1>5. InStep(t, s, e, text, q.n, end)
  <2>1. e \in 0 .. Len(w) /\ e \in 0 .. e
    BY <1>1, <1>3
  <2> HIDE DEF w, e
  <2> QED BY <1>3, <1>4, <2>1, Scans
<1> HIDE DEF t, w, e
<1>6. CASE Refuses(p)
  BY <1>2, <1>6, RefusedEnds
<1>7. CASE Overlong(t)
  BY <1>2, <1>7, OverlongRefused, EmptyIsSequence
<1>8. CASE Step(t, s, e, text, q.n, end)
  <2> DEFINE re == s[e + 1]
             g == EndText(p, t.line, TRUE)
             last == IF t.line = << >> THEN p ELSE Line(p, t.line)
             cut == [last EXCEPT !.parser.text = << >>]
             x == last.parser
             record == [type |-> x.event, data |-> x.data, id |-> x.id]
  <2>1. /\ Fits(re) /\ IsSequence(t.line) /\ t.line = re.line
        /\ IsParse(p) /\ p.refused = FALSE /\ Parsed(p.parser, re)
        /\ Delivered(p.out, q.n, "open") /\ Reached(p.out, q.n, re.n)
    BY <1>8 DEF Step, Reads
  <2>2. t.line \o << >> = t.line
    BY <2>1, ConcatEmptySeq DEF IsSequence
  <2>3. Finish(parser) = g
    BY <1>2, <2>2
  <2>4. re.n \in Nat
    BY <2>1, StreamAssumption DEF Fits
  <2> HIDE DEF re
  <2>5. \/ last.refused /\ "refused" \in DOMAIN last
        \/ /\ IsParse(last) /\ last.refused = FALSE /\ last.out = p.out
           /\ x.data # << >> /\ record.type = "message" => Right(record, re.n, "cut")
    <3>1. CASE t.line = << >>
      <4>1. last = p
        BY <3>1
      <4>2. x = p.parser
        BY <4>1
      <4> HIDE DEF last, x
      <4>3. x.data # << >> /\ record.type = "message" => Right(record, re.n, "cut")
        BY <2>1, <3>1, <4>2, CutRecord
      <4> QED BY <2>1, <4>1, <4>3
    <3>2. CASE t.line # << >>
      <4>1. last = Line(p, re.line)
        BY <2>1, <3>2
      <4> HIDE DEF last
      <4> QED BY <2>1, <3>2, <4>1, CutLine
    <3> QED BY <3>1, <3>2
  <2>6. CASE TooLong(p, t.line)
    <3>1. g = Refuse(p)
      BY <2>6 DEF EndText
    <3>2. "refused" \in DOMAIN p
      BY <2>1 DEF IsParse
    <3> QED BY <2>3, <3>1, <3>2, RefuseRefuses
  <2>7. CASE ~TooLong(p, t.line) /\ last.refused
    <3>1. g = last
      BY <2>1, <2>7 DEF EndText
    <3> QED BY <2>3, <2>7, <3>1
  <2>8. CASE ~TooLong(p, t.line) /\ ~last.refused
    <3>1. g = Dispatch(cut)
      BY <2>1, <2>8 DEF EndText
    <3>2. /\ IsParse(last) /\ last.refused = FALSE /\ last.out = p.out
          /\ x.data # << >> /\ record.type = "message" => Right(record, re.n, "cut")
      BY <2>5, <2>8
    <3> HIDE DEF last
    <3> DEFINE y == [x EXCEPT !.text = << >>]
    <3>3. IsParse(cut) /\ cut.refused = FALSE /\ cut.out = p.out /\ cut.parser = y
      BY <3>2, ParseReplaced, EmptyIsSequence
    <3>4. IsParser(y) /\ y.text = << >> /\ y.data = x.data /\ y.event = x.event /\ y.id = x.id
      <4>1. IsParser(x)
        BY <3>2 DEF IsParse
      <4> HIDE DEF x
      <4> QED BY <4>1, TextReplaced, EmptyIsSequence
    <3> HIDE DEF cut, y
    <3> DEFINE z == [text |-> cut.parser.text, data |-> << >>, event |-> "message", id |-> cut.parser.id, bytes |-> 0]
    <3>5. /\ g.parser = z
          /\ g.out = IF y.data = << >> THEN cut.out
                     ELSE Append(cut.out, [type |-> y.event, data |-> y.data, id |-> y.id])
      BY <3>1, <3>3, DispatchGives
    <3>6. z.text = << >> /\ z.bytes = 0
      BY <3>3, <3>4
    <3> HIDE DEF z, g, x
    <3>7. g.out = IF x.data = << >> THEN p.out ELSE Append(p.out, record)
      BY <3>3, <3>4, <3>5
    <3>8. Delivered(g.out, q.n, "cut")
      <4>1. CASE x.data = << >>
        <5>1. g.out = p.out
          BY <3>7, <4>1
        <5> QED BY <2>1, <5>1 DEF Delivered, Right
      <4>2. CASE x.data # << >>
        <5>1. g.out = Append(p.out, record)
          BY <3>7, <4>2
        <5> HIDE DEF record
        <5>2. record.type = "message" => Right(record, re.n, "cut")
          BY <3>2, <4>2
        <5> QED BY <1>1, <2>1, <2>4, <5>1, <5>2, DeliverOne
      <4> QED BY <4>1, <4>2
    <3>9. Bounded(g.parser) /\ IsSequence(g.parser.text)
      <4>1. Len(<< >>) + 0 <= MaxRecordBytes
        BY ParserAssumption
      <4> QED BY <3>5, <3>6, <4>1, EmptyIsSequence DEF Bounded
    <3> QED BY <2>3, <3>8, <3>9
  <2> QED BY <2>6, <2>7, <2>8
<1> QED BY <1>5, <1>6, <1>7, <1>8 DEF InStep

-----------------------------------------------------------------------------
(* What a connection holds: the invariant of what is handed over             *)

\* What a connection c holds when the message at is the last one committed: the
\* messages from the one after it on are among its records, in its parser and
\* on the way, in this order.
Open(c, at) ==
    /\ Delivered(c.records, at + 1, "open")
    /\ \E q, r : /\ Ready(c.parser, q) /\ Reached(c.records, at + 1, q.n)
                 /\ Runs(q, c.parser.text \o c.coming, r, c.end)
                 /\ r \in {Ruined, AtStart(c.next)}

\* A connection done has put out its last records.
Holds(c, at) ==
    /\ DOMAIN c = {"pc", "end", "next", "coming", "parser", "records", "done"}
    /\ c.end \in TerminatorSet /\ c.next \in 1 .. MaxEvents + 1
    /\ IsSequence(c.coming) /\ IsSequence(c.parser.text) /\ Bounded(c.parser)
    /\ IF c.done THEN Delivered(c.records, at + 1, "cut") ELSE Open(c, at)

\* What connect is about to do with it.
Due ==
    /\ conn.pc = "reading" => conn.records = << >> /\ ~conn.done
    /\ conn.pc = "handing" => conn.records # << >> /\ IsMessage(Head(conn.records))

\* The bounds of TypeOK.
Counts == faults \in 0 .. MaxFaults /\ cursor \in 0 .. MaxEvents /\ failures \in 0 .. MaxFailures

PageBounds == page.shown \in Shown /\ Len(page.seen) <= MaxRemembered

Carried == (Connected => Holds(conn, cursor)) /\ Due

StreamFull == StreamInv /\ Counts /\ PageBounds /\ Carried

\* A fresh connection.
LEMMA FreshHolds ==
    ASSUME cursor \in 0 .. MaxEvents, NEW end \in TerminatorSet
    PROVE  Holds(Reading(end), cursor)
<1> DEFINE c == Reading(end)
           q == AtStart(cursor + 1)
<1>1. /\ c.end = end /\ c.next = cursor + 1 /\ c.coming = << >> /\ c.parser = FreshParser
      /\ c.records = << >> /\ ~c.done
      /\ DOMAIN c = {"pc", "end", "next", "coming", "parser", "records", "done"}
  BY DEF Reading
<1>2. cursor \in Nat /\ cursor + 1 \in 1 .. MaxEvents + 1 /\ cursor + 1 \in Nat
  BY StreamAssumption
<1>3. /\ FreshParser.text = << >> /\ FreshParser.data = << >> /\ FreshParser.event = "message"
      /\ FreshParser.bytes = 0 /\ IsParser(FreshParser)
  <2>1. IsSequence(<< >>)
    BY EmptyIsSequence
  <2> QED BY <2>1 DEF FreshParser, IsParser
<1>4. q.row = "start" /\ q.n = cursor + 1 /\ q.type = "message" /\ q.line = << >> /\ ~Mid(q)
  BY PlaceFields DEF AtStart
<1>5. Fits(q)
  BY <1>2, PlacesFit
<1> HIDE DEF c, q
<1>6. Ready(FreshParser, q)
  BY <1>3, <1>4, <1>5 DEF Ready, Parsed, DataAt
<1>7. Runs(q, << >> \o << >>, q, end)
  <2>1. << >> \o << >> = << >>
    OBVIOUS
  <2> QED BY <2>1, RunNothing
<1>8. Open(c, cursor)
  <2>1. Delivered(<< >>, cursor + 1, "open") /\ Reached(<< >>, cursor + 1, cursor + 1)
    BY <1>2, NothingDelivered
  <2>2. q = AtStart(c.next)
    BY <1>1 DEF q
  <2>3. /\ Ready(c.parser, q) /\ Reached(c.records, cursor + 1, q.n)
        /\ Runs(q, c.parser.text \o c.coming, q, c.end) /\ q \in {Ruined, AtStart(c.next)}
    BY <1>1, <1>3, <1>4, <1>6, <1>7, <2>1, <2>2
  <2>4. Delivered(c.records, cursor + 1, "open")
    BY <1>1, <2>1
  <2> QED BY <2>3, <2>4 DEF Open
<1>9. Bounded(FreshParser)
  <2>1. Len(<< >>) = 0 /\ 0 + 0 <= MaxRecordBytes
    BY ParserAssumption
  <2> QED BY <1>3, <2>1 DEF Bounded
<1>10. Holds(c, cursor)
  BY <1>1, <1>2, <1>3, <1>8, <1>9, EmptyIsSequence DEF Holds
<1> QED BY <1>10 DEF c

\* A connection whose records, parser or bytes are others.
LEMMA HoldsFields ==
    ASSUME NEW c, NEW at, NEW b, NEW to, Holds(c, at), DOMAIN b = DOMAIN c,
           b.end = c.end, b.next \in 1 .. MaxEvents + 1, IsSequence(b.coming),
           IsSequence(b.parser.text), Bounded(b.parser),
           IF b.done THEN Delivered(b.records, to + 1, "cut") ELSE Open(b, to)
    PROVE  Holds(b, to)
BY DEF Holds

\* Cloud sends more.
LEMMA MoreHolds ==
    ASSUME NEW c, NEW at, Holds(c, at), ~c.done,
           NEW bytes, IsSequence(bytes), NEW next \in 1 .. MaxEvents + 1,
           NEW t \in {Ruined, AtStart(next)}, Runs(AtStart(c.next), bytes, t, c.end)
    PROVE  Holds([c EXCEPT !.coming = @ \o bytes, !.next = next], at)
<1> DEFINE a == [c EXCEPT !.coming = c.coming \o bytes]
           b == [a EXCEPT !.next = next]
           text == c.parser.text
           more == c.coming \o bytes
<1>1. /\ b.coming = more /\ b.next = next /\ b.end = c.end /\ b.parser = c.parser
      /\ b.records = c.records /\ ~b.done /\ DOMAIN b = DOMAIN c
  <2>1. /\ a.coming = more /\ a.end = c.end /\ a.parser = c.parser
        /\ a.records = c.records /\ ~a.done /\ DOMAIN a = DOMAIN c
    BY DEF Holds
  <2> HIDE DEF a, more
  <2> QED BY <2>1 DEF Holds
<1>2. [c EXCEPT !.coming = @ \o bytes, !.next = next] = b
  OBVIOUS
<1> HIDE DEF a, b
<1>3. PICK q, r : /\ Ready(c.parser, q) /\ Reached(c.records, at + 1, q.n)
                  /\ Runs(q, text \o c.coming, r, c.end) /\ r \in {Ruined, AtStart(c.next)}
                  /\ Delivered(c.records, at + 1, "open")
  BY DEF Holds, Open
<1>4. IsSequence(text) /\ IsSequence(c.coming) /\ c.end \in TerminatorSet /\ Bounded(c.parser)
  BY DEF Holds
<1>5. PICK u : u \in {Ruined, AtStart(next)} /\ Runs(r, bytes, u, c.end)
  BY <1>3, RunRuined
<1>6. Runs(q, text \o more, u, c.end)
  <2> DEFINE v == text \o c.coming
  <2>1. IsSequence(v)
    BY <1>4, JoinedSequences
  <2>2. v = text \o c.coming /\ more = c.coming \o bytes
    OBVIOUS
  <2> HIDE DEF v, more
  <2>3. Runs(q, v, r, c.end)
    BY <1>3, <2>2
  <2>4. Runs(q, v \o bytes, u, c.end)
    BY <1>5, <2>1, <2>3, RunOn
  <2>5. v \o bytes = text \o more
    <3> HIDE DEF text
    <3>1. PICK coming : coming = c.coming
      OBVIOUS
    <3>2. IsSequence(coming) /\ IsSequence(text) /\ v = text \o coming /\ more = coming \o bytes
      BY <1>4, <2>2, <3>1
    <3> QED BY <3>2, JoinedTwice
  <2> QED BY <2>4, <2>5
<1>7. IsSequence(more)
  BY <1>4, JoinedSequences
<1> HIDE DEF more
<1>8. Open(b, at)
  BY <1>1, <1>3, <1>5, <1>6 DEF Open
<1>9. Holds(b, at)
  BY <1>1, <1>4, <1>7, <1>8, HoldsFields
<1> QED BY <1>2, <1>9

\* The parser takes a chunk.
LEMMA PushHolds ==
    ASSUME NEW c, NEW at \in Nat, Holds(c, at), ~c.done, c.records = << >>, NEW n \in 1 .. Len(c.coming),
           NEW parse, parse = Push(c.parser, SubSeq(c.coming, 1, n)), ~parse.refused
    PROVE  Holds([c EXCEPT !.coming = SubSeq(@, n + 1, Len(@)),
                           !.parser = parse.parser, !.records = parse.out], at)
<1> DEFINE chunk == SubSeq(c.coming, 1, n)
           more == SubSeq(c.coming, n + 1, Len(c.coming))
           a1 == [c EXCEPT !.coming = more]
           a2 == [a1 EXCEPT !.parser = parse.parser]
           b == [a2 EXCEPT !.records = parse.out]
           text == c.parser.text
<1>1. /\ b.coming = more /\ b.parser = parse.parser /\ b.records = parse.out /\ ~b.done
      /\ b.end = c.end /\ b.next = c.next /\ DOMAIN b = DOMAIN c
  <2>1. /\ a1.coming = more /\ ~a1.done /\ a1.end = c.end /\ a1.next = c.next /\ DOMAIN a1 = DOMAIN c
    BY DEF Holds
  <2> HIDE DEF a1, more
  <2>2. /\ a2.coming = more /\ a2.parser = parse.parser /\ ~a2.done /\ a2.end = c.end
        /\ a2.next = c.next /\ DOMAIN a2 = DOMAIN c
    BY <2>1 DEF Holds
  <2> HIDE DEF a2
  <2> QED BY <2>2 DEF Holds
<1>2. [c EXCEPT !.coming = SubSeq(@, n + 1, Len(@)),
                !.parser = parse.parser, !.records = parse.out] = b
  OBVIOUS
<1> HIDE DEF a1, a2, b
<1>3. PICK q, r : /\ Ready(c.parser, q) /\ Reached(c.records, at + 1, q.n)
                  /\ Runs(q, text \o c.coming, r, c.end) /\ r \in {Ruined, AtStart(c.next)}
  BY DEF Holds, Open
<1>4. /\ IsSequence(text) /\ IsSequence(c.coming) /\ c.end \in TerminatorSet /\ c.next \in 1 .. MaxEvents + 1
      /\ Len(c.coming) \in Nat /\ DOMAIN c.coming = 1 .. Len(c.coming)
  BY SequenceBasics DEF Holds
<1>5. q.n = at + 1
  <2>1. AllMessages(<< >>, Len(<< >>)) /\ Len(<< >>) = 0
    BY DEF AllMessages
  <2>2. q.n = at + 1 + 0
    BY <1>3, <2>1 DEF Reached
  <2> QED BY <2>2
<1>6. /\ IsSequence(chunk) /\ Len(chunk) = n /\ \A j \in 1 .. n : chunk[j] = c.coming[j]
      /\ IsSequence(more) /\ Len(more) = Len(c.coming) - n
      /\ \A j \in 1 .. Len(c.coming) - n : more[j] = c.coming[n + j]
  <2>1. n \in Nat /\ n <= Len(c.coming) /\ n + 1 \in Nat \ {0} /\ n - 1 + 1 = n /\ n + 1 - 1 = n /\ 1 - 1 = 0
        /\ 1 <= n + 1 /\ n + 1 <= Len(c.coming) + 1 /\ Len(c.coming) - (n + 1) + 1 = Len(c.coming) - n
    BY <1>4
  <2>2. /\ IsSequence(chunk) /\ Len(chunk) = n - 1 + 1
        /\ \A j \in 1 .. n - 1 + 1 : chunk[j] = c.coming[1 - 1 + j]
    BY <1>4, <2>1, PartOfSequence
  <2>3. /\ IsSequence(more) /\ Len(more) = Len(c.coming) - (n + 1) + 1
        /\ \A j \in 1 .. Len(c.coming) - (n + 1) + 1 : more[j] = c.coming[n + 1 - 1 + j]
    BY <1>4, <2>1, PartOfSequence
  <2> HIDE DEF chunk, more
  <2>4. \A j \in 1 .. n : 1 - 1 + j = j
    OBVIOUS
  <2> QED BY <2>1, <2>2, <2>3, <2>4
<1> HIDE DEF chunk, more
<1>7. chunk \o more = c.coming
  <2> DEFINE u == chunk \o more
  <2>5. IsSequence(chunk) /\ IsSequence(more)
    BY <1>6
  <2>1. /\ IsSequence(u) /\ DOMAIN u = 1 .. Len(chunk) + Len(more)
        /\ \A j \in 1 .. Len(chunk) : u[j] = chunk[j]
        /\ \A j \in 1 .. Len(more) : u[Len(chunk) + j] = more[j]
    BY <2>5, JoinedSequences
  <2> HIDE DEF u
  <2>2. DOMAIN u = 1 .. Len(c.coming)
    BY <1>4, <1>6, <2>1
  <2>3. ASSUME NEW j \in 1 .. Len(c.coming) PROVE u[j] = c.coming[j]
    <3>1. CASE j <= n
      BY <1>4, <1>6, <2>1, <3>1
    <3>2. CASE ~(j <= n)
      <4>1. PICK k \in 1 .. Len(c.coming) - n : j = n + k
        <5>1. j - n \in 1 .. Len(c.coming) - n /\ j = n + (j - n)
          BY <1>4, <3>2
        <5> QED BY <5>1
      <4>2. u[Len(chunk) + k] = more[k] /\ more[k] = c.coming[n + k]
        BY <1>6, <2>1, <4>1
      <4> QED BY <1>6, <4>1, <4>2
    <3> QED BY <3>1, <3>2
  <2>4. u = c.coming
    <3>1. PICK coming : coming = c.coming
      OBVIOUS
    <3>2. IsSequence(coming) /\ DOMAIN u = DOMAIN coming /\ \A j \in DOMAIN u : u[j] = coming[j]
      BY <1>4, <2>2, <2>3, <3>1
    <3>3. u = coming
      BY <2>1, <3>2, SameSequence
    <3> QED BY <3>1, <3>3
  <2> QED BY <2>4 DEF u
<1>8. /\ Bounded(parse.parser) /\ IsSequence(parse.parser.text)
      /\ \E q1 : /\ Ready(parse.parser, q1) /\ Runs(q1, parse.parser.text \o more, r, c.end)
                 /\ Delivered(parse.out, q.n, "open") /\ Reached(parse.out, q.n, q1.n)
  <2>1. Runs(q, c.parser.text \o (chunk \o more), r, c.end)
    BY <1>3, <1>7
  <2>2. parse = Push(c.parser, chunk)
    BY DEF chunk
  <2>3. IsSequence(chunk) /\ IsSequence(more)
    BY <1>6
  <2>4. Ready(c.parser, q) /\ r \in {Ruined, AtStart(c.next)}
    BY <1>3
  <2> HIDE DEF text
  <2> QED BY <1>4, <2>1, <2>2, <2>3, <2>4, PushReads
<1>9. Open(b, at)
  BY <1>1, <1>3, <1>5, <1>8 DEF Open
<1>10. Holds(b, at)
  BY <1>1, <1>4, <1>6, <1>8, <1>9, HoldsFields
<1> QED BY <1>2, <1>10

\* The connection ends.
LEMMA FinishHolds ==
    ASSUME NEW c, NEW at \in Nat, Holds(c, at), ~c.done, c.records = << >>,
           NEW parse, parse = Finish(c.parser), ~parse.refused
    PROVE  Holds([c EXCEPT !.coming = << >>, !.done = TRUE,
                           !.parser = parse.parser, !.records = parse.out], at)
<1> DEFINE a1 == [c EXCEPT !.coming = << >>]
           a2 == [a1 EXCEPT !.done = TRUE]
           a3 == [a2 EXCEPT !.parser = parse.parser]
           b == [a3 EXCEPT !.records = parse.out]
<1>1. /\ b.coming = << >> /\ b.parser = parse.parser /\ b.records = parse.out /\ b.done
      /\ b.end = c.end /\ b.next = c.next /\ DOMAIN b = DOMAIN c
  <2>1. a1.coming = << >> /\ a1.end = c.end /\ a1.next = c.next /\ DOMAIN a1 = DOMAIN c
    BY DEF Holds
  <2> HIDE DEF a1
  <2>2. a2.coming = << >> /\ a2.done /\ a2.end = c.end /\ a2.next = c.next /\ DOMAIN a2 = DOMAIN c
    BY <2>1 DEF Holds
  <2> HIDE DEF a2
  <2>3. /\ a3.coming = << >> /\ a3.parser = parse.parser /\ a3.done /\ a3.end = c.end
        /\ a3.next = c.next /\ DOMAIN a3 = DOMAIN c
    BY <2>2 DEF Holds
  <2> HIDE DEF a3
  <2> QED BY <2>3 DEF Holds
<1>2. [c EXCEPT !.coming = << >>, !.done = TRUE, !.parser = parse.parser, !.records = parse.out] = b
  OBVIOUS
<1> HIDE DEF a1, a2, a3, b
<1>3. PICK q, r : /\ Ready(c.parser, q) /\ Reached(c.records, at + 1, q.n)
                  /\ Runs(q, c.parser.text \o c.coming, r, c.end)
  BY DEF Holds, Open
<1>4. IsSequence(c.coming) /\ c.end \in TerminatorSet /\ c.next \in 1 .. MaxEvents + 1
  BY DEF Holds
<1>5. q.n = at + 1
  <2>1. AllMessages(<< >>, Len(<< >>)) /\ Len(<< >>) = 0
    BY DEF AllMessages
  <2>2. q.n = at + 1 + 0
    BY <1>3, <2>1 DEF Reached
  <2> QED BY <2>2
<1>6. Bounded(parse.parser) /\ IsSequence(parse.parser.text) /\ Delivered(parse.out, q.n, "cut")
  BY <1>3, <1>4, FinishReads
<1>7. Holds(b, at)
  <2>1. IF b.done THEN Delivered(b.records, at + 1, "cut") ELSE Open(b, at)
    BY <1>1, <1>5, <1>6
  <2> QED BY <1>1, <1>4, <1>6, <2>1, EmptyIsSequence, HoldsFields
<1> QED BY <1>2, <1>7

\* What is handed over first is the next message.
LEMMA HeadRight ==
    ASSUME NEW c, NEW at \in Nat, Holds(c, at), c.records # << >>, IsMessage(Head(c.records))
    PROVE  /\ Right(Head(c.records), at + 1, IF c.done THEN "cut" ELSE "open")
           /\ IsSequence(c.records) /\ Head(c.records) = c.records[1] /\ AllMessages(c.records, 1)
<1>1. Delivered(c.records, at + 1, IF c.done THEN "cut" ELSE "open")
  BY DEF Holds, Open
<1>2. IsSequence(c.records)
  BY <1>1 DEF Delivered
<1>3. Head(c.records) = c.records[1] /\ 1 \in 1 .. Len(c.records)
  BY <1>2, TailOfSequence, SequenceBasics
<1>4. AllMessages(c.records, 1)
  BY <1>3 DEF AllMessages, IsMessage
<1>5. at + 1 + 1 - 1 = at + 1
  OBVIOUS
<1> QED BY <1>1, <1>2, <1>3, <1>4, <1>5 DEF Delivered

\* It is committed, and what follows it is next.
LEMMA TailHolds ==
    ASSUME NEW c, NEW at \in Nat, Holds(c, at), c.records # << >>, IsMessage(Head(c.records))
    PROVE  Holds([c EXCEPT !.records = Tail(c.records)], at + 1)
<1> DEFINE out == c.records
           rest == Tail(c.records)
           b == [c EXCEPT !.records = rest]
<1>1. /\ b.records = rest /\ b.coming = c.coming /\ b.parser = c.parser /\ (b.done <=> c.done)
      /\ b.end = c.end /\ b.next = c.next /\ DOMAIN b = DOMAIN c
  BY DEF Holds
<1>2. IsSequence(out) /\ AllMessages(out, 1) /\ Len(out) \in Nat
  BY HeadRight, SequenceBasics
<1>3. /\ IsSequence(rest) /\ Len(rest) = Len(out) - 1 /\ DOMAIN rest = 1 .. Len(rest)
      /\ \A i \in 1 .. Len(rest) : rest[i] = out[i + 1]
  <2>1. /\ IsSequence(rest) /\ Len(rest) = Len(out) - 1
        /\ \A i \in DOMAIN rest : rest[i] = out[i + 1]
    BY <1>2, TailOfSequence
  <2> HIDE DEF rest, out
  <2>2. DOMAIN rest = 1 .. Len(rest)
    BY <2>1, SequenceBasics
  <2> QED BY <2>1, <2>2
<1> HIDE DEF rest, b
<1>7. Len(rest) \in Nat
  BY <1>3, SequenceBasics
<1>4. ASSUME NEW j \in 0 .. Len(rest), AllMessages(rest, j) PROVE AllMessages(out, j + 1)
  <2>1. ASSUME NEW i \in 1 .. j + 1 PROVE out[i].type = "message"
    <3>1. CASE i = 1
      BY <1>2, <3>1 DEF AllMessages
    <3>2. CASE i # 1
      <4>1. i - 1 \in 1 .. j /\ i - 1 \in 1 .. Len(rest) /\ i - 1 + 1 = i
        BY <1>7, <3>2
      <4>2. rest[i - 1].type = "message" /\ rest[i - 1] = out[i]
        BY <1>3, <1>4, <4>1 DEF AllMessages
      <4> QED BY <4>2
    <3> QED BY <3>1, <3>2
  <2> QED BY <2>1 DEF AllMessages
<1>5. ASSUME NEW ending, Delivered(out, at + 1, ending) PROVE Delivered(rest, at + 1 + 1, ending)
  <2>1. ASSUME NEW j \in 1 .. Len(rest), AllMessages(rest, j) PROVE Right(rest[j], at + 1 + 1 + j - 1, ending)
    <3>1. j + 1 \in 1 .. Len(out) /\ at + 1 + (j + 1) - 1 = at + 1 + 1 + j - 1 /\ j \in 0 .. Len(rest)
      BY <1>2, <1>3, <1>7
    <3>2. AllMessages(out, j + 1)
      BY <1>4, <2>1, <3>1
    <3>3. Right(out[j + 1], at + 1 + (j + 1) - 1, ending)
      BY <1>5, <3>1, <3>2 DEF Delivered
    <3>4. rest[j] = out[j + 1]
      BY <1>3
    <3> QED BY <3>1, <3>3, <3>4
  <2> QED BY <1>3, <2>1 DEF Delivered
<1>6. ASSUME NEW n, Reached(out, at + 1, n) PROVE Reached(rest, at + 1 + 1, n)
  <2> SUFFICES ASSUME AllMessages(rest, Len(rest)) PROVE n = at + 1 + 1 + Len(rest)
    BY DEF Reached
  <2>1. AllMessages(out, Len(out))
    <3>1. Len(rest) \in 0 .. Len(rest) /\ Len(rest) + 1 = Len(out)
      BY <1>2, <1>3, <1>7
    <3> QED BY <1>4, <3>1
  <2>2. n = at + 1 + Len(out)
    BY <1>6, <2>1 DEF Reached
  <2>3. Len(out) \in Nat /\ Len(rest) \in Nat /\ Len(rest) = Len(out) - 1
    BY <1>2, <1>3, <1>7
  <2> DEFINE k == Len(out)
             l == Len(rest)
  <2>4. n = at + 1 + k /\ k \in Nat /\ l \in Nat /\ l = k - 1
    BY <2>2, <2>3
  <2> HIDE DEF k, l
  <2>5. n = at + 1 + 1 + l
    BY <2>4
  <2> QED BY <2>5 DEF l
<1>8. /\ IsSequence(c.coming) /\ IsSequence(c.parser.text) /\ Bounded(c.parser)
      /\ c.next \in 1 .. MaxEvents + 1
  BY DEF Holds
<1>9. CASE c.done
  <2>1. Delivered(rest, at + 1 + 1, "cut")
    BY <1>5, <1>9 DEF Holds
  <2>2. IF b.done THEN Delivered(b.records, at + 1 + 1, "cut") ELSE Open(b, at + 1)
    BY <1>1, <1>9, <2>1
  <2>3. Holds(b, at + 1)
    BY <1>1, <1>8, <2>2, HoldsFields
  <2> QED BY <2>3 DEF b, rest
<1>10. CASE ~c.done
  <2>1. Open(c, at)
    BY <1>10 DEF Holds
  <2>2. Open(b, at + 1)
    BY <1>1, <1>5, <1>6, <2>1 DEF Open
  <2>3. IF b.done THEN Delivered(b.records, at + 1 + 1, "cut") ELSE Open(b, at + 1)
    BY <1>1, <1>10, <2>2
  <2>4. Holds(b, at + 1)
    BY <1>1, <1>8, <2>3, HoldsFields
  <2> QED BY <2>4 DEF b, rest
<1> QED BY <1>9, <1>10

-----------------------------------------------------------------------------
(* Every step keeps it                                                      *)

\* Where connect waits next is no matter to what it holds.
LEMMA WaitHolds ==
    ASSUME NEW c, NEW at, Holds(c, at), NEW pc
    PROVE  LET b == [c EXCEPT !.pc = pc] IN
           /\ Holds(b, at) /\ b.pc = pc /\ b.records = c.records /\ (b.done <=> c.done)
<1> DEFINE b == [c EXCEPT !.pc = pc]
<1>1. /\ b.pc = pc /\ b.coming = c.coming /\ b.parser = c.parser /\ b.records = c.records
      /\ (b.done <=> c.done) /\ b.end = c.end /\ b.next = c.next /\ DOMAIN b = DOMAIN c
  BY DEF Holds
<1> HIDE DEF b
<1>2. Open(c, at) => Open(b, at)
  BY <1>1 DEF Open
<1>3. Holds(b, at)
  BY <1>1, <1>2 DEF Holds
<1> QED BY <1>1, <1>3 DEF b

\* Without a connection.
LEMMA NothingCarried == ASSUME conn' = NoConnection PROVE Carried'
BY DEF Carried, Due, Connected, NoConnection

\* connect goes on with what it holds.
LEMMA ProceedHolds ==
    ASSUME NEW c, NEW at, Holds(c, at), cursor' = at, Proceed(c)
    PROVE  Carried'
<1>1. CASE c.records = << >> /\ ~c.done /\ conn' = [c EXCEPT !.pc = "reading"]
  <2>1. Holds(conn', at) /\ conn'.pc = "reading" /\ conn'.records = << >> /\ ~conn'.done
    BY <1>1, WaitHolds
  <2> QED BY <2>1 DEF Carried, Due
<1>2. CASE c.records # << >> /\ IsMessage(Head(c.records)) /\ conn' = [c EXCEPT !.pc = "handing"]
  <2>1. Holds(conn', at) /\ conn'.pc = "handing" /\ conn'.records = c.records
    BY <1>2, WaitHolds
  <2> QED BY <1>2, <2>1 DEF Carried, Due
<1>3. CASE conn' = NoConnection
  BY <1>3, NothingCarried
<1>4. Fails \/ Stops(page, NoConnection) \/ Closes => conn' = NoConnection
  BY DEF Fails, Stops, Closes, NoConnection
<1> QED BY <1>1, <1>2, <1>3, <1>4 DEF Proceed

\* The steps, one by one.
LEMMA StartCarries == StreamFull /\ (Start \/ ReconnectFires) => Carried'
BY DEF Start, ReconnectFires, Fetching, Carried, Due, Connected

\* A connection that is answered carries what follows the cursor.
LEMMA AnsweredCarries == StreamFull /\ Answered => Carried'
<1> SUFFICES ASSUME StreamFull, Answered PROVE Carried'
  OBVIOUS
<1>1. PICK end \in LineEnds : conn' = Reading(end)
  BY DEF Answered
<1>2. end \in TerminatorSet /\ cursor' = cursor /\ cursor \in 0 .. MaxEvents
  BY StreamAssumption DEF TerminatorSet, Answered, StreamFull, Counts
<1>3. Holds(conn', cursor')
  BY <1>1, <1>2, FreshHolds
<1>4. conn'.pc = "reading" /\ conn'.records = << >> /\ ~conn'.done
  BY <1>1 DEF Reading
<1> QED BY <1>3, <1>4 DEF Carried, Due

\* The reader, with a chunk or the end of the connection.
LEMMA ReadsCarry == StreamFull /\ (ReadReturns \/ ReadEnds \/ ReadBreaks) => Carried'
<1> SUFFICES ASSUME StreamFull, ReadReturns \/ ReadEnds \/ ReadBreaks PROVE Carried'
  OBVIOUS
<1>1. /\ conn.pc = "reading" /\ cursor' = cursor /\ cursor \in Nat
      /\ Holds(conn, cursor) /\ ~conn.done /\ conn.records = << >>
  <2>1. conn.pc = "reading" /\ cursor' = cursor
    BY DEF ReadReturns, ReadEnds, ReadBreaks
  <2>2. Connected /\ Carried /\ cursor \in Nat
    BY <2>1, StreamAssumption DEF Connected, StreamFull, Counts
  <2> QED BY <2>1, <2>2 DEF Carried, Due
<1>2. Fails => Carried'
  BY NothingCarried DEF Fails
<1>3. CASE ReadReturns
  <2>0. PICK n \in 1 .. Len(conn.coming) : \E parse :
             /\ parse = Push(conn.parser, SubSeq(conn.coming, 1, n))
             /\ \/ Fails
                \/ /\ ~parse.refused
                   /\ Proceed([conn EXCEPT !.coming = SubSeq(@, n + 1, Len(@)),
                                           !.parser = parse.parser, !.records = parse.out])
    BY <1>3 DEF ReadReturns
  <2>1. PICK parse :
             /\ parse = Push(conn.parser, SubSeq(conn.coming, 1, n))
             /\ \/ Fails
                \/ /\ ~parse.refused
                   /\ Proceed([conn EXCEPT !.coming = SubSeq(@, n + 1, Len(@)),
                                           !.parser = parse.parser, !.records = parse.out])
    BY <2>0
  <2> DEFINE c == [conn EXCEPT !.coming = SubSeq(@, n + 1, Len(@)),
                               !.parser = parse.parser, !.records = parse.out]
  <2>2. CASE ~parse.refused /\ Proceed(c)
    <3>1. Holds(c, cursor)
      BY <1>1, <2>1, <2>2, PushHolds
    <3> HIDE DEF c
    <3> QED BY <1>1, <2>2, <3>1, ProceedHolds
  <2> QED BY <1>2, <2>1, <2>2
<1>4. CASE ReadEnds
  <2>1. PICK parse :
             /\ parse = Finish(conn.parser)
             /\ \/ Fails
                \/ /\ ~parse.refused
                   /\ Proceed([conn EXCEPT !.coming = << >>, !.done = TRUE,
                                           !.parser = parse.parser, !.records = parse.out])
    BY <1>4 DEF ReadEnds
  <2> DEFINE c == [conn EXCEPT !.coming = << >>, !.done = TRUE,
                               !.parser = parse.parser, !.records = parse.out]
  <2>2. CASE ~parse.refused /\ Proceed(c)
    <3>1. Holds(c, cursor)
      BY <1>1, <2>1, <2>2, FinishHolds
    <3> HIDE DEF c
    <3> QED BY <1>1, <2>2, <3>1, ProceedHolds
  <2> QED BY <1>2, <2>1, <2>2
<1> QED BY <1>2, <1>3, <1>4 DEF ReadBreaks

\* What onRecord has been given is the message after the cursor.
LEMMA HandedNext ==
    ASSUME StreamFull, conn.pc = "handing"
    PROVE  /\ Holds(conn, cursor) /\ conn.records # << >> /\ IsMessage(Head(conn.records))
           /\ cursor \in Nat
           /\ Right(Head(conn.records), cursor + 1, IF conn.done THEN "cut" ELSE "open")
<1>1. Connected /\ Carried /\ cursor \in Nat
  BY StreamAssumption DEF Connected, StreamFull, Counts
<1>2. Holds(conn, cursor) /\ conn.records # << >> /\ IsMessage(Head(conn.records))
  BY <1>1 DEF Carried, Due
<1> QED BY <1>1, <1>2, HeadRight

\* What onRecord has been given is committed when it returns.
LEMMA HandsCarry == StreamFull /\ (HandReturns \/ HandRejects) => Carried'
<1> SUFFICES ASSUME StreamFull, HandReturns \/ HandRejects PROVE Carried'
  OBVIOUS
<1>1. /\ conn.pc = "handing" /\ Holds(conn, cursor) /\ conn.records # << >>
      /\ IsMessage(Head(conn.records)) /\ cursor \in Nat
      /\ Head(conn.records).id = cursor + 1
  <2>1. conn.pc = "handing"
    BY DEF HandReturns, HandRejects
  <2> QED BY <2>1, HandedNext DEF Right
<1>2. CASE HandRejects
  BY <1>2, NothingCarried DEF HandRejects, Fails
<1>3. CASE HandReturns
  <2>1. cursor' = cursor + 1
    BY <1>1, <1>3 DEF HandReturns, Commits
  <2>2. CASE life = "running"
    <3> DEFINE c == [conn EXCEPT !.records = Tail(conn.records)]
    <3>1. Holds(c, cursor + 1)
      BY <1>1, TailHolds
    <3>2. Proceed(c)
      BY <1>3, <2>2 DEF HandReturns, HandsOn, Rest
    <3> HIDE DEF c
    <3> QED BY <2>1, <3>1, <3>2, ProceedHolds
  <2>3. CASE life # "running"
    BY <1>3, <2>3, NothingCarried DEF HandReturns, HandsOn
  <2> QED BY <2>2, <2>3
<1> QED BY <1>2, <1>3

\* What Cloud sends follows what it has sent.
LEMMA CloudCarries == StreamFull /\ (CloudSends \/ CloudSendsOther) => Carried'
<1> SUFFICES ASSUME StreamFull, CloudSends \/ CloudSendsOther PROVE Carried'
  OBVIOUS
<1>1. ASSUME NEW bytes, IsSequence(bytes), NEW next \in 1 .. MaxEvents + 1,
             NEW t \in {Ruined, AtStart(next)}, Runs(AtStart(conn.next), bytes, t, conn.end),
             Carries(bytes, next)
      PROVE  Carried'
  <2> DEFINE b == [conn EXCEPT !.coming = @ \o bytes, !.next = next]
  <2>1. Connected /\ ~conn.done /\ conn' = b /\ cursor' = cursor /\ Holds(conn, cursor)
    BY <1>1 DEF Carries, StreamFull, Carried
  <2>2. Holds(b, cursor)
    BY <1>1, <2>1, MoreHolds
  <2>3. b.pc = conn.pc /\ b.records = conn.records /\ (b.done <=> conn.done)
    BY <2>1 DEF Holds
  <2>4. Due
    BY DEF StreamFull, Carried
  <2> HIDE DEF b
  <2> QED BY <2>1, <2>2, <2>3, <2>4 DEF Carried, Due
<1>2. Connected
  BY DEF CloudSends, CloudSendsOther, Carries
<1>3. conn.end \in TerminatorSet /\ conn.next \in 1 .. MaxEvents + 1
  BY <1>2 DEF StreamFull, Carried, Holds
<1>4. CASE CloudSends
  <2> DEFINE n == conn.next
  <2>1. n \in 1 .. MaxEvents /\ n + 1 \in 1 .. MaxEvents + 1 /\ Carries(Message(n, conn.end), n + 1)
    BY <1>3, <1>4, StreamAssumption DEF CloudSends
  <2>2. Runs(AtStart(n), Message(n, conn.end), AtStart(n + 1), conn.end) /\ IsSequence(Message(n, conn.end))
    BY <1>3, <2>1, RunMessage
  <2> QED BY <1>1, <2>1, <2>2
<1>5. CASE CloudSendsOther
  <2>1. ASSUME NEW type \in OtherTypes, Carries(Named(type, conn.end), conn.next) PROVE Carried'
    BY <1>1, <1>3, <2>1, RunNamed
  <2>2. ASSUME Carries(Ping(conn.end), conn.next) PROVE Carried'
    BY <1>1, <1>3, <2>2, RunPing
  <2>3. ASSUME Carries(Endless, conn.next) PROVE Carried'
    BY <1>1, <1>3, <2>3, RunEndless
  <2> QED BY <1>5, <2>1, <2>2, <2>3 DEF CloudSendsOther
<1> QED BY <1>4, <1>5

\* The steps of the page and the timers.
LEMMA CarriedKept == ASSUME Carried, conn' = conn, cursor' = cursor PROVE Carried'
BY DEF Carried, Due, Connected

LEMMA AlwaysCarried == StreamFull /\ [Next]_vars => Carried'
<1> SUFFICES ASSUME StreamFull, [Next]_vars PROVE Carried'
  OBVIOUS
<1>1. Carried
  BY DEF StreamFull
<1>2. CASE RecoveryStarts \/ RecoveryEnds \/ PollFires \/ PollReturns \/ UNCHANGED vars
  BY <1>1, <1>2, CarriedKept DEF RecoveryStarts, RecoveryEnds, PollFires, PollReturns, vars
<1>3. CASE Refused \/ Unauthorized \/ Gone
  BY <1>3, NothingCarried DEF Refused, Unauthorized, Gone, Fails, Closes, Stops, NoConnection
<1>4. CASE AppCloses
  <2>1. cursor' = cursor /\ (conn' = conn \/ conn' = NoConnection)
    BY <1>4 DEF AppCloses, Stops
  <2> QED BY <1>1, <2>1, CarriedKept, NothingCarried
<1> QED BY <1>2, <1>3, <1>4, StartCarries, AnsweredCarries, ReadsCarry, HandsCarry, CloudCarries
        DEF Next

-----------------------------------------------------------------------------
(* The bounds                                                               *)

\* The counters keep their bounds.
LEMMA SpendCounts == ASSUME Counts, NEW fault, Spend(fault) PROVE faults' \in 0 .. MaxFaults
BY StreamAssumption DEF Counts, Spend

LEMMA ProceedCounts ==
    ASSUME Counts, NEW c, Fails \/ Proceed(c)
    PROVE  failures' \in 0 .. MaxFailures
<1>1. Fails \/ failures' = failures
  BY DEF Proceed, Closes, Stops
<1>2. Fails => failures' = IF failures < MaxFailures THEN failures + 1 ELSE failures
  BY DEF Fails
<1> QED BY <1>1, <1>2, StreamAssumption DEF Counts

LEMMA CountsKept == StreamFull /\ [Next]_vars => Counts'
<1> SUFFICES ASSUME StreamFull, [Next]_vars PROVE Counts'
  OBVIOUS
<1>1. Counts
  BY DEF StreamFull
<1>2. faults' \in 0 .. MaxFaults
  <2>1. faults' = faults \/ \E fault : Spend(fault)
    BY DEF Next, vars, RecoveryStarts, RecoveryEnds, Start, Answered, Refused, Unauthorized, Gone,
           ReadReturns, ReadEnds, ReadBreaks, HandReturns, HandRejects, ReconnectFires, PollFires,
           PollReturns, AppCloses, CloudSends, CloudSendsOther
  <2> QED BY <1>1, <2>1, SpendCounts DEF Counts
<1>3. failures' \in 0 .. MaxFailures
  <2>1. failures' = failures \/ failures' = 0 \/ Fails \/ \E c : Proceed(c)
    BY DEF Next, vars, RecoveryStarts, RecoveryEnds, Start, Answered, Refused, Unauthorized, Gone,
           ReadReturns, ReadEnds, ReadBreaks, HandReturns, HandRejects, ReconnectFires, PollFires,
           PollReturns, AppCloses, CloudSends, CloudSendsOther, Carries, Closes, Stops
  <2> QED BY <1>1, <2>1, ProceedCounts, StreamAssumption DEF Counts
<1>4. cursor' \in 0 .. MaxEvents
  <2>1. CASE HandReturns
    <3>1. Right(Head(conn.records), cursor + 1, IF conn.done THEN "cut" ELSE "open")
      BY <2>1, HandedNext DEF HandReturns
    <3>2. cursor' = cursor + 1 /\ cursor + 1 \in 1 .. MaxEvents
      BY <2>1, <3>1 DEF HandReturns, Commits, Right
    <3> QED BY <1>1, <3>2, StreamAssumption DEF Counts
  <2>2. HandReturns \/ cursor' = cursor
    BY DEF Next, vars, RecoveryStarts, RecoveryEnds, Start, Answered, Refused, Unauthorized, Gone,
           ReadReturns, ReadEnds, ReadBreaks, HandRejects, ReconnectFires, PollFires,
           PollReturns, AppCloses, CloudSends, CloudSendsOther, Carries
  <2> QED BY <1>1, <2>1, <2>2 DEF Counts
<1> QED BY <1>2, <1>3, <1>4 DEF Counts

\* What the end of the control session shows is one identity at most.
LEMMA ClosedBounds ==
    ASSUME NEW p, PageInv(p)
    PROVE  LET closed == [EmitAs(p, "CLOSED", TRUE) EXCEPT !.shown = "CLOSED"]
           IN  closed.shown = "CLOSED" /\ Len(closed.seen) <= MaxRemembered
<1> DEFINE end == [category |-> "session_closed", identity |-> <<"session_closed", 0>>]
           candidate == StreamTransition(p.shown, "CLOSED", TRUE, Epoch(p, "CLOSED"))
           shown == Shows(p.seen, candidate)
           after == RememberShown(p.seen, shown)
           closed == EmitAs(p, "CLOSED", TRUE)
<1>1. p.seen \in Seq(Identities) /\ Len(p.seen) <= MaxRemembered /\ p \in PageType
  BY DEF PageInv, PageType
<1>2. candidate = {end}
  BY DEF StreamTransition, Signal
<1>3. end.identity \in Identities
  BY DEF Identities
<1>4. closed.seen = after /\ DOMAIN closed = {"shown", "epoch", "seen", "told"}
  BY <1>1 DEF EmitAs, PageType
<1> HIDE DEF end, candidate, closed
<1>5. shown \in {{}, {end}}
  BY <1>2 DEF Shows
<1>6. Len(after) <= MaxRemembered
  <2> HIDE DEF after
  <2>1. CASE shown = {}
    BY <1>1, <2>1, RememberNothing DEF after
  <2>2. CASE shown = {end}
    BY <1>1, <1>3, <2>2, RememberOne DEF after
  <2> QED BY <1>5, <2>1, <2>2
<1> HIDE DEF after
<1>7. [closed EXCEPT !.shown = "CLOSED"].shown = "CLOSED" /\ [closed EXCEPT !.shown = "CLOSED"].seen = after
  BY <1>4
<1> QED BY <1>6, <1>7 DEF closed

\* A stream that is stopped remembers no more than one that runs.
LEMMA PageBoundsKept == StreamFull /\ [Next]_vars => PageBounds'
<1> SUFFICES ASSUME StreamFull, [Next]_vars PROVE PageBounds'
  OBVIOUS
<1>1. PageBounds /\ StreamInv /\ StreamInv'
  BY Steps DEF StreamFull
<1>2. ASSUME NEW p, PageInv(p), page' = p PROVE PageBounds'
  BY <1>2 DEF PageInv, PageType, PageBounds
<1>3. CASE life' # "stopped"
  BY <1>1, <1>2, <1>3 DEF StreamInv, Tells
<1>4. CASE life = "stopped"
  <2>1. conn.pc \in {"off", "handing"}
    BY <1>1, <1>4 DEF StreamInv, Ended
  <2>2. ~(Answered \/ Refused \/ Unauthorized \/ Gone \/ ReadReturns \/ ReadEnds \/ ReadBreaks)
    BY <2>1 DEF Answered, Refused, Unauthorized, Gone, ReadReturns, ReadEnds, ReadBreaks
  <2>3. HandReturns \/ HandRejects => page' = page
    BY <1>4 DEF HandReturns, HandRejects, HandsOn
  <2>4. ~(RecoveryStarts \/ RecoveryEnds \/ Start \/ AppCloses)
    BY <1>4 DEF RecoveryStarts, RecoveryEnds, Start, AppCloses
  <2>5. PollFires \/ PollReturns \/ ReconnectFires \/ UNCHANGED vars => page' = page
    BY <1>4 DEF PollFires, PollReturns, ReconnectFires, vars
  <2>6. CloudSends \/ CloudSendsOther => page' = page
    BY DEF CloudSends, CloudSendsOther, Carries
  <2>7. page' = page
    BY <2>2, <2>3, <2>4, <2>5, <2>6 DEF Next
  <2> QED BY <1>1, <2>7 DEF PageBounds
<1>5. CASE life # "stopped" /\ life' = "stopped"
  <2>1. PageInv(page)
    BY <1>1, <1>5 DEF StreamInv, Tells
  <2>2. Unauthorized \/ Closes \/ \E c : Stops(page, c)
    BY <1>5 DEF Next, vars, RecoveryStarts, RecoveryEnds, Start, Answered, Refused, Gone,
           ReadReturns, ReadEnds, ReadBreaks, HandReturns, HandRejects, ReconnectFires, PollFires,
           PollReturns, AppCloses, CloudSends, CloudSendsOther, Carries, Fails, Proceed
  <2>3. CASE Unauthorized
    BY <1>2, <2>1, <2>3, EmitKeeps DEF Unauthorized, Shown
  <2>4. CASE Closes
    <3>1. page' = [EmitAs(page, "CLOSED", TRUE) EXCEPT !.shown = "CLOSED"]
      BY <2>4 DEF Closes, Stops
    <3> QED BY <2>1, <3>1, ClosedBounds DEF PageBounds, Shown
  <2>5. CASE \E c : Stops(page, c)
    <3>1. page' = [page EXCEPT !.shown = "CLOSED"]
      BY <2>5 DEF Stops
    <3> QED BY <1>2, <2>1, <3>1, ShownKeeps DEF Shown
  <2> QED BY <2>2, <2>3, <2>4, <2>5
<1> QED BY <1>3, <1>4, <1>5

LEMMA FullStarts == Init => StreamFull
<1> SUFFICES ASSUME Init PROVE StreamFull
  OBVIOUS
<1>1. Counts
  BY StreamAssumption DEF Init, Counts
<1>2. PageBounds
  <2>1. Len(<< >>) = 0
    OBVIOUS
  <2> QED BY <2>1, RememberedAssumption DEF Init, PageBounds, Shown
<1>3. Carried
  BY DEF Init, Carried, Due, Connected, NoConnection
<1> QED BY <1>1, <1>2, <1>3, Starts DEF StreamFull

LEMMA AlwaysStreamFull == Spec => []StreamFull
<1>1. StreamFull /\ [Next]_vars => StreamFull'
  BY Steps, CountsKept, PageBoundsKept, AlwaysCarried DEF StreamFull
<1> QED BY <1>1, FullStarts, PTL DEF Spec

-----------------------------------------------------------------------------
(* The theorems *)

\* A stream that runs has one connection or will try one, whatever fails and
\* whatever the timers do.
THEOREM OneConnectionHolds == Spec => []OneConnection
BY AlwaysStreamInv, PTL DEF StreamInv

\* As long as connections keep failing the page polls, or is about to.
THEOREM FallsBackHolds == Spec => []FallsBack
BY AlwaysStreamInv, PTL DEF StreamInv

\* However many attempts fail, and however polling and recoveries change what is
\* shown between them, a lost connection is told to the user at most once.
THEOREM OneNoticePerLossHolds == Spec => []OneNoticePerLoss
<1>1. StreamInv => OneNoticePerLoss
  BY DEF StreamInv, Tells, OneNoticePerLoss
<1> QED BY <1>1, AlwaysStreamInv, PTL

\* After stop no record is handed over, no poll and no connection starts, and
\* nothing is told to the user.
THEOREM SilentAfterStopHolds == Spec => SilentAfterStop
<1> DEFINE Silent == /\ conn'.pc = "off" \/ (conn'.pc = "handing" /\ conn'.records = conn.records)
                     /\ polling' => polling
                     /\ ~reconnect'
                     /\ page'.seen = page.seen
<1>1. ASSUME StreamInv, [Next]_vars, life = "stopped" PROVE Silent
  <2>1. conn.pc \in {"off", "handing"} /\ reconnect = FALSE /\ Shaped(conn)
    BY <1>1 DEF StreamInv, Ended, Typed
  <2>2. CASE HandReturns \/ HandRejects
    <3>1. /\ conn' = NoConnection
          /\ UNCHANGED <<polling, reconnect, page>>
      BY <1>1, <2>2 DEF HandReturns, HandRejects, HandsOn
    <3> QED BY <2>1, <3>1 DEF NoConnection
  <2>3. CASE PollFires \/ PollReturns
    BY <1>1, <2>1, <2>3 DEF PollFires, PollReturns, StreamInv, Typed
  <2>4. CASE CloudSends \/ CloudSendsOther
    <3>1. PICK lines, next : Carries(lines, next)
      BY <2>4 DEF CloudSends, CloudSendsOther
    <3>2. conn'.pc = "handing" /\ conn'.records = conn.records
      BY <2>1, <3>1 DEF Carries, Connected, Shaped
    <3> QED BY <2>1, <3>1, <3>2 DEF Carries
  <2>5. CASE UNCHANGED vars
    BY <2>1, <2>5 DEF vars
  <2>6. ~(RecoveryStarts \/ RecoveryEnds \/ Start \/ AppCloses \/ ReconnectFires)
    BY <1>1, <2>1 DEF RecoveryStarts, RecoveryEnds, Start, AppCloses, ReconnectFires
  <2>7. ~(Answered \/ Refused \/ Unauthorized \/ Gone \/ ReadReturns \/ ReadEnds \/ ReadBreaks)
    BY <2>1 DEF Answered, Refused, Unauthorized, Gone, ReadReturns, ReadEnds, ReadBreaks
  <2> QED BY <1>1, <2>2, <2>3, <2>4, <2>5, <2>6, <2>7 DEF Next
<1>2. StreamInv /\ [Next]_vars => [life = "stopped" => Silent]_vars
  BY <1>1
<1> QED BY <1>2, AlwaysStreamInv, PTL DEF Spec, SilentAfterStop

\* What is kept has its type and its bound, in whatever chunks bytes come and
\* whatever lines do not end: the counters, what the page remembers, the
\* unfinished record of the parser.
THEOREM StreamTypeOK == Spec => []TypeOK
<1>1. StreamFull => TypeOK
  <2> SUFFICES ASSUME StreamFull PROVE TypeOK
    OBVIOUS
  <2>1. Connected => Len(conn.parser.text) + conn.parser.bytes <= MaxRecordBytes
    BY DEF StreamFull, Carried, Holds, Bounded
  <2>2. {reconnect, timer, polling} \subseteq BOOLEAN
    BY DEF StreamFull, StreamInv, Typed
  <2>3. life \in {"new", "running", "stopped"} /\ conn.pc \in {"off", "fetching", "reading", "handing"}
    BY DEF StreamFull, StreamInv, Typed, Shaped
  <2>4. Counts /\ PageBounds
    BY DEF StreamFull
  <2> QED BY <2>1, <2>2, <2>3, <2>4 DEF TypeOK, Counts, PageBounds, Shown
<1> QED BY <1>1, AlwaysStreamFull, PTL

\* Whatever Cloud sends beside its messages, whichever terminators its lines have
\* and wherever the bytes are cut into chunks: what onRecord is given is a message,
\* whole, or the beginning of one that the end of the connection has cut.
THEOREM HandsCloudsMessagesHolds == Spec => []HandsCloudsMessages
<1>1. StreamFull => HandsCloudsMessages
  <2> SUFFICES ASSUME StreamFull, conn.pc = "handing" PROVE HandsCloudsMessages
    BY DEF HandsCloudsMessages
  <2> DEFINE record == Head(conn.records)
  <2>1. Right(record, cursor + 1, IF conn.done THEN "cut" ELSE "open")
    BY HandedNext
  <2> HIDE DEF record
  <2>2. record.id \in 1 .. MaxEvents
    BY <2>1 DEF Right
  <2>3. \/ record.data = Payload(record.id)
        \/ conn.done /\ IsPrefix(Head(record.data), Head(Payload(record.id)))
    BY <2>1 DEF Right
  <2> QED BY <2>2, <2>3 DEF HandsCloudsMessages, record
<1> QED BY <1>1, AlwaysStreamFull, PTL

\* It is the message after the cursor: none is handed over twice and none is
\* skipped, through any number of connections.
THEOREM InOrderHolds == Spec => []InOrder
<1>1. StreamFull => InOrder
  BY HandedNext DEF InOrder, Right
<1> QED BY <1>1, AlwaysStreamFull, PTL
=============================================================================
