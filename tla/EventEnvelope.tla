---------------------------- MODULE EventEnvelope ----------------------------
(***************************************************************************)
(* Which events a remote session state takes: validateEnvelope, the checks *)
(* at the top of applyRemoteSessionEvent and remember                      *)
(* (remote-session-state.js).                                              *)
(*                                                                         *)
(* An envelope is a record with fields eventId, cursor, sequence, scope    *)
(* (control session, device, workspace and session in one) and data.  A    *)
(* state is a record with at least scope, installed, cursor, sequence and  *)
(* seen; 0 is the null cursor.  seen lists the remembered envelopes, the   *)
(* oldest first.                                                           *)
(***************************************************************************)
EXTENDS Naturals, Sequences, SequencesExt

CONSTANT SeenLimit  \* how many envelopes are remembered (2048 in the code)

ASSUME SeenLimitAssumption == SeenLimit \in Nat \ {0}

\* The event is one of this control session's.
InScope(state, e) == e.scope = state.scope

\* The event has been remembered under its eventId ...
Known(state, e) == \E s \in ToSet(state.seen) : s.eventId = e.eventId

\* ... with the very same envelope: it is ignored.
Duplicate(state, e) == InScope(state, e) /\ e \in ToSet(state.seen)

\* Mutant: records may be left out.
AnyLater(state, e) == state.installed /\ e.cursor > state.cursor

\* The event is the next one of the stream.
InOrder(state, e) ==
    /\ state.installed
    /\ e.cursor > state.cursor
    /\ e.sequence = state.sequence + 1

\* The event is to be applied; if it is no duplicate either, it is an error.
Accepts(state, e) == InScope(state, e) /\ ~Known(state, e) /\ InOrder(state, e)

\* Mutant: nothing is ever forgotten.
RemembersAll(seen, e) == Append(seen, e)

Remember(seen, e) ==
    LET longer == Append(seen, e)
    IN  IF Len(longer) > SeenLimit THEN Tail(longer) ELSE longer
=============================================================================
