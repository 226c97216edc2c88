-------------------------- MODULE RecordLifeProofs --------------------------
(***************************************************************************)
(* The numbers of a record, from nothing but its life: whatever implements *)
(* RecordLife inherits them.                                               *)
(***************************************************************************)
EXTENDS RecordLife, TLAPS

LEMMA PayloadsOnRecord ==
  ASSUME NEW rec \in Record
  PROVE  /\ rec # None
         /\ rec.active \in Payload /\ rec.active \in PayloadsOf(rec)
         /\ rec.pending # None => rec.pending \in Payload
BY NoneAssumption DEF Record, PayloadsOf

\* What one step does to the numbers, from a record whose pending edit is ahead.
LEMMA StepNumbers ==
  ASSUME NEW rec \in Record, NEW new, Step(rec, new),
         rec.pending # None => rec.pending.version > rec.active.version
  PROVE  /\ new \in Record /\ Rising(rec, new)
         /\ new.pending # None => new.pending.version > new.active.version
<1>1. new \in Record /\ new # None /\ rec # None
  BY PayloadsOnRecord DEF Step
<1>2. /\ rec.active \in Payload /\ new.active \in Payload
      /\ rec.active \in PayloadsOf(rec)
      /\ rec.pending # None => rec.pending \in Payload
  BY <1>1, PayloadsOnRecord
<1>3. rec.active.version \in Nat /\ (rec.pending # None => rec.pending.version \in Nat)
  BY <1>2 DEF Payload
<1>4. CASE Edits(rec, new)
  BY <1>1, <1>2, <1>3, <1>4 DEF Edits, Rising
<1>5. CASE Promotes(rec, new)
  BY <1>1, <1>3, <1>5 DEF Promotes, Rising
<1>6. CASE Notes(rec, new)
  <2>1. /\ new.active.version = rec.active.version
        /\ new.active.psk = rec.active.psk /\ new.active.set = rec.active.set
    BY <1>2, <1>6 DEF Notes, Payload
  <2>2. QED
    BY <1>1, <1>3, <1>6, <2>1 DEF Notes, Rising
<1>7. QED
  BY <1>1, <1>4, <1>5, <1>6 DEF Step

\* A pending edit is always ahead of what is in force.
THEOREM EditsAhead == Spec => [](LifeTypeOK /\ Ahead)
<1>1. Init => LifeTypeOK /\ Ahead
  BY DEF Init, NewRecord, LifeTypeOK, Ahead
<1>2. LifeTypeOK /\ Ahead /\ [Next]_file => LifeTypeOK' /\ Ahead'
  <2> SUFFICES ASSUME LifeTypeOK, Ahead, [Next]_file
               PROVE  LifeTypeOK' /\ Ahead'
    OBVIOUS
  <2>1. CASE UNCHANGED file
    BY <2>1 DEF LifeTypeOK, Ahead
  <2>2. CASE file = None /\ Next
    BY <2>2 DEF Next, Step, NewRecord, LifeTypeOK, Ahead
  <2>3. CASE file # None /\ Next
    BY <2>3, StepNumbers DEF Next, LifeTypeOK, Ahead
  <2>4. QED
    BY <2>1, <2>2, <2>3
<1>3. QED
  BY <1>1, <1>2, PTL DEF Spec

\* The numbers of SetPending and MaybePromote, for any caller of the registry:
\* one registration, one payload for the number in force, new numbers on top.
THEOREM LifeNumbersRise == Spec => NumbersRise
<1>1. LifeTypeOK /\ Ahead /\ [Next]_file => [file # None => Rising(file, file')]_file
  BY StepNumbers DEF LifeTypeOK, Ahead, Next
<1>2. QED
  BY <1>1, EditsAhead, PTL DEF Spec, NumbersRise
=============================================================================
