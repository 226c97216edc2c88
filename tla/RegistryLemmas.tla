--------------------------- MODULE RegistryLemmas ---------------------------
(***************************************************************************)
(* What the operations on a record preserve, for every record and update.  *)
(* DeviceSyncProofs and RegistryFileProofs cite these facts.               *)
(***************************************************************************)
EXTENDS RecordSteps, TLAPS

LEMMA RecordNotNone == \A rec \in Record : rec # None
BY NoneAssumption

LEMMA OverlayType ==
  ASSUME NEW base \in Settings, NEW upd \in Settings
  PROVE  Overlay(base, upd) \in Settings
BY DEF Overlay, Settings

LEMMA MergeType ==
  ASSUME NEW base \in Payload, NEW upd \in Update
  PROVE  /\ MergePayload(base, upd) \in Payload
         /\ MergePayload(base, upd).version = base.version
<1>1. Overlay(base.set, upd.set) \in Settings
  BY OverlayType DEF Payload, Update
<1>2. Larger(base.minSV, upd.minSV) \in Nat
  BY DEF Payload, Update, Larger
<1>3. (IF upd.psk = None THEN base.psk ELSE upd.psk) \in Keys
  BY DEF Payload, Update
<1>4. QED
  BY <1>1, <1>2, <1>3 DEF MergePayload, Payload, Update

\* An edit leaves the active payload alone and numbers the pending one above
\* both the active one and the pending one it replaces.
LEMMA StagedFacts ==
  ASSUME NEW rec \in Record, NEW upd \in Update
  PROVE  /\ Staged(rec, upd) \in Record
         /\ Staged(rec, upd).active = rec.active
         /\ Staged(rec, upd).pending # None
              => Staged(rec, upd).pending.version = NextVersion(rec)
         /\ NextVersion(rec) \in Nat
         /\ NextVersion(rec) > rec.active.version
         /\ rec.pending # None => NextVersion(rec) > rec.pending.version
<1> DEFINE merged == MergePayload(PendingBase(rec), upd)
           next   == [merged EXCEPT !.version = NextVersion(rec)]
<1>1. rec.active \in Payload /\ (rec.pending # None => rec.pending \in Payload)
  BY DEF Record
<1>2. PendingBase(rec) \in Payload
  BY <1>1 DEF PendingBase
<1>3. merged \in Payload
  BY <1>2, MergeType
<1>4. /\ NextVersion(rec) \in Nat
      /\ NextVersion(rec) > rec.active.version
      /\ rec.pending # None => NextVersion(rec) > rec.pending.version
  BY <1>1 DEF NextVersion, Payload
<1>5. next \in Payload /\ next.version = NextVersion(rec)
  BY <1>3, <1>4 DEF Payload
<1>6. Staged(rec, upd) = [rec EXCEPT !.pending =
                            IF PayloadEquivalent(next, rec.active) THEN None ELSE next]
  BY DEF Staged
<1> HIDE DEF next, merged
<1>7. QED
  BY <1>4, <1>5, <1>6 DEF Record

\* An edit leaves a change or nothing, keeps the rest of the record, and lowers
\* no floor below that of what it amends.
LEMMA StagedAmends ==
  ASSUME NEW rec \in Record, NEW upd \in Update
  PROVE  /\ Staged(rec, upd).seen = rec.seen /\ Staged(rec, upd).serial = rec.serial
         /\ Staged(rec, upd).pending # None
              => /\ ~PayloadEquivalent(Staged(rec, upd).pending, rec.active)
                 /\ Staged(rec, upd).pending.minSV >= PendingBase(rec).minSV
<1> DEFINE merged == MergePayload(PendingBase(rec), upd)
           next   == [merged EXCEPT !.version = NextVersion(rec)]
<1>1. PendingBase(rec) \in Payload
  BY DEF PendingBase, Record
<1>2. merged \in Payload /\ merged.minSV >= PendingBase(rec).minSV
  <2>1. merged \in Payload /\ merged.minSV = Larger(PendingBase(rec).minSV, upd.minSV)
    BY <1>1, MergeType DEF MergePayload
  <2>2. PendingBase(rec).minSV \in Nat /\ upd.minSV \in Nat
    BY <1>1 DEF Payload, Update
  <2>3. QED
    BY <2>1, <2>2 DEF Larger
<1>3. next.minSV = merged.minSV
  BY <1>2 DEF Payload
<1>4. Staged(rec, upd) = [rec EXCEPT !.pending =
                            IF PayloadEquivalent(next, rec.active) THEN None ELSE next]
  BY DEF Staged
<1> HIDE DEF next, merged
<1>5. QED
  BY <1>2, <1>3, <1>4 DEF Record

LEMMA RegisteredFacts ==
  ASSUME NEW upd \in Update, upd.psk # None
  PROVE  /\ Registered(upd) \in Record
         /\ Registered(upd).pending = None
         /\ Registered(upd).active.version = 1
BY DEF Registered, Record, Payload, Update

LEMMA PromotedFacts ==
  ASSUME NEW rec \in Record, rec.pending # None
  PROVE  /\ Promoted(rec) \in Record
         /\ Promoted(rec).active = rec.pending
         /\ Promoted(rec).pending = None
BY DEF Promoted, Record

\* The other writes change neither number, key, settings nor the pending payload.
Upkept(rec, new) ==
  /\ new.pending = rec.pending
  /\ new.active.version = rec.active.version
  /\ new.active.psk = rec.active.psk
  /\ new.active.set = rec.active.set

LEMMA UpkeepFacts ==
  ASSUME NEW rec \in Record, NEW serial \in Serials \cup {None}, NEW sv \in Nat,
         NEW new \in {Touched(rec), WithSerial(rec, serial), WithFloor(rec, sv)}
  PROVE  new \in Record /\ Upkept(rec, new)
<1>1. Larger(rec.active.minSV, sv) \in Nat
  BY DEF Larger, Record, Payload
<1>2. CASE new = Touched(rec)
  BY <1>2 DEF Touched, Record, Upkept
<1>3. CASE new = WithSerial(rec, serial)
  BY <1>3 DEF WithSerial, Record, Upkept
<1>4. CASE new = WithFloor(rec, sv)
  <2>1. new = [rec EXCEPT !.active = [rec.active EXCEPT !.minSV = Larger(@, sv)]]
    BY <1>4 DEF WithFloor, Record
  <2>2. [rec.active EXCEPT !.minSV = Larger(@, sv)] \in Payload
    BY <1>1 DEF Record, Payload
  <2>3. QED
    BY <2>1, <2>2 DEF Record, Payload, Upkept
<1>5. QED
  BY <1>2, <1>3, <1>4

\* Nor do they lower the floor, or forget that the device was seen or its serial.
LEMMA UpkeepNotes ==
  ASSUME NEW rec \in Record, NEW serial \in Serials \cup {None}, NEW sv \in Nat,
         NEW new \in {Touched(rec), WithSerial(rec, serial), WithFloor(rec, sv)}
  PROVE  Notes(rec, new)
<1>1. rec.active \in Payload /\ rec.active.minSV \in Nat
  BY DEF Record, Payload
<1>2. rec.active = [rec.active EXCEPT !.minSV = rec.active.minSV]
  BY <1>1 DEF Payload
<1>3. CASE new = Touched(rec)
  BY <1>1, <1>2, <1>3 DEF Touched, Record, Notes
<1>4. CASE new = WithSerial(rec, serial)
  BY <1>1, <1>2, <1>4 DEF WithSerial, Record, Notes
<1>5. CASE new = WithFloor(rec, sv)
  <2>1. /\ new.active = [rec.active EXCEPT !.minSV = Larger(@, sv)]
        /\ new.pending = rec.pending
        /\ new.seen = rec.seen /\ new.serial = rec.serial
    BY <1>5 DEF WithFloor, Record
  <2>2. new.active.minSV = Larger(rec.active.minSV, sv)
    BY <1>1, <2>1 DEF Payload
  <2>3. Larger(rec.active.minSV, sv) >= rec.active.minSV
    BY <1>1 DEF Larger
  <2>4. QED
    BY <2>1, <2>2, <2>3 DEF Notes
<1>6. QED
  BY <1>3, <1>4, <1>5

LEMMA UpkeptKeys ==
  ASSUME NEW rec, NEW new, Upkept(rec, new)
  PROVE  KeysOnRecord(new) = KeysOnRecord(rec)
BY DEF Upkept, KeysOnRecord, PendingKey

\* A verifier accepts the active key and the pending one, whether or not they differ.
LEMMA KeysFacts ==
  ASSUME NEW rec \in Record
  PROVE  /\ rec.active.psk \in KeysOnRecord(rec)
         /\ rec.pending # None => rec.pending.psk \in KeysOnRecord(rec)
         /\ KeysOnRecord(rec) \subseteq Keys
BY NoneAssumption DEF KeysOnRecord, PendingKey, Record, Payload

LEMMA PromotedKeys ==
  ASSUME NEW rec \in Record, rec.pending # None
  PROVE  KeysOnRecord(Promoted(rec)) = {rec.pending.psk}
BY NoneAssumption, PromotedFacts DEF KeysOnRecord, PendingKey, Record, Payload

LEMMA RegisteredKeys ==
  ASSUME NEW upd \in Update, upd.psk # None
  PROVE  /\ KeysOnRecord(Registered(upd)) = {upd.psk}
         /\ Registered(upd).active.psk = upd.psk
         /\ Registered(upd).active.set = upd.set
BY NoneAssumption DEF Registered, KeysOnRecord, PendingKey

\* An edit that asks for a key has it on record, whether or not there is
\* anything left to send.
LEMMA StagedKey ==
  ASSUME NEW rec \in Record, NEW upd \in Update, upd.psk # None
  PROVE  upd.psk \in KeysOnRecord(Staged(rec, upd))
<1> DEFINE next == [MergePayload(PendingBase(rec), upd) EXCEPT !.version = NextVersion(rec)]
<1>1. next.psk = upd.psk /\ next \in Payload
  <2>1. PendingBase(rec) \in Payload
    BY DEF PendingBase, Record
  <2>2. MergePayload(PendingBase(rec), upd) \in Payload /\ NextVersion(rec) \in Nat
    BY <2>1, MergeType, StagedFacts
  <2>3. MergePayload(PendingBase(rec), upd).psk = upd.psk
    BY DEF MergePayload
  <2>4. QED
    BY <2>2, <2>3 DEF Payload
<1>2. Staged(rec, upd) = [rec EXCEPT !.pending =
                            IF PayloadEquivalent(next, rec.active) THEN None ELSE next]
  BY DEF Staged
<1> HIDE DEF next
<1>3. Staged(rec, upd) \in Record /\ Staged(rec, upd).active = rec.active
  BY StagedFacts
<1>4. CASE PayloadEquivalent(next, rec.active)
  BY <1>1, <1>3, <1>4, KeysFacts DEF PayloadEquivalent
<1>5. CASE ~PayloadEquivalent(next, rec.active)
  <2>1. Staged(rec, upd).pending = next
    BY <1>2, <1>5 DEF Record
  <2>2. next # None
    BY <1>1, NoneAssumption
  <2>3. QED
    BY <1>1, <1>3, <2>1, <2>2, KeysFacts
<1>6. QED
  BY <1>4, <1>5

-----------------------------------------------------------------------------
(* Every operation is a step that RecordSteps allows.                        *)

LEMMA RegisteredStep ==
  ASSUME NEW upd \in Update, upd.psk # None
  PROVE  NewRecord(Registered(upd)) /\ Step(None, Registered(upd))
BY RegisteredFacts DEF Registered, NewRecord, Step

LEMMA StagedStep ==
  ASSUME NEW rec \in Record, NEW upd \in Update
  PROVE  Step(rec, Staged(rec, upd))
<1> DEFINE new == Staged(rec, upd)
<1>1. /\ new \in Record /\ rec # None
      /\ new.active = rec.active /\ new.seen = rec.seen /\ new.serial = rec.serial
  BY StagedFacts, StagedAmends, RecordNotNone
<1>2. ASSUME new.pending # None
      PROVE  /\ \A p \in PayloadsOf(rec) : new.pending.version > p.version
             /\ new.pending.minSV >= PendingBase(rec).minSV
             /\ ~PayloadEquivalent(new.pending, rec.active)
  BY <1>2, StagedFacts, StagedAmends DEF PayloadsOf
<1> HIDE DEF new
<1>3. ASSUME new.pending # None
      PROVE  \E m \in {"psk", "set", "minSV"} : new.pending[m] # rec.active[m]
  <2>1. new.pending \in Payload /\ rec.active \in Payload
    BY <1>1, <1>3 DEF Record
  <2>2. QED
    BY <1>2, <1>3, <2>1 DEF PayloadEquivalent, Payload
<1>4. Edits(rec, new)
  BY <1>1, <1>2, <1>3 DEF Edits
<1>5. QED
  BY <1>1, <1>4 DEF Step, new

LEMMA PromotedStep ==
  ASSUME NEW rec \in Record, rec.pending # None
  PROVE  Step(rec, Promoted(rec))
<1>1. Promoted(rec).seen /\ Promoted(rec).serial = rec.serial
  BY DEF Promoted, Record
<1>2. QED
  BY <1>1, PromotedFacts, RecordNotNone DEF Step, Promotes

LEMMA UpkeepStep ==
  ASSUME NEW rec \in Record, NEW serial \in Serials \cup {None}, NEW sv \in Nat,
         NEW new \in {Touched(rec), WithSerial(rec, serial), WithFloor(rec, sv)}
  PROVE  Step(rec, new)
<1>1. Notes(rec, new)
  BY UpkeepNotes
<1>2. new \in Record
  BY UpkeepFacts
<1>3. QED
  BY <1>1, <1>2, RecordNotNone DEF Step
=============================================================================
