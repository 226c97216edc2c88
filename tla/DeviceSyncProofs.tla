-------------------------- MODULE DeviceSyncProofs --------------------------
(***************************************************************************)
(* Proofs about DeviceSync, for every set of keys, settings, values,       *)
(* request slots and edits, and with or without I/O faults.                *)
(***************************************************************************)
EXTENDS DeviceSync, RegistryLemmas

-----------------------------------------------------------------------------
(* Type correctness *)

\* A write either stores the new record or, on a fault, leaves the old one.
LEMMA UpkeepWrite ==
  ASSUME file \in Record, NEW serial \in Serials \cup {None}, NEW sv \in Nat,
         NEW new \in {Touched(file), WithSerial(file, serial), WithFloor(file, sv)},
         Write(new)
  PROVE  file' \in Record /\ Upkept(file, file')
BY UpkeepFacts DEF Write, Upkept

LEMMA IdleRequestType == IdleRequest \in Request /\ Unprovisioned \in Config
BY DEF IdleRequest, Request, Unprovisioned, Config, Settings, Steps, Statuses

LEMMA MarksGrow ==
  ASSUME NEW rec, NEW next, marks \subseteq Marks
  PROVE  /\ marks \cup StageMarks(rec, next) \subseteq Marks
         /\ StageMarks(rec, next) \subseteq Marks
BY DEF StageMarks

\* A roll-back adds its own marks, if any.
LEMMA RollbackFacts ==
  ASSUME marks \subseteq Marks
  PROVE  /\ marks \cup RollbackMarks \subseteq Marks
         /\ RollbackMarks \subseteq {"setback", "unrotated"}
         /\ cand # None /\ ~GivenUp(file, cand) =>
              /\ cand.psk = good.psk => "setback" \in RollbackMarks
              /\ cand.psk # good.psk => "unrotated" \in RollbackMarks
BY DEF RollbackMarks, Marks

LEMMA RefusedEither ==
  ASSUME NEW h \in Handlers, Refused(h)
  PROVE  \/ UNCHANGED <<cand, marks>>
         \/ /\ cand' = None /\ marks' = marks \cup RollbackMarks
            /\ req[h].status \in {"unauthorized", "badSignature"}
BY DEF Refused, RollBack, Retry

\* Steps after authentication: the handler has a record and a key.
PastAuth == {"promote", "touch", "serial", "floor", "load"}

LEMMA GotoFacts ==
  ASSUME NEW r \in Request, NEW step \in Steps
  PROVE  /\ [r EXCEPT !.pc = step] \in Request
         /\ [r EXCEPT !.pc = step].pc = step
         /\ [r EXCEPT !.pc = step].active = r.active
         /\ [r EXCEPT !.pc = step].ran = r.ran
         /\ [r EXCEPT !.pc = step].blob = r.blob
BY DEF Request

LEMMA ReplyFacts ==
  ASSUME TypeOK, NEW h \in Handlers, NEW status \in Statuses,
         NEW blob \in Blob \cup {None}, Reply(h, status, blob)
  PROVE  \E r \in Request :
           /\ req' = [req EXCEPT ![h] = r]
           /\ r.pc = "reply" /\ r.ran = req[h].ran /\ r.blob = blob
<1> DEFINE r == [IdleRequest EXCEPT !.pc = "reply", !.kind = req[h].kind,
                                    !.ran = req[h].ran, !.status = status, !.blob = blob]
<1>1. req[h] \in Request
  BY DEF TypeOK
<1>2. r \in Request /\ r.pc = "reply" /\ r.ran = req[h].ran /\ r.blob = blob
  BY <1>1, IdleRequestType DEF Request, Steps
<1>3. req' = [req EXCEPT ![h] = r]
  BY DEF Reply
<1>4. QED
  BY <1>2, <1>3

\* What a step of a handler does to its slot.
LEMMA HandlerSlot ==
  ASSUME TypeOK, NEW h \in Handlers, HandlerStep(h)
  PROVE  \E r \in Request :
           /\ req' = [req EXCEPT ![h] = r]
           /\ r.ran = req[h].ran
           /\ r.blob # None => r.blob = req[h].blob
                               \/ (AnswerStep(h) /\ r.blob = PendingBlob(h))
           /\ r.pc \in PastAuth => file # None /\ r.active \in Keys
<1>1. req[h] \in Request
  BY DEF TypeOK
<1>2. req[h].pc \in PastAuth => file \in Record /\ req[h].active \in Keys
  BY DEF TypeOK, PastAuth
<1>3. CASE Authenticate(h)
  <2>1. CASE \E status \in Statuses : Reply(h, status, None)
    BY <2>1, ReplyFacts DEF PastAuth
  <2>2. CASE ~(\E status \in Statuses : Reply(h, status, None))
    <3> DEFINE r == [req[h] EXCEPT !.pc = "promote", !.active = file.active.psk,
                                   !.viaPending = req[h].ran.psk # file.active.psk]
    <3>1. file \in Record /\ file # None /\ req' = [req EXCEPT ![h] = r]
      BY <1>3, <2>2 DEF Authenticate, Verified, Rejected, TypeOK, Statuses
    <3>2. file.active.psk \in Keys
      BY <3>1 DEF Record, Payload
    <3>3. r \in Request /\ r.ran = req[h].ran /\ r.blob = req[h].blob /\ r.active \in Keys
      BY <1>1, <3>2 DEF Request, Steps
    <3> HIDE DEF r
    <3>4. QED
      BY <3>1, <3>3
  <2>3. QED
    BY <2>1, <2>2
<1>4. CASE PromoteStep(h)
  <2> DEFINE r == [req[h] EXCEPT !.pc = "touch", !.viaPending = FALSE]
  <2>1. req' = [req EXCEPT ![h] = r] /\ req[h].pc = "promote"
    BY <1>4 DEF PromoteStep, At
  <2>2. /\ r \in Request /\ r.ran = req[h].ran /\ r.blob = req[h].blob
        /\ r.active = req[h].active
    BY <1>1 DEF Request, Steps
  <2> HIDE DEF r
  <2>3. QED
    BY <1>2, <2>1, <2>2 DEF TypeOK, PastAuth
<1>5. ASSUME NEW step \in Steps, Goto(h, step), req[h].pc \in PastAuth
      PROVE  \E r \in Request :
               /\ req' = [req EXCEPT ![h] = r]
               /\ r.ran = req[h].ran /\ r.blob = req[h].blob
               /\ r.active = req[h].active
  BY <1>1, <1>5, GotoFacts DEF Goto
<1>6. CASE TouchStep(h)
  <2>1. /\ req[h].pc = "touch"
        /\ Goto(h, "serial") \/ \E status \in Statuses : Reply(h, status, None)
    BY <1>6 DEF TouchStep, At, Statuses
  <2>2. CASE Goto(h, "serial")
    BY <1>2, <1>5, <2>1, <2>2 DEF Steps, PastAuth, TypeOK
  <2>3. CASE \E status \in Statuses : Reply(h, status, None)
    BY <2>3, ReplyFacts DEF PastAuth
  <2>4. QED
    BY <2>1, <2>2, <2>3
<1>7. CASE SerialStep(h) \/ FloorStep(h)
  <2>1. req[h].pc \in PastAuth /\ (Goto(h, "floor") \/ Goto(h, "load"))
    BY <1>7 DEF SerialStep, FloorStep, At, PastAuth
  <2>2. QED
    BY <1>2, <1>5, <2>1 DEF Steps, PastAuth, TypeOK
<1>8. CASE AnswerStep(h)
  <2>1. file \in Record /\ req[h].active \in Keys
    BY <1>2, <1>8 DEF AnswerStep, At, PastAuth
  <2>2. PendingBlob(h) \in Blob \cup {None}
    BY <2>1 DEF PendingBlob, Blob, Record, Payload
  <2>3. Reply(h, "ok", PendingBlob(h)) \/ Reply(h, "error", None)
    BY <1>8 DEF AnswerStep
  <2>4. QED
    BY <1>8, <2>2, <2>3, ReplyFacts DEF Statuses, PastAuth
<1>9. QED
  BY <1>3, <1>4, <1>6, <1>7, <1>8 DEF HandlerStep

\* What a step of a handler does to the record: the one that changes version
\* numbers is a promotion.
LEMMA HandlerRecord ==
  ASSUME TypeOK, NEW h \in Handlers, HandlerStep(h)
  PROVE  \/ file' = file
         \/ file \in Record /\ file' \in Record /\ Upkept(file, file')
         \/ /\ PromoteStep(h)
            /\ file \in Record /\ file' = Promoted(file)
            /\ MayPromote(file, req[h].ran.version, req[h].viaPending)
<1>1. req[h].pc \in PastAuth => file \in Record
  BY DEF TypeOK, PastAuth
<1>2. req[h].floor \in Nat
  BY DEF TypeOK, Request
<1>3. CASE Authenticate(h) \/ AnswerStep(h)
  BY <1>3 DEF Authenticate, AnswerStep
<1>4. CASE PromoteStep(h)
  BY <1>1, <1>4 DEF PromoteStep, Write, At, PastAuth
<1>5. CASE TouchStep(h)
  BY <1>1, <1>2, <1>5, UpkeepWrite DEF TouchStep, At, PastAuth
<1>6. CASE SerialStep(h)
  BY <1>1, <1>2, <1>6, UpkeepWrite, DeviceSyncAssumption
     DEF SerialStep, At, PastAuth, DeviceSyncAssumption
<1>7. CASE FloorStep(h)
  BY <1>1, <1>2, <1>7, UpkeepWrite DEF FloorStep, At, PastAuth
<1>8. QED
  BY <1>3, <1>4, <1>5, <1>6, <1>7 DEF HandlerStep

LEMMA HandlerBrokerOnly ==
  ASSUME NEW h \in Handlers, HandlerStep(h)
  PROVE  BrokerOnly
BY DEF HandlerStep, Authenticate, PromoteStep, TouchStep, SerialStep, FloorStep, AnswerStep

\* The steps of a handler: the record and the handler's locals.
LEMMA HandlerType ==
  ASSUME TypeOK, NEW h \in Handlers, HandlerStep(h)
  PROVE  TypeOK'
<1>1. file' \in Record \cup {None} /\ (file # None => file' # None)
  <2>1. CASE file' = file
    BY <2>1 DEF TypeOK
  <2>2. CASE file \in Record /\ file' = Promoted(file) /\ file.pending # None
    BY <2>2, PromotedFacts, RecordNotNone
  <2>3. QED
    BY <2>1, <2>2, HandlerRecord, RecordNotNone DEF MayPromote
<1>2. PICK r \in Request :
           /\ req' = [req EXCEPT ![h] = r]
           /\ r.pc \in PastAuth => file # None /\ r.active \in Keys
  BY HandlerSlot
<1>3. QED
  BY <1>1, <1>2, HandlerBrokerOnly DEF TypeOK, BrokerOnly, PastAuth

LEMMA OperatorType ==
  ASSUME TypeOK, Operator
  PROVE  TypeOK'
<1> USE DeviceSyncAssumption
<1>1. ASSUME NEW u \in StageUpdates, Stage(u)
      PROVE  TypeOK'
  <2>1. file \in Record /\ u \in Update
    BY <1>1 DEF TypeOK, Stage
  <2>2. file' \in Record
    BY <1>1, <2>1, StagedFacts DEF Stage
  <2>3. QED
    BY <1>1, <2>2, MarksGrow, RecordNotNone DEF TypeOK, Stage
<1>2. ASSUME NEW u \in ProvisionUpdates, Provision(u)
      PROVE  TypeOK'
  <2>1. Overlay(good.set, u.set) \in Settings
    BY OverlayType DEF TypeOK, Config, Update
  <2>2. QED
    BY <1>2, <2>1 DEF TypeOK, Provision, Config, Update, Marks
<1>3. CASE RecordProvision
  <2>1. provisioning \in Update /\ provisioning.psk # None
    BY <1>3 DEF TypeOK, RecordProvision
  <2>2. file' \in Record
    BY <1>3, <2>1, StagedFacts, RegisteredFacts DEF TypeOK, RecordProvision
  <2>3. QED
    BY <1>3, <2>2, MarksGrow, RecordNotNone DEF TypeOK, RecordProvision
<1>4. CASE ProvisionUnrecorded
  BY <1>4 DEF TypeOK, ProvisionUnrecorded, Marks
<1>5. CASE RegisterDevice
  <2>1. [psk |-> good.psk, set |-> good.set, minSV |-> 0] \in Update
    BY DEF TypeOK, Config, Update
  <2>2. file' \in Record
    BY <1>5, <2>1, RegisteredFacts DEF RegisterDevice
  <2>3. QED
    BY <1>5, <2>2 DEF TypeOK, RegisterDevice
<1>6. QED
  BY <1>1, <1>2, <1>3, <1>4, <1>5 DEF Operator

LEMMA RunningType == TypeOK => Running \in Config
BY DEF TypeOK, Running

LEMMA DeviceType ==
  ASSUME TypeOK, Device
  PROVE  TypeOK'
<1> USE DeviceSyncAssumption DEF At
<1>1. ASSUME NEW h \in Handlers, Accept(h)
      PROVE  TypeOK'
  <2>1. Running \in Config
    BY RunningType
  <2>2. cand' \in Config \cup {None}
    <3>1. CASE ~Readable(h)
      BY <1>1, <3>1 DEF Accept
    <3>2. CASE Readable(h)
      <4>1. req[h].blob \in Blob
        BY <3>2 DEF TypeOK, Request, Readable
      <4>2. Overlay(Running.set, req[h].blob.set) \in Settings
        BY <2>1, <4>1, OverlayType DEF Config, Blob
      <4>3. QED
        BY <1>1, <3>2, <4>1, <4>2 DEF Accept, Config, Blob
    <3>3. QED
      BY <3>1, <3>2
  <2>3. QED
    BY <1>1, <2>1, <2>2, IdleRequestType DEF TypeOK, Accept, IdleRequest
<1>2. ASSUME NEW h \in Handlers, Refused(h)
      PROVE  TypeOK'
  <2>1. cand' \in Config \cup {None} /\ marks' \subseteq Marks
    BY <1>2, RefusedEither, RollbackFacts DEF TypeOK
  <2>2. QED
    BY <1>2, <2>1, IdleRequestType DEF TypeOK, Refused, IdleRequest
<1>3. ASSUME NEW h \in Handlers, NEW k \in Kinds, Poll(h, k)
      PROVE  TypeOK'
  <2> DEFINE new == [IdleRequest EXCEPT !.pc = "auth", !.kind = k,
                                        !.ran = Running, !.floor = floor]
  <2>1. new \in Request /\ new.pc = "auth"
    BY RunningType, IdleRequestType DEF TypeOK, Request, Steps
  <2>2. req' = [req EXCEPT ![h] = new]
    BY <1>3 DEF Poll
  <2> HIDE DEF new
  <2>3. QED
    BY <1>3, <2>1, <2>2 DEF TypeOK, Poll
<1>4. CASE InstallFirmware
  BY <1>4 DEF TypeOK, InstallFirmware
<1>5. QED
  BY <1>1, <1>2, <1>3, <1>4 DEF Device

LEMMA LoseType ==
  ASSUME TypeOK, NEW h \in Handlers, Lose(h)
  PROVE  TypeOK'
BY IdleRequestType DEF TypeOK, Lose, IdleRequest

\* Every reachable state is well typed, and a handler past authentication has a
\* record and the key to encrypt with.
THEOREM TypeCorrect == Spec => []TypeOK
<1>1. Init => TypeOK
  BY IdleRequestType DEF Init, TypeOK, IdleRequest
<1>2. TypeOK /\ [Next]_vars => TypeOK'
  <2> SUFFICES ASSUME TypeOK, [Next]_vars
               PROVE  TypeOK'
    OBVIOUS
  <2>1. CASE \E h \in Handlers : HandlerStep(h) \/ Lose(h)
    BY <2>1, HandlerType, LoseType
  <2>2. CASE Operator
    BY <2>2, OperatorType
  <2>3. CASE Device
    BY <2>3, DeviceType
  <2>4. CASE UNCHANGED vars
    BY <2>4 DEF vars, TypeOK
  <2>5. QED
    BY <2>1, <2>2, <2>3, <2>4 DEF Next
<1>3. QED
  BY <1>1, <1>2, PTL DEF Spec

-----------------------------------------------------------------------------
(* Version numbers.  The invariant is inductive relative to TypeOK: what is *)
(* held anywhere stays accounted for because the record only moves on to    *)
(* higher numbers, unless an outstanding edit is dropped.                   *)

\* From one record to the next, no number is reused for another payload.
Follows(rec, new) ==
  /\ Newest(rec) <= Newest(new)
  /\ new # None /\ new.pending # None
       => \/ rec # None /\ rec.pending = new.pending
          \/ new.pending.version > Newest(rec)

LEMMA NewestType == \A rec \in Record \cup {None} : Newest(rec) \in Nat
BY DEF Newest, Record, Payload

LEMMA AccountedKept ==
  ASSUME NEW rec \in Record \cup {None}, NEW new \in Record \cup {None}, NEW config,
         config.version \in Nat, Accounted(rec, config), Follows(rec, new)
  PROVE  Accounted(new, config)
<1>1. Newest(rec) \in Nat /\ Newest(new) \in Nat
  BY NewestType
<1>2. config.version <= Newest(new)
  BY <1>1 DEF Accounted, Follows
<1>3. ASSUME new # None, new.pending # None, config.version = new.pending.version
      PROVE  Runs(config, new.pending)
  <2>1. ~(new.pending.version > Newest(rec))
    BY <1>1, <1>3 DEF Accounted
  <2>2. QED
    BY <1>3, <2>1 DEF Accounted, Follows
<1>4. QED
  BY <1>2, <1>3 DEF Accounted

\* An edit gets a number no payload had, or it discards an outstanding one.
LEMMA StagedFollows ==
  ASSUME NEW rec \in Record, NEW upd \in Update
  PROVE  Follows(rec, Staged(rec, upd)) \/ "dropped" \in StageMarks(rec, Staged(rec, upd))
<1> DEFINE new == Staged(rec, upd)
<1>1. /\ new \in Record /\ new # None /\ rec # None
      /\ new.active = rec.active
      /\ new.pending # None => new.pending.version = NextVersion(rec)
      /\ NextVersion(rec) \in Nat
      /\ NextVersion(rec) > rec.active.version
      /\ rec.pending # None => NextVersion(rec) > rec.pending.version
  BY StagedFacts, RecordNotNone
<1> HIDE DEF new
<1>2. CASE new.pending # None
  <2>1. Newest(rec) \in Nat /\ Newest(new) = NextVersion(rec) /\ Newest(rec) < NextVersion(rec)
    BY <1>1, <1>2, NewestType DEF Newest
  <2>2. QED
    BY <1>1, <1>2, <2>1 DEF Follows, new
<1>3. CASE new.pending = None /\ rec.pending = None
  <2>1. Newest(rec) = Newest(new) /\ Newest(rec) \in Nat
    BY <1>1, <1>3, NewestType DEF Newest
  <2>2. QED
    BY <1>3, <2>1 DEF Follows, new
<1>4. CASE new.pending = None /\ rec.pending # None
  BY <1>4 DEF StageMarks, Marks, new
<1>5. QED
  BY <1>2, <1>3, <1>4

LEMMA StagedAhead ==
  ASSUME NEW rec \in Record, NEW upd \in Update, Staged(rec, upd).pending # None
  PROVE  Staged(rec, upd).pending.version > Staged(rec, upd).active.version
BY StagedFacts

\* The three ways a step of a handler leaves the record.
LEMMA HandlerFollows ==
  ASSUME TypeOK, PendingAhead, NEW h \in Handlers, HandlerStep(h)
  PROVE  Follows(file, file') /\ PendingAhead'
<1>1. file \in Record \cup {None} /\ Newest(file) \in Nat
  BY NewestType DEF TypeOK
<1>2. CASE file' = file
  BY <1>1, <1>2 DEF Follows, PendingAhead
<1>3. CASE file \in Record /\ file' \in Record /\ Upkept(file, file')
  <2>1. Newest(file') = Newest(file)
    BY <1>3, RecordNotNone DEF Newest, Upkept
  <2>2. QED
    BY <1>1, <1>3, <2>1, RecordNotNone DEF Follows, PendingAhead, Upkept
<1>4. CASE file \in Record /\ file' = Promoted(file) /\ file.pending # None
  <2>1. /\ file' # None /\ file # None
        /\ file'.pending = None /\ file'.active = file.pending
    BY <1>4, PromotedFacts, RecordNotNone
  <2>2. Newest(file') = Newest(file)
    BY <1>4, <2>1 DEF Newest
  <2>3. QED
    BY <1>1, <2>1, <2>2 DEF Follows, PendingAhead
<1>5. QED
  BY <1>2, <1>3, <1>4, HandlerRecord DEF MayPromote

LEMMA HeldTypes ==
  ASSUME TypeOK, NEW h \in Handlers
  PROVE  /\ good.version \in Nat
         /\ cand # None => cand.version \in Nat
         /\ req[h].ran.version \in Nat
         /\ req[h].blob # None => req[h].blob.version \in Nat
<1>1. req[h] \in Request
  BY DEF TypeOK
<1>2. QED
  BY <1>1 DEF TypeOK, Request, Config, Blob

\* A request slot whose configurations are accounted for.
SlotAccounted(rec, r) ==
  /\ Accounted(rec, r.ran)
  /\ r.blob # None => Accounted(rec, r.blob)

AllAccounted ==
  /\ Accounted(file, good)
  /\ cand # None => Accounted(file, cand)
  /\ \A h \in Handlers : SlotAccounted(file, req[h])

LEMMA VersionParts ==
  VersionIdentifiesPayload <=> PendingAhead /\ ("dropped" \notin marks => AllAccounted)
BY DEF VersionIdentifiesPayload, AllAccounted, SlotAccounted

\* While the record moves on, what is held and not touched stays accounted for.
LEMMA HeldKept ==
  ASSUME TypeOK, AllAccounted, NEW new \in Record \cup {None}, Follows(file, new)
  PROVE  /\ Accounted(new, good)
         /\ cand # None => Accounted(new, cand)
         /\ \A h \in Handlers : SlotAccounted(new, req[h])
<1>1. file \in Record \cup {None}
  BY DEF TypeOK
<1>2. Accounted(new, good)
  BY <1>1, AccountedKept DEF AllAccounted, TypeOK, Config
<1>3. ASSUME cand # None
      PROVE  Accounted(new, cand)
  BY <1>1, <1>3, AccountedKept DEF AllAccounted, TypeOK, Config
<1>4. ASSUME NEW h \in Handlers
      PROVE  SlotAccounted(new, req[h])
  BY <1>1, HeldTypes, AccountedKept DEF AllAccounted, SlotAccounted
<1>5. QED
  BY <1>2, <1>3, <1>4

\* Version 0 is below every pending number.
LEMMA ZeroAccounted ==
  ASSUME TypeOK, PendingAhead, NEW config, config.version = 0
  PROVE  Accounted(file, config)
<1>1. Newest(file) \in Nat
  BY NewestType DEF TypeOK
<1>2. file # None /\ file.pending # None => file.pending.version > 0
  BY DEF TypeOK, PendingAhead, Record, Payload
<1>3. QED
  BY <1>1, <1>2 DEF Accounted

LEMMA IdleAccounted ==
  ASSUME TypeOK, PendingAhead
  PROVE  SlotAccounted(file, IdleRequest)
BY ZeroAccounted DEF SlotAccounted, IdleRequest, Unprovisioned

\* The pending payload that goes on the wire is the one on record.
LEMMA PendingBlobAccounted ==
  ASSUME TypeOK, NEW h \in Handlers, PendingBlob(h) # None, file # None
  PROVE  Accounted(file, PendingBlob(h))
<1>1. /\ file.pending # None
      /\ PendingBlob(h).version = file.pending.version
      /\ PendingBlob(h).psk = file.pending.psk
      /\ PendingBlob(h).set = file.pending.set
  BY DEF PendingBlob
<1>2. Newest(file) = file.pending.version /\ file.pending.version \in Nat
  BY <1>1 DEF Newest, TypeOK, Record, Payload
<1>3. QED
  BY <1>1, <1>2 DEF Accounted, Runs

LEMMA HandlerVersions ==
  ASSUME TypeOK, TypeOK', VersionIdentifiesPayload, NEW h \in Handlers, HandlerStep(h)
  PROVE  VersionIdentifiesPayload'
<1>1. PendingAhead /\ PendingAhead' /\ Follows(file, file')
  BY HandlerFollows, VersionParts
<1>2. SUFFICES ASSUME "dropped" \notin marks
               PROVE  AllAccounted'
  BY <1>1, VersionParts, HandlerBrokerOnly DEF BrokerOnly, VersionIdentifiesPayload,
     AllAccounted, SlotAccounted
<1>3. AllAccounted
  BY <1>2, VersionParts
<1>4. /\ Accounted(file', good)
      /\ cand # None => Accounted(file', cand)
      /\ \A g \in Handlers : SlotAccounted(file', req[g])
  BY <1>1, <1>3, HeldKept DEF TypeOK
<1>5. PICK r \in Request :
        /\ req' = [req EXCEPT ![h] = r]
        /\ r.ran = req[h].ran
        /\ r.blob # None => r.blob = req[h].blob \/ (AnswerStep(h) /\ r.blob = PendingBlob(h))
  BY HandlerSlot
<1>6. ASSUME AnswerStep(h), PendingBlob(h) # None
      PROVE  Accounted(file', PendingBlob(h))
  <2>1. file' = file /\ file # None
    BY <1>6 DEF AnswerStep, At, TypeOK
  <2>2. QED
    BY <1>6, <2>1, PendingBlobAccounted
<1>7. SlotAccounted(file', r)
  BY <1>4, <1>5, <1>6 DEF SlotAccounted
<1>8. \A g \in Handlers : SlotAccounted(file', req'[g])
  BY <1>4, <1>5, <1>7 DEF TypeOK
<1>9. QED
  BY <1>4, <1>8, HandlerBrokerOnly DEF AllAccounted, BrokerOnly

\* An edit of a registered device: SetPending's numbering.
LEMMA EditVersions ==
  ASSUME TypeOK, TypeOK', VersionIdentifiesPayload, NEW upd \in Update,
         file # None, file' = Staged(file, upd),
         marks' = marks \cup StageMarks(file, Staged(file, upd)),
         UNCHANGED <<req, good, cand>>
  PROVE  VersionIdentifiesPayload'
<1>1. file \in Record
  BY DEF TypeOK
<1>2. PendingAhead'
  BY <1>1, StagedAhead DEF PendingAhead
<1>3. SUFFICES ASSUME "dropped" \notin marks'
               PROVE  AllAccounted'
  BY <1>2 DEF VersionIdentifiesPayload, AllAccounted, SlotAccounted
<1>4. AllAccounted /\ Follows(file, file')
  BY <1>1, <1>3, StagedFollows, VersionParts
<1>5. QED
  BY <1>4, HeldKept DEF AllAccounted, TypeOK

LEMMA FirstRecordVersions ==
  ASSUME TypeOK, TypeOK', VersionIdentifiesPayload, NEW upd \in Update, upd.psk # None,
         file = None, file' = Registered(upd), UNCHANGED <<req, good, cand, marks>>
  PROVE  VersionIdentifiesPayload'
<1>1. /\ file' # None /\ file' \in Record
      /\ file'.pending = None /\ file'.active.version = 1
  BY RegisteredFacts, RecordNotNone
<1>2. PendingAhead' /\ Follows(file, file')
  BY <1>1 DEF PendingAhead, Follows, Newest
<1>3. SUFFICES ASSUME "dropped" \notin marks
               PROVE  AllAccounted'
  BY <1>2 DEF VersionIdentifiesPayload, AllAccounted, SlotAccounted
<1>4. AllAccounted
  BY <1>3, VersionParts
<1>5. QED
  BY <1>2, <1>4, HeldKept DEF AllAccounted, TypeOK

LEMMA OperatorVersions ==
  ASSUME TypeOK, TypeOK', VersionIdentifiesPayload, Operator
  PROVE  VersionIdentifiesPayload'
<1> USE DeviceSyncAssumption
<1>1. ASSUME NEW u \in StageUpdates, Stage(u)
      PROVE  VersionIdentifiesPayload'
  BY <1>1, EditVersions DEF Stage
<1>2. ASSUME NEW u \in ProvisionUpdates, Provision(u)
      PROVE  VersionIdentifiesPayload'
  <2>1. PendingAhead /\ UNCHANGED <<file, req>>
    BY <1>2, VersionParts DEF Provision
  <2>2. PendingAhead'
    BY <2>1 DEF PendingAhead
  <2>3. Accounted(file, good') /\ cand' = None
    BY <1>2, <2>1, ZeroAccounted DEF Provision
  <2>4. "dropped" \notin marks' => AllAccounted
    BY <1>2, VersionParts DEF Provision
  <2>5. QED
    BY <2>1, <2>2, <2>3, <2>4 DEF VersionIdentifiesPayload, AllAccounted, SlotAccounted
<1>3. CASE RecordProvision
  <2>1. provisioning \in Update /\ provisioning.psk # None
    BY <1>3 DEF TypeOK, RecordProvision
  <2>2. QED
    BY <1>3, <2>1, EditVersions, FirstRecordVersions DEF RecordProvision
<1>4. CASE ProvisionUnrecorded
  BY <1>4 DEF ProvisionUnrecorded, VersionIdentifiesPayload, PendingAhead
<1>5. CASE RegisterDevice
  <2>1. [psk |-> good.psk, set |-> good.set, minSV |-> 0] \in Update
    BY DEF TypeOK, Config, Update
  <2>2. QED
    BY <1>5, <2>1, FirstRecordVersions DEF RegisterDevice
<1>6. QED
  BY <1>1, <1>2, <1>3, <1>4, <1>5 DEF Operator

\* What the device builds on its known-good configuration runs the payload it
\* was sent, if the answer is accounted for.
LEMMA AcceptAccounted ==
  ASSUME TypeOK, NEW h \in Handlers, req[h].blob # None, Accounted(file, req[h].blob)
  PROVE  Accounted(file, [version |-> req[h].blob.version, psk |-> req[h].blob.psk,
                          set |-> Overlay(Running.set, req[h].blob.set)])
<1> DEFINE new == [version |-> req[h].blob.version, psk |-> req[h].blob.psk,
                   set |-> Overlay(Running.set, req[h].blob.set)]
<1>1. ASSUME file # None, file.pending # None, new.version = file.pending.version
      PROVE  Runs(new, file.pending)
  <2>1. Runs(req[h].blob, file.pending)
    BY <1>1 DEF Accounted
  <2>2. \A f \in Fields : file.pending.set[f] # None => new.set[f] = file.pending.set[f]
    BY <2>1 DEF Runs, Overlay
  <2>3. QED
    BY <2>1, <2>2 DEF Runs
<1>2. new.version <= Newest(file)
  BY DEF Accounted
<1> HIDE DEF new
<1>3. QED
  BY <1>1, <1>2 DEF Accounted, new

\* A step of the device alone: the record stays, and so does the mark of a
\* discarded edit.
LEMMA DeviceVersions ==
  ASSUME TypeOK, VersionIdentifiesPayload, Device
  PROVE  VersionIdentifiesPayload'
<1>1. UNCHANGED file /\ marks \subseteq marks'
  <2>1. ASSUME NEW h \in Handlers, Refused(h)
        PROVE  UNCHANGED file /\ marks \subseteq marks'
    BY <2>1, RefusedEither DEF Refused
  <2>2. QED
    BY <2>1 DEF Device, Accept, Poll, InstallFirmware
<1>2. PendingAhead /\ PendingAhead'
  BY <1>1, VersionParts DEF PendingAhead
<1>3. SUFFICES ASSUME "dropped" \notin marks
               PROVE  AllAccounted'
  BY <1>1, <1>2 DEF VersionIdentifiesPayload, AllAccounted, SlotAccounted
<1>4. AllAccounted
  BY <1>3, VersionParts
<1>5. Accounted(file, Running) /\ SlotAccounted(file, IdleRequest)
  BY <1>2, <1>4, IdleAccounted DEF AllAccounted, Running
<1>6. ASSUME NEW h \in Handlers, Accept(h)
      PROVE  AllAccounted'
  <2>1. good' = Running /\ req' = [req EXCEPT ![h] = IdleRequest]
    BY <1>6 DEF Accept
  <2>2. cand' # None => Accounted(file, cand')
    <3>1. CASE Readable(h)
      <4>1. req[h].blob # None /\ Accounted(file, req[h].blob)
        BY <1>4, <3>1 DEF Readable, AllAccounted, SlotAccounted
      <4>2. QED
        BY <1>6, <3>1, <4>1, AcceptAccounted DEF Accept
    <3>2. CASE ~Readable(h)
      BY <1>6, <3>2 DEF Accept
    <3>3. QED
      BY <3>1, <3>2
  <2>3. \A g \in Handlers : SlotAccounted(file, req'[g])
    BY <1>4, <1>5, <2>1 DEF AllAccounted, TypeOK
  <2>4. QED
    BY <1>1, <1>5, <2>1, <2>2, <2>3 DEF AllAccounted
<1>7. ASSUME NEW h \in Handlers, Refused(h)
      PROVE  AllAccounted'
  <2>1. \A g \in Handlers : SlotAccounted(file, req'[g])
    BY <1>4, <1>5, <1>7 DEF Refused, AllAccounted, TypeOK
  <2>2. cand' = cand \/ cand' = None
    BY <1>7, RefusedEither
  <2>3. QED
    BY <1>1, <1>4, <1>7, <2>1, <2>2 DEF Refused, AllAccounted
<1>8. ASSUME NEW h \in Handlers, NEW k \in Kinds, Poll(h, k)
      PROVE  AllAccounted'
  <2> DEFINE r == [IdleRequest EXCEPT !.pc = "auth", !.kind = k,
                                      !.ran = Running, !.floor = floor]
  <2>1. r.ran = Running /\ r.blob = None
    BY DEF IdleRequest
  <2>2. req' = [req EXCEPT ![h] = r]
    BY <1>8 DEF Poll
  <2> HIDE DEF r
  <2>3. \A g \in Handlers : SlotAccounted(file, req'[g])
    BY <1>4, <1>5, <2>1, <2>2 DEF AllAccounted, SlotAccounted, TypeOK
  <2>4. QED
    BY <1>1, <1>4, <1>8, <2>3 DEF Poll, AllAccounted
<1>9. CASE InstallFirmware
  BY <1>4, <1>9 DEF InstallFirmware, AllAccounted, SlotAccounted
<1>10. QED
  BY <1>6, <1>7, <1>8, <1>9 DEF Device

LEMMA LoseVersions ==
  ASSUME TypeOK, VersionIdentifiesPayload, NEW h \in Handlers, Lose(h)
  PROVE  VersionIdentifiesPayload'
<1>1. PendingAhead /\ PendingAhead'
  BY VersionParts DEF Lose, PendingAhead
<1>2. "dropped" \notin marks
        => AllAccounted /\ \A g \in Handlers : SlotAccounted(file, req'[g])
  BY <1>1, IdleAccounted, VersionParts DEF Lose, AllAccounted, TypeOK
<1>3. QED
  BY <1>1, <1>2 DEF Lose, VersionIdentifiesPayload, AllAccounted, SlotAccounted

\* One version number, one payload, and a pending edit ahead of the active one.
THEOREM VersionsIdentify == Spec => []VersionIdentifiesPayload
<1>1. Init => VersionIdentifiesPayload
  BY DEF Init, VersionIdentifiesPayload, PendingAhead, Accounted, Newest,
         IdleRequest, Unprovisioned
<1>2. TypeOK /\ TypeOK' /\ VersionIdentifiesPayload /\ [Next]_vars
        => VersionIdentifiesPayload'
  <2> SUFFICES ASSUME TypeOK, TypeOK', VersionIdentifiesPayload, [Next]_vars
               PROVE  VersionIdentifiesPayload'
    OBVIOUS
  <2>1. CASE \E h \in Handlers : HandlerStep(h) \/ Lose(h)
    BY <2>1, HandlerVersions, LoseVersions
  <2>2. CASE Operator
    BY <2>2, OperatorVersions
  <2>3. CASE Device
    BY <2>3, DeviceVersions
  <2>4. CASE UNCHANGED vars
    BY <2>4 DEF vars, VersionIdentifiesPayload, PendingAhead
  <2>5. QED
    BY <2>1, <2>2, <2>3, <2>4 DEF Next
<1>3. QED
  BY <1>1, <1>2, TypeCorrect, PTL DEF Spec

-----------------------------------------------------------------------------
(* Promotion *)

\* The active version changes in PromoteStep only.
LEMMA OnlyPromotion ==
  ASSUME TypeOK, [Next]_vars, file # None,
         file'.active.version # file.active.version
  PROVE  \E h \in Handlers : /\ PromoteStep(h)
                             /\ file' = Promoted(file)
                             /\ MayPromote(file, req[h].ran.version, req[h].viaPending)
<1> USE DeviceSyncAssumption
<1>1. file \in Record
  BY DEF TypeOK
<1>2. CASE \E h \in Handlers : HandlerStep(h)
  BY <1>2, HandlerRecord DEF Upkept
<1>3. ~(\E h \in Handlers : Lose(h)) /\ ~Device /\ ~(UNCHANGED vars)
  BY DEF Lose, Device, Accept, Refused, Poll, InstallFirmware, vars
<1>4. ~Operator
  <2>1. \A u \in StageUpdates : ~Stage(u)
    BY <1>1, StagedFacts DEF Stage
  <2>2. \A u \in ProvisionUpdates : ~Provision(u)
    BY DEF Provision
  <2>3. ~RecordProvision
    BY <1>1, StagedFacts DEF RecordProvision, TypeOK
  <2>4. ~ProvisionUnrecorded /\ ~RegisterDevice
    BY DEF ProvisionUnrecorded, RegisterDevice
  <2>5. QED
    BY <2>1, <2>2, <2>3, <2>4 DEF Operator
<1>5. QED
  BY <1>2, <1>3, <1>4 DEF Next

\* The promotion rule of the registry's package comment, for any number of
\* overlapping requests, operators and faults: a pending payload becomes active
\* only on a request signed by a device that was running that very payload.
THEOREM PromotionProved == Spec => PromotionIsProved
<1>1. TypeOK /\ VersionIdentifiesPayload /\ [Next]_vars
        => (file # None /\ file'.active.version # file.active.version
              /\ "dropped" \notin marks
              => \E h \in Handlers : PromotionBy(h))
  <2> SUFFICES ASSUME TypeOK, VersionIdentifiesPayload, [Next]_vars, file # None,
                      file'.active.version # file.active.version, "dropped" \notin marks
               PROVE  \E h \in Handlers : PromotionBy(h)
    OBVIOUS
  <2>1. PICK h \in Handlers : /\ PromoteStep(h)
                              /\ file' = Promoted(file)
                              /\ MayPromote(file, req[h].ran.version, req[h].viaPending)
    BY OnlyPromotion
  <2>2. file.pending # None /\ file.pending.version = req[h].ran.version
    BY <2>1 DEF MayPromote
  <2>3. Runs(req[h].ran, file.pending)
    BY <2>2, VersionParts DEF AllAccounted, SlotAccounted, Accounted
  <2>4. file'.active = file.pending
    BY <2>1, <2>2, PromotedFacts DEF TypeOK
  <2>5. QED
    BY <2>1, <2>3, <2>4 DEF PromotionBy, PromoteStep
<1>2. QED
  BY <1>1, TypeCorrect, VersionsIdentify, PTL DEF Spec, PromotionIsProved

-----------------------------------------------------------------------------
(* Bad signatures, agreement and reachability.  One invariant relates the    *)
(* configurations that the device runs, may fall back to and may be about to *)
(* try with those on record.  SyncInv is inductive relative to TypeOK and    *)
(* VersionIdentifiesPayload.                                                 *)

\* The device waits for an answer to what it runs; it has a key before it has a
\* record, and an unrecorded provision is what it fell back to.
DeviceInv ==
  /\ waiting # None => req[waiting].ran = Running
  /\ cand # None => cand.version >= 2 /\ cand.psk \in Keys
  /\ \A h \in Handlers : req[h].blob # None => req[h].blob.version >= 2
  /\ file # None => file.active.version >= 1
  /\ file # None \/ provisioning # None => good.psk # None
  /\ provisioning # None /\ good.version = 0 => Runs(good, provisioning)
  /\ provisioning # None /\ "reprovisioned" \notin marks => file = None

\* What bears the number of the active payload is the active payload.
ActiveIs(rec, config) ==
  rec # None /\ config.version = rec.active.version => Runs(config, rec.active)

ActiveIdentified ==
  /\ ActiveIs(file, good)
  /\ cand # None => ActiveIs(file, cand)
  /\ \A h \in Handlers :
       /\ ActiveIs(file, req[h].ran)
       /\ req[h].blob # None => ActiveIs(file, req[h].blob)

Rejections ==
  \A h \in Handlers : req[h].status = "badSignature" => GivenUp(file, req[h].ran)

\* The payload the device is about to read is as new as any it ever signed with.
AnswerIsLatest ==
  waiting # None /\ req[waiting].blob # None
    => \A h \in Handlers : req[h].ran.version <= req[waiting].blob.version

\* The device fell back from a payload the record stood by.
SetBack(payload) ==
  /\ cand = None
  /\ "unrotated" \in marks \/ ("setback" \in marks /\ good.psk = payload.psk)

\* A device that has signed as the pending payload runs it until it is promoted
\* or replaced, unless it was provisioned anew and the registry has yet to know,
\* or a 401 set it back; a key it then gave up with the payload is marked.
RunsNewest ==
  (/\ file # None /\ file.pending # None
   /\ \E h \in Handlers : req[h].ran.version = file.pending.version)
    => \/ Running.version = file.pending.version
       \/ /\ Running.version = 0 /\ "reprovisioned" \in marks
          /\ provisioning # None \/ "unrecorded" \in marks
       \/ SetBack(file.pending)

\* Version 1 is what the device had as version 0 when it was registered.
Settled ==
  file # None /\ file.pending = None
    /\ marks \cap {"reprovisioned", "setback", "unrotated"} = {}
    => \/ Running.version = file.active.version
       \/ file.active.version = 1 /\ Running.version = 0 /\ Runs(Running, file.active)

\* On record, or in the hands of a session that is about to record it.
Known(key) == key \in KeysOnRecord(file) \/ (provisioning # None /\ key = provisioning.psk)

\* The keys of what the device runs, may fall back to and may try next.
KeysKnown ==
  file # None /\ marks \cap {"withdrawn", "unrecorded", "unrotated"} = {}
    => /\ Known(Running.psk)
       /\ Known(good.psk) \/ (cand # None /\ cand.version = file.active.version)
       /\ waiting # None /\ req[waiting].blob # None => Known(req[waiting].blob.psk)

InStep ==
  /\ ActiveIdentified
  /\ Rejections
  /\ AnswerIsLatest
  /\ RunsNewest
  /\ Settled
  /\ KeysKnown

SyncInv == DeviceInv /\ ("dropped" \notin marks => InStep)

\* The facts about versions that every step below uses.
LEMMA NumberFacts ==
  ASSUME TypeOK, VersionIdentifiesPayload
  PROVE  /\ file # None => /\ file \in Record
                           /\ file.active.version \in Nat /\ file.active.psk \in Keys
                           /\ file.pending # None =>
                                /\ file.pending.version \in Nat /\ file.pending.psk \in Keys
                                /\ file.pending.version > file.active.version
                                /\ Newest(file) = file.pending.version
                           /\ file.pending = None => Newest(file) = file.active.version
         /\ Newest(file) \in Nat
         /\ file = None => Newest(file) = 0
         /\ Running \in Config /\ Running.version \in Nat
         /\ good.version \in Nat
         /\ cand # None => cand.version \in Nat
         /\ \A h \in Handlers : /\ req[h].ran.version \in Nat
                                /\ req[h].blob # None => req[h].blob.version \in Nat
         /\ "dropped" \notin marks =>
              /\ AllAccounted
              /\ Accounted(file, Running)
              /\ \A h \in Handlers : req[h].ran.version <= Newest(file)
<1>1. PendingAhead /\ ("dropped" \notin marks => AllAccounted)
  BY VersionParts
<1>2. file # None => file \in Record
  BY DEF TypeOK
<1>3. Newest(file) \in Nat
  BY NewestType DEF TypeOK
<1>4. Running \in Config /\ Running.version \in Nat
  BY RunningType DEF Config
<1>5. "dropped" \notin marks =>
        /\ AllAccounted
        /\ Accounted(file, Running)
        /\ \A h \in Handlers : req[h].ran.version <= Newest(file)
  BY <1>1 DEF AllAccounted, SlotAccounted, Accounted, Running
<1>6. file # None => /\ file.active.version \in Nat /\ file.active.psk \in Keys
                     /\ file.pending # None =>
                          file.pending.version \in Nat /\ file.pending.psk \in Keys
  BY <1>2 DEF Record, Payload
<1>7. QED
  BY <1>1, <1>2, <1>3, <1>4, <1>5, <1>6, HeldTypes DEF Newest, PendingAhead, TypeOK, Config

\* How a handler's step changes its slot in the terms of SyncInv.
LEMMA HandlerAnswer ==
  ASSUME TypeOK, NEW h \in Handlers, HandlerStep(h)
  PROVE  /\ \A g \in Handlers : req'[g].ran = req[g].ran
         /\ \A g \in Handlers : req'[g].blob # None =>
              \/ req'[g].blob = req[g].blob
              \/ /\ g = h /\ file' = file /\ file # None /\ file.pending # None
                 /\ req'[g].blob.version = file.pending.version
                 /\ req'[g].blob.psk = file.pending.psk
         /\ \A g \in Handlers : req'[g].status = "badSignature" =>
              \/ req[g].status = "badSignature"
              \/ file' = file /\ file # None /\ req[g].ran.psk \notin KeysOnRecord(file)
<1>1. PICK r \in Request :
        /\ req' = [req EXCEPT ![h] = r]
        /\ r.ran = req[h].ran
        /\ r.blob # None => r.blob = req[h].blob \/ (AnswerStep(h) /\ r.blob = PendingBlob(h))
  BY HandlerSlot
<1>2. \A g \in Handlers : req'[g] = IF g = h THEN r ELSE req[g]
  BY <1>1 DEF TypeOK
<1>3. AnswerStep(h) => file' = file /\ file # None
  BY DEF AnswerStep, At, TypeOK
<1>4. PendingBlob(h) # None =>
        /\ file.pending # None
        /\ PendingBlob(h).version = file.pending.version
        /\ PendingBlob(h).psk = file.pending.psk
  BY DEF PendingBlob
<1>5. r.status = "badSignature" =>
        \/ req[h].status = "badSignature"
        \/ file' = file /\ file # None /\ req[h].ran.psk \notin KeysOnRecord(file)
  <2>1. req[h] \in Request /\ req'[h] = r
    BY <1>2 DEF TypeOK
  <2>2. ASSUME NEW status, NEW blob, Reply(h, status, blob)
        PROVE  req'[h].status = status
    BY <2>2 DEF Reply, TypeOK, IdleRequest
  <2>3. CASE Authenticate(h)
    <3>1. CASE \E status \in {"notFound", "error", "unauthorized"} : Reply(h, status, None)
      BY <2>1, <2>2, <3>1
    <3>2. CASE /\ file # None /\ req[h].ran.psk \notin KeysOnRecord(file)
      BY <2>3, <3>2 DEF Authenticate, Verified
    <3>3. CASE req' = [req EXCEPT ![h].pc = "promote",
                                  ![h].active = file.active.psk,
                                  ![h].viaPending = req[h].ran.psk # file.active.psk]
      BY <2>1, <3>3 DEF TypeOK, Request
    <3>4. QED
      BY <2>3, <3>1, <3>2, <3>3 DEF Authenticate, Verified, Rejected
  <2>4. CASE PromoteStep(h)
    BY <2>1, <2>4 DEF PromoteStep, TypeOK, Request
  <2>5. ASSUME NEW step, Goto(h, step)
        PROVE  req'[h].status = req[h].status
    BY <2>1, <2>5 DEF Goto, TypeOK, Request
  <2>6. CASE TouchStep(h) \/ SerialStep(h) \/ FloorStep(h) \/ AnswerStep(h)
    BY <2>1, <2>2, <2>5, <2>6 DEF TouchStep, SerialStep, FloorStep, AnswerStep
  <2>7. QED
    BY <2>3, <2>4, <2>6 DEF HandlerStep
<1>6. QED
  BY <1>1, <1>2, <1>3, <1>4, <1>5

LEMMA HandlerDevice ==
  ASSUME TypeOK, VersionIdentifiesPayload, DeviceInv, NEW h \in Handlers, HandlerStep(h)
  PROVE  DeviceInv'
<1>1. UNCHANGED <<good, cand, floor, waiting, provisioning, marks>> /\ Running' = Running
  BY HandlerBrokerOnly DEF BrokerOnly, Running
<1>2. waiting # None => waiting \in Handlers
  BY DEF TypeOK
<1>3. waiting' # None => req'[waiting'].ran = Running'
  BY <1>1, <1>2, HandlerAnswer DEF DeviceInv
<1>4. file = None => file' = None
  BY HandlerRecord, RecordNotNone
<1>5. file # None /\ file.pending # None => file.pending.version >= 2
  BY NumberFacts DEF DeviceInv
<1>6. \A g \in Handlers : req'[g].blob # None => req'[g].blob.version >= 2
  BY <1>5, HandlerAnswer DEF DeviceInv
<1>7. file' # None => file'.active.version >= 1
  <2>1. CASE file' = file
    BY <2>1 DEF DeviceInv
  <2>2. CASE file \in Record /\ Upkept(file, file')
    BY <2>2, RecordNotNone DEF Upkept, DeviceInv
  <2>3. CASE file \in Record /\ file' = Promoted(file) /\ file.pending # None
    <3>1. file # None /\ file'.active = file.pending
      BY <2>3, PromotedFacts, RecordNotNone
    <3>2. QED
      BY <1>5, <2>3, <3>1, NumberFacts
  <2>4. QED
    BY <2>1, <2>2, <2>3, HandlerRecord DEF MayPromote
<1>8. QED
  BY <1>1, <1>3, <1>4, <1>6, <1>7 DEF DeviceInv

\* A step that leaves number, key and settings of both payloads as they are.
LEMMA HandlerKeeps ==
  ASSUME TypeOK, VersionIdentifiesPayload, DeviceInv, "dropped" \notin marks, InStep,
         NEW h \in Handlers, HandlerStep(h),
         file' = file \/ (file \in Record /\ file' \in Record /\ Upkept(file, file'))
  PROVE  InStep'
<1>1. UNCHANGED <<good, cand, floor, waiting, provisioning, marks>> /\ Running' = Running
  BY HandlerBrokerOnly DEF BrokerOnly, Running
<1>2. /\ (file' = None <=> file = None)
      /\ file # None => Upkept(file, file') /\ KeysOnRecord(file') = KeysOnRecord(file)
  BY RecordNotNone, UpkeptKeys DEF Upkept
<1>3. \A g \in Handlers : req'[g].ran = req[g].ran
  BY HandlerAnswer
<1>4. ActiveIdentified'
  <2>1. \A config : ActiveIs(file, config) => ActiveIs(file', config)
    BY <1>2 DEF ActiveIs, Upkept, Runs
  <2>2. ASSUME NEW g \in Handlers, req'[g].blob # None
        PROVE  ActiveIs(file', req'[g].blob)
    <3>1. CASE req'[g].blob = req[g].blob
      BY <2>1, <2>2, <3>1 DEF InStep, ActiveIdentified
    <3>2. CASE file' = file /\ file # None /\ file.pending # None
               /\ req'[g].blob.version = file.pending.version
      BY <3>2, NumberFacts DEF ActiveIs
    <3>3. QED
      BY <2>2, <3>1, <3>2, HandlerAnswer
  <2>3. QED
    BY <1>1, <1>3, <2>1, <2>2 DEF InStep, ActiveIdentified
<1>5. Rejections'
  <2>1. \A config : GivenUp(file, config) => GivenUp(file', config)
    BY <1>2 DEF GivenUp, Upkept
  <2>2. ASSUME NEW g \in Handlers, file # None, req[g].ran.psk \notin KeysOnRecord(file)
        PROVE  GivenUp(file, req[g].ran)
    <3>1. ActiveIs(file, req[g].ran) /\ Accounted(file, req[g].ran)
      BY NumberFacts DEF InStep, ActiveIdentified, AllAccounted, SlotAccounted
    <3>2. QED
      BY <2>2, <3>1, KeysFacts, NumberFacts DEF GivenUp, ActiveIs, Accounted, Runs
  <2>3. QED
    BY <1>3, <2>1, <2>2, HandlerAnswer DEF InStep, Rejections
<1>6. AnswerIsLatest'
  <2>1. SUFFICES ASSUME waiting # None, req'[waiting].blob # None, NEW g \in Handlers
                 PROVE  req[g].ran.version <= req'[waiting].blob.version
    BY <1>1, <1>3 DEF AnswerIsLatest
  <2>2. waiting \in Handlers
    BY <2>1 DEF TypeOK
  <2>3. QED
    BY <2>1, <2>2, HandlerAnswer, NumberFacts DEF InStep, AnswerIsLatest
<1>7. RunsNewest'
  BY <1>1, <1>2, <1>3 DEF InStep, RunsNewest, SetBack, Upkept
<1>8. Settled'
  BY <1>1, <1>2 DEF InStep, Settled, Upkept, Runs
<1>9. KeysKnown'
  <2>1. SUFFICES ASSUME file # None, marks \cap {"withdrawn", "unrecorded", "unrotated"} = {}
                 PROVE  /\ Known(Running.psk)'
                        /\ Known(good.psk)' \/ (cand # None /\ cand.version = file'.active.version)
                        /\ waiting # None /\ req'[waiting].blob # None
                             => Known(req[waiting].blob.psk)'
    BY <1>1, <1>2 DEF KeysKnown
  <2>2. /\ KeysOnRecord(file') = KeysOnRecord(file) /\ provisioning' = provisioning
        /\ file'.active.version = file.active.version
    BY <1>1, <1>2, <2>1 DEF Upkept
  <2>3. ASSUME waiting # None, req'[waiting].blob # None
        PROVE  Known(req[waiting].blob.psk)'
    <3>1. waiting \in Handlers
      BY <2>3 DEF TypeOK
    <3>2. CASE req'[waiting].blob = req[waiting].blob
      BY <1>1, <2>1, <2>2, <2>3, <3>2 DEF InStep, KeysKnown, Known
    <3>3. CASE file.pending # None /\ req'[waiting].blob.psk = file.pending.psk
      BY <1>1, <2>1, <2>2, <3>3, KeysFacts, NumberFacts DEF Known
    <3>4. QED
      BY <2>3, <3>1, <3>2, <3>3, HandlerAnswer
  <2>4. QED
    BY <1>1, <2>1, <2>2, <2>3 DEF InStep, KeysKnown, Known
<1>10. QED
  BY <1>4, <1>5, <1>6, <1>7, <1>8, <1>9 DEF InStep

\* A promotion: whoever signed as the pending payload still runs it, or was
\* provisioned anew since.
LEMMA HandlerPromotes ==
  ASSUME TypeOK, VersionIdentifiesPayload, DeviceInv, "dropped" \notin marks, InStep,
         NEW h \in Handlers, PromoteStep(h), file \in Record, file' = Promoted(file),
         MayPromote(file, req[h].ran.version, req[h].viaPending)
  PROVE  InStep'
<1>1. UNCHANGED <<good, cand, floor, waiting, provisioning, marks>> /\ Running' = Running
  BY DEF PromoteStep, BrokerOnly, Running
<1>2. /\ file # None /\ file' # None /\ file.pending # None
      /\ file'.active = file.pending /\ file'.pending = None
      /\ KeysOnRecord(file') = {file.pending.psk}
      /\ req[h].ran.version = file.pending.version
  BY PromotedFacts, PromotedKeys, RecordNotNone DEF MayPromote
<1>3. \A g \in Handlers : /\ req'[g].ran = req[g].ran /\ req'[g].blob = req[g].blob
                          /\ req'[g].status = req[g].status
  BY DEF PromoteStep, TypeOK, Request
<1>4. /\ AllAccounted
      /\ \A config : Accounted(file, config) => ActiveIs(file', config)
  BY <1>2, NumberFacts DEF Accounted, ActiveIs
<1>5. \/ Running.version = file.pending.version
      \/ /\ Running.version = 0 /\ "reprovisioned" \in marks
         /\ provisioning # None \/ "unrecorded" \in marks
      \/ SetBack(file.pending)
  BY <1>2 DEF InStep, RunsNewest
<1>6. ActiveIdentified'
  BY <1>1, <1>3, <1>4 DEF ActiveIdentified, AllAccounted, SlotAccounted
<1>7. Rejections'
  BY <1>2, <1>3 DEF InStep, Rejections, GivenUp
<1>8. AnswerIsLatest'
  <2>1. waiting # None => waiting \in Handlers
    BY DEF TypeOK
  <2>2. QED
    BY <1>1, <1>3, <2>1 DEF InStep, AnswerIsLatest
<1>9. RunsNewest'
  BY <1>2 DEF RunsNewest
<1>10. Settled'
  BY <1>1, <1>2, <1>5 DEF Settled, SetBack
<1>11. KeysKnown'
  <2>1. SUFFICES ASSUME marks \cap {"withdrawn", "unrecorded", "unrotated"} = {}
                 PROVE  /\ Known(Running.psk)'
                        /\ Known(good.psk)' \/ (cand # None /\ cand.version = file.pending.version)
                        /\ waiting # None /\ req'[waiting].blob # None
                             => Known(req[waiting].blob.psk)'
    BY <1>1, <1>2 DEF KeysKnown
  <2>2. \A key : key = file.pending.psk \/ (provisioning # None /\ key = provisioning.psk)
                   => Known(key)'
    BY <1>1, <1>2 DEF Known
  <2>3. ASSUME waiting # None, req'[waiting].blob # None
        PROVE  Known(req[waiting].blob.psk)'
    <3>1. waiting \in Handlers /\ req[waiting].blob # None /\ req'[waiting].blob = req[waiting].blob
      BY <1>3, <2>3 DEF TypeOK
    <3>2. req[waiting].blob.version = file.pending.version
      BY <1>2, <1>4, <2>3, <3>1, NumberFacts
         DEF InStep, AnswerIsLatest, AllAccounted, SlotAccounted, Accounted
    <3>3. req[waiting].blob.psk = file.pending.psk
      BY <1>2, <1>4, <3>1, <3>2 DEF AllAccounted, SlotAccounted, Accounted, Runs
    <3>4. QED
      BY <1>1, <2>2, <3>1, <3>3
  <2>4. CASE Running.version = file.pending.version
    <3>1. Running.psk = file.pending.psk
      BY <1>2, <2>4, NumberFacts DEF Accounted, Runs
    <3>2. Known(Running.psk)' /\ (Known(good.psk)' \/ (cand # None /\ cand.version = file.pending.version))
      BY <1>1, <2>2, <2>4, <3>1 DEF Running
    <3>3. QED
      BY <2>3, <3>2
  <2>5. CASE Running.version = 0 /\ provisioning # None
    <3>1. cand = None /\ good.version = 0 /\ Running = good
      BY <2>5 DEF DeviceInv, Running
    <3>2. Known(good.psk)'
      BY <1>1, <2>2, <2>5, <3>1 DEF DeviceInv, Runs
    <3>3. QED
      BY <1>1, <2>3, <3>1, <3>2
  <2>6. CASE SetBack(file.pending)
    <3>1. cand = None /\ good.psk = file.pending.psk /\ Running = good
      BY <2>1, <2>6 DEF SetBack, Running
    <3>2. Known(good.psk)'
      BY <1>1, <2>2, <3>1
    <3>3. QED
      BY <1>1, <2>3, <3>1, <3>2
  <2>7. QED
    BY <1>5, <2>1, <2>4, <2>5, <2>6
<1>12. QED
  BY <1>6, <1>7, <1>8, <1>9, <1>10, <1>11 DEF InStep

\* An edit: nothing held bears its number, and unless it withdraws a key the
\* keys on record only get more.
LEMMA EditInStep ==
  ASSUME TypeOK, VersionIdentifiesPayload, DeviceInv, NEW upd \in Update,
         file # None, file' = Staged(file, upd),
         marks' = marks \cup StageMarks(file, Staged(file, upd)),
         UNCHANGED <<req, good, cand, waiting>>,
         \/ UNCHANGED provisioning
         \/ provisioning # None /\ upd = provisioning /\ upd.psk # None /\ provisioning' = None,
         "dropped" \notin marks', InStep
  PROVE  InStep'
<1>1. file \in Record /\ "dropped" \notin marks /\ Running' = Running
  BY NumberFacts DEF Running
<1>2. /\ file' \in Record /\ file' # None
      /\ file'.active = file.active
      /\ file'.pending # None => file'.pending.version > Newest(file)
      /\ file'.pending = None => file.pending = None
  <2>1. file.pending # None /\ file'.pending = None => "dropped" \in StageMarks(file, file')
    BY DEF StageMarks, Marks
  <2>2. QED
    BY <1>1, <2>1, StagedFacts, RecordNotNone, NumberFacts
<1>3. "withdrawn" \notin marks' => KeysOnRecord(file) \subseteq KeysOnRecord(file')
  <2>1. "withdrawn" \notin marks' => PendingKey(file) \in KeysOnRecord(file') \cup {None}
    BY DEF StageMarks, Marks
  <2>2. file'.active.psk \in KeysOnRecord(file')
    BY <1>2, KeysFacts
  <2>3. QED
    BY <1>2, <2>1, <2>2 DEF KeysOnRecord
<1>4. ActiveIdentified'
  BY <1>2 DEF InStep, ActiveIdentified, ActiveIs
<1>5. Rejections'
  BY <1>1, <1>2, NumberFacts DEF InStep, Rejections, GivenUp
<1>6. AnswerIsLatest'
  BY DEF InStep, AnswerIsLatest
<1>7. RunsNewest'
  <2>1. ASSUME NEW h \in Handlers, file'.pending # None
        PROVE  req[h].ran.version # file'.pending.version
    BY <1>1, <1>2, <2>1, NumberFacts
  <2>2. QED
    BY <2>1 DEF RunsNewest
<1>8. Settled'
  BY <1>1, <1>2 DEF InStep, Settled
<1>9. KeysKnown'
  <2>1. SUFFICES ASSUME marks' \cap {"withdrawn", "unrecorded", "unrotated"} = {}
                 PROVE  KeysKnown'
    BY DEF KeysKnown
  <2>2. marks \cap {"withdrawn", "unrecorded", "unrotated"} = {}
    BY <2>1
  <2>3. \A key : Known(key) => Known(key)'
    BY <1>1, <1>3, <2>1, StagedKey DEF Known
  <2>4. QED
    BY <1>1, <1>2, <2>2, <2>3 DEF InStep, KeysKnown
<1>10. QED
  BY <1>4, <1>5, <1>6, <1>7, <1>8, <1>9 DEF InStep

\* Before registration nothing is held but version 0.
LEMMA Unregistered ==
  ASSUME TypeOK, VersionIdentifiesPayload, DeviceInv, "dropped" \notin marks, file = None
  PROVE  /\ cand = None /\ Running = good /\ good.version = 0
         /\ \A h \in Handlers : req[h].ran.version = 0 /\ req[h].blob = None
<1>1. AllAccounted /\ Newest(file) = 0
  BY NumberFacts
<1>2. cand = None /\ \A h \in Handlers : req[h].blob = None
  BY <1>1, NumberFacts DEF AllAccounted, SlotAccounted, Accounted, DeviceInv
<1>3. QED
  BY <1>1, <1>2, NumberFacts DEF AllAccounted, SlotAccounted, Accounted, Running

LEMMA FirstInStep ==
  ASSUME TypeOK, VersionIdentifiesPayload, DeviceInv, NEW upd \in Update, upd.psk # None,
         Runs(good, upd),
         file = None, file' = Registered(upd),
         UNCHANGED <<req, good, cand, waiting, marks>>,
         "dropped" \notin marks, InStep
  PROVE  InStep'
<1>1. /\ file' \in Record /\ file' # None
      /\ file'.pending = None /\ file'.active.version = 1
      /\ Runs(good, file'.active)
      /\ KeysOnRecord(file') = {good.psk}
  BY RegisteredFacts, RegisteredKeys, RecordNotNone DEF Runs
<1>2. /\ cand = None /\ Running = good /\ Running' = good /\ good.version = 0
      /\ \A h \in Handlers : req[h].ran.version = 0 /\ req[h].blob = None
  BY Unregistered DEF Running
<1>3. waiting # None => waiting \in Handlers
  BY DEF TypeOK
<1>4. ActiveIdentified' /\ Rejections' /\ AnswerIsLatest' /\ RunsNewest'
  BY <1>1, <1>2, <1>3 DEF ActiveIdentified, ActiveIs, Rejections, GivenUp,
                          AnswerIsLatest, RunsNewest
<1>5. Settled'
  BY <1>1, <1>2 DEF Settled
<1>6. KeysKnown'
  BY <1>1, <1>2, <1>3 DEF KeysKnown, Known
<1>7. QED
  BY <1>4, <1>5, <1>6 DEF InStep

LEMMA OperatorInStep ==
  ASSUME TypeOK, VersionIdentifiesPayload, SyncInv, Operator
  PROVE  SyncInv'
<1> USE DeviceSyncAssumption
<1>1. DeviceInv /\ ("dropped" \notin marks' => "dropped" \notin marks /\ InStep)
  BY DEF SyncInv, Operator, Stage, Provision, RecordProvision, ProvisionUnrecorded, RegisterDevice
<1>2. ASSUME NEW upd \in Update, file # None, file' = Staged(file, upd),
             UNCHANGED <<req, good, cand, waiting>>,
             UNCHANGED provisioning \/ provisioning' = None, marks \subseteq marks'
      PROVE  DeviceInv'
  <2>1. file' # None /\ file'.active = file.active
    BY <1>2, NumberFacts, StagedFacts, RecordNotNone
  <2>2. QED
    BY <1>1, <1>2, <2>1 DEF DeviceInv, Running
<1>3. ASSUME NEW upd \in Update, upd.psk # None, file = None, file' = Registered(upd),
             UNCHANGED <<req, good, cand, waiting, marks>>, provisioning' = None, good.psk # None
      PROVE  DeviceInv'
  <2>1. file' # None /\ file'.active.version = 1
    BY <1>3, RegisteredFacts, RecordNotNone
  <2>2. QED
    BY <1>1, <1>3, <2>1 DEF DeviceInv, Running
<1>4. ASSUME NEW u \in StageUpdates, Stage(u)
      PROVE  SyncInv'
  BY <1>1, <1>2, <1>4, EditInStep DEF Stage, SyncInv
<1>5. ASSUME NEW u \in ProvisionUpdates, Provision(u)
      PROVE  SyncInv'
  <2>1. u \in Update /\ u.psk # None
    OBVIOUS
  <2>2. /\ good' = [version |-> 0, psk |-> u.psk, set |-> Overlay(good.set, u.set)]
        /\ cand' = None /\ waiting' = None /\ provisioning' = u /\ u # None
        /\ UNCHANGED <<file, req>> /\ Running' = good'
        /\ marks' = marks \cup (IF good.psk = None THEN {} ELSE {"reprovisioned"})
    BY <1>5, <2>1, NoneAssumption DEF Provision, Running
  <2>3. file # None => "reprovisioned" \in marks'
    BY <1>1, <2>2 DEF DeviceInv
  <2>4. DeviceInv'
    <3>1. Runs(good', u)
      BY <2>2 DEF Runs, Overlay
    <3>2. QED
      BY <1>1, <2>1, <2>2, <2>3, <3>1 DEF DeviceInv
  <2>5. ASSUME "dropped" \notin marks'
        PROVE  InStep'
    <3>1. InStep
      BY <1>1, <2>5
    <3>2. ActiveIdentified' /\ Rejections' /\ AnswerIsLatest'
      BY <1>1, <2>2, <3>1 DEF InStep, ActiveIdentified, ActiveIs, Rejections,
                              AnswerIsLatest, DeviceInv
    <3>3. RunsNewest' /\ Settled' /\ KeysKnown'
      BY <2>2, <2>3 DEF RunsNewest, Settled, KeysKnown, Known
    <3>4. QED
      BY <3>2, <3>3 DEF InStep
  <2>6. QED
    BY <2>4, <2>5 DEF SyncInv
<1>6. CASE RecordProvision
  <2>1. provisioning \in Update /\ provisioning.psk # None /\ provisioning # None
    BY <1>6 DEF TypeOK, RecordProvision
  <2>2. CASE file # None
    <3>1. /\ file' = Staged(file, provisioning) /\ provisioning' = None
          /\ marks' = marks \cup StageMarks(file, Staged(file, provisioning))
          /\ UNCHANGED <<req, good, cand, waiting>>
      BY <1>6, <2>2 DEF RecordProvision
    <3>2. DeviceInv'
      BY <1>2, <2>1, <2>2, <3>1
    <3>3. "dropped" \notin marks' => InStep'
      BY <1>1, <2>1, <2>2, <3>1, EditInStep
    <3>4. QED
      BY <3>2, <3>3 DEF SyncInv
  <2>3. CASE file = None
    <3>1. /\ file' = Registered(provisioning) /\ provisioning' = None
          /\ UNCHANGED <<req, good, cand, waiting, marks>>
      BY <1>6, <2>3 DEF RecordProvision
    <3>2. DeviceInv'
      BY <1>1, <1>3, <2>1, <2>3, <3>1 DEF DeviceInv
    <3>3. ASSUME "dropped" \notin marks
          PROVE  Runs(good, provisioning)
      BY <1>1, <2>1, <2>3, <3>3, Unregistered DEF DeviceInv
    <3>4. "dropped" \notin marks' => InStep'
      BY <1>1, <2>1, <2>3, <3>1, <3>3, FirstInStep
    <3>5. QED
      BY <3>2, <3>4 DEF SyncInv
  <2>4. QED
    BY <2>2, <2>3
<1>7. CASE ProvisionUnrecorded
  <2>1. /\ provisioning' = None /\ "unrecorded" \in marks' /\ marks' = marks \cup {"unrecorded"}
        /\ UNCHANGED <<file, req, good, cand, waiting>> /\ Running' = Running
    BY <1>7 DEF ProvisionUnrecorded, Running
  <2>2. DeviceInv'
    BY <1>1, <2>1 DEF DeviceInv
  <2>3. ASSUME "dropped" \notin marks'
        PROVE  InStep'
    BY <1>1, <2>1, <2>3 DEF InStep, ActiveIdentified, ActiveIs, Rejections, AnswerIsLatest,
                            RunsNewest, SetBack, Settled, KeysKnown
  <2>4. QED
    BY <2>2, <2>3 DEF SyncInv
<1>8. CASE RegisterDevice
  <2>1. [psk |-> good.psk, set |-> good.set, minSV |-> 0] \in Update /\ good.psk # None
    BY <1>8 DEF TypeOK, Config, Update, RegisterDevice
  <2>2. /\ file' = Registered([psk |-> good.psk, set |-> good.set, minSV |-> 0])
        /\ file = None /\ provisioning' = None
        /\ UNCHANGED <<req, good, cand, waiting, marks>>
    BY <1>8 DEF RegisterDevice
  <2>3. DeviceInv'
    BY <1>3, <2>1, <2>2
  <2>4. Runs(good, [psk |-> good.psk, set |-> good.set, minSV |-> 0])
    BY DEF Runs
  <2>5. "dropped" \notin marks' => InStep'
    BY <1>1, <2>1, <2>2, <2>4, FirstInStep
  <2>6. QED
    BY <2>3, <2>5 DEF SyncInv
<1>9. QED
  BY <1>4, <1>5, <1>6, <1>7, <1>8 DEF Operator

\* A slot that is emptied holds version 0 and no answer.
LEMMA IdleFacts ==
  /\ IdleRequest.ran.version = 0 /\ IdleRequest.blob = None
  /\ IdleRequest.status = "none"
BY DEF IdleRequest, Unprovisioned

\* A slot that is emptied or takes up a request of what the device runs.
LEMMA SlotInStep ==
  ASSUME TypeOK, VersionIdentifiesPayload, DeviceInv, NEW h \in Handlers, NEW r,
         req' = [req EXCEPT ![h] = r], r.blob = None, r.status = "none",
         r.ran.version = 0 \/ r.ran = Running,
         UNCHANGED <<file, good, cand, provisioning, marks>>,
         waiting' = None \/ waiting' = h \/ (waiting' = waiting /\ waiting # h /\ r.ran.version = 0),
         "dropped" \notin marks, InStep
  PROVE  InStep'
<1>1. Running' = Running /\ \A g \in Handlers : req'[g] = IF g = h THEN r ELSE req[g]
  BY DEF Running, TypeOK
<1>2. waiting # None => waiting \in Handlers
  BY DEF TypeOK
<1>3. ActiveIdentified'
  <2>1. ActiveIs(file, r.ran)
    BY DEF ActiveIs, DeviceInv, InStep, ActiveIdentified, Running
  <2>2. QED
    BY <1>1, <2>1 DEF InStep, ActiveIdentified
<1>4. Rejections'
  BY <1>1 DEF InStep, Rejections
<1>5. AnswerIsLatest'
  BY <1>1, <1>2, NumberFacts, DeviceSyncAssumption
     DEF InStep, AnswerIsLatest, DeviceSyncAssumption
<1>6. RunsNewest'
  <2>1. file # None /\ file.pending # None => file.pending.version # 0
    BY NumberFacts
  <2>2. QED
    BY <1>1, <2>1 DEF InStep, RunsNewest, SetBack
<1>7. Settled'
  BY <1>1 DEF InStep, Settled
<1>8. KeysKnown'
  BY <1>1, <1>2, DeviceSyncAssumption DEF InStep, KeysKnown, Known, DeviceSyncAssumption
<1>9. QED
  BY <1>3, <1>4, <1>5, <1>6, <1>7, <1>8 DEF InStep

LEMMA LoseInStep ==
  ASSUME TypeOK, VersionIdentifiesPayload, SyncInv, NEW h \in Handlers, Lose(h)
  PROVE  SyncInv'
<1>1. /\ req' = [req EXCEPT ![h] = IdleRequest]
      /\ UNCHANGED <<file, good, cand, provisioning, marks>>
      /\ waiting' = None \/ (waiting' = waiting /\ waiting # h)
      /\ Running' = Running
  BY DEF Lose, Running
<1>2. DeviceInv'
  BY <1>1, IdleFacts DEF SyncInv, DeviceInv, TypeOK
<1>3. "dropped" \notin marks' => InStep'
  BY <1>1, IdleFacts, SlotInStep DEF SyncInv
<1>4. QED
  BY <1>2, <1>3 DEF SyncInv

LEMMA PollInStep ==
  ASSUME TypeOK, VersionIdentifiesPayload, SyncInv, NEW h \in Handlers, NEW k \in Kinds, Poll(h, k)
  PROVE  SyncInv'
<1> DEFINE r == [IdleRequest EXCEPT !.pc = "auth", !.kind = k,
                                    !.ran = Running, !.floor = floor]
<1>1. r.ran = Running /\ r.blob = None /\ r.status = "none"
  BY DEF IdleRequest
<1>2. req' = [req EXCEPT ![h] = r] /\ waiting' = h
      /\ UNCHANGED <<file, good, cand, provisioning, marks>> /\ Running' = Running
  BY DEF Poll, Running
<1> HIDE DEF r
<1>3. DeviceInv'
  BY <1>1, <1>2 DEF SyncInv, DeviceInv, TypeOK
<1>4. "dropped" \notin marks' => InStep'
  BY <1>1, <1>2, SlotInStep DEF SyncInv
<1>5. QED
  BY <1>3, <1>4 DEF SyncInv

\* Committing what the device runs and trying what it was sent, if anything.
LEMMA AcceptInStep ==
  ASSUME TypeOK, VersionIdentifiesPayload, SyncInv, NEW h \in Handlers, Accept(h)
  PROVE  SyncInv'
<1> DEFINE blob == req[h].blob
<1>1. /\ waiting = h /\ waiting # None /\ waiting' = None /\ good' = Running
      /\ UNCHANGED <<file, provisioning, marks>>
      /\ \A g \in Handlers : req'[g] = IF g = h THEN IdleRequest ELSE req[g]
      /\ req[h].ran = Running
  BY DeviceSyncAssumption DEF Accept, TypeOK, SyncInv, DeviceInv, DeviceSyncAssumption
<1>2. cand' # None => /\ blob # None
                      /\ cand'.version = blob.version /\ cand'.psk = blob.psk
                      /\ cand'.set = Overlay(Running.set, blob.set)
  BY DEF Accept, Readable
<1>3. /\ blob # None => blob.version >= 2 /\ blob.psk \in Keys
      /\ Running.version = 0 => cand = None /\ Running = good
      /\ file # None \/ provisioning # None => Running.psk # None
  BY NoneAssumption, NumberFacts DEF SyncInv, DeviceInv, TypeOK, Request, Blob, Running
<1>4. Running' = IF cand' # None THEN cand' ELSE Running
  BY <1>1 DEF Running
<1> HIDE DEF blob
<1>5. DeviceInv'
  BY <1>1, <1>2, <1>3, IdleFacts DEF SyncInv, DeviceInv, blob
<1>6. SUFFICES ASSUME "dropped" \notin marks
               PROVE  InStep'
  BY <1>1, <1>5 DEF SyncInv
<1>7. InStep /\ DeviceInv
  BY <1>6 DEF SyncInv
<1>8. blob # None => /\ blob.version \in Nat /\ blob.version <= Newest(file)
                     /\ \A g \in Handlers : req[g].ran.version <= blob.version
  BY <1>1, <1>6, <1>7, NumberFacts
     DEF InStep, AnswerIsLatest, AllAccounted, SlotAccounted, Accounted, blob
<1>9. ActiveIdentified'
  <2>1. ActiveIs(file, Running) /\ ActiveIs(file, IdleRequest.ran)
    BY <1>7, IdleFacts DEF InStep, ActiveIdentified, Running, ActiveIs, DeviceInv
  <2>2. ASSUME cand' # None
        PROVE  ActiveIs(file, cand')
    <3>1. ActiveIs(file, blob)
      BY <1>2, <1>7, <2>2 DEF InStep, ActiveIdentified, blob
    <3>2. QED
      BY <1>2, <2>2, <3>1 DEF ActiveIs, Runs, Overlay
  <2>3. QED
    BY <1>1, <1>7, <2>1, <2>2, IdleFacts DEF InStep, ActiveIdentified
<1>10. Rejections' /\ AnswerIsLatest'
  BY <1>1, <1>7, IdleFacts DEF InStep, Rejections, AnswerIsLatest
<1>11. RunsNewest'
  <2>1. SUFFICES ASSUME file # None, file.pending # None,
                        NEW g \in Handlers, req'[g].ran.version = file.pending.version
                 PROVE  \/ Running'.version = file.pending.version
                        \/ /\ Running'.version = 0 /\ "reprovisioned" \in marks
                           /\ provisioning # None \/ "unrecorded" \in marks
                        \/ SetBack(file.pending)'
    BY <1>1 DEF RunsNewest
  <2>2. req[g].ran.version = file.pending.version
    BY <1>1, <2>1, NumberFacts, IdleFacts
  <2>3. CASE cand' # None
    BY <1>2, <1>4, <1>8, <2>1, <2>2, <2>3, NumberFacts
  <2>4. CASE cand' = None
    BY <1>1, <1>4, <1>7, <2>1, <2>2, <2>4 DEF InStep, RunsNewest, SetBack, Running
  <2>5. QED
    BY <2>3, <2>4
<1>12. Settled'
  <2>1. SUFFICES ASSUME file # None, file.pending = None, cand' # None,
                        marks \cap {"reprovisioned", "setback", "unrotated"} = {}
                 PROVE  cand'.version = file.active.version
    BY <1>1, <1>4, <1>7 DEF InStep, Settled
  <2>2. blob.version <= file.active.version /\ Running.version <= blob.version
    BY <1>1, <1>2, <1>8, <2>1, NumberFacts
  <2>3. Running.version = file.active.version
    BY <1>2, <1>3, <1>7, <1>8, <2>1, <2>2 DEF InStep, Settled
  <2>4. QED
    BY <1>2, <1>8, <2>1, <2>2, <2>3, NumberFacts
<1>13. KeysKnown'
  <2>1. \A key : Known(key) => Known(key)'
    BY <1>1 DEF Known
  <2>2. QED
    BY <1>1, <1>2, <1>4, <1>7, <2>1 DEF InStep, KeysKnown, blob
<1>14. QED
  BY <1>9, <1>10, <1>11, <1>12, <1>13 DEF InStep

\* A rollback: what the device falls back from is given up, so neither payload on
\* record is waiting for it, or the rollback is marked.
LEMMA RefusedInStep ==
  ASSUME TypeOK, VersionIdentifiesPayload, SyncInv, NEW h \in Handlers, Refused(h)
  PROVE  SyncInv'
<1>1. /\ waiting = h /\ waiting # None /\ waiting' = None
      /\ UNCHANGED <<file, good, provisioning>>
      /\ \A g \in Handlers : req'[g] = IF g = h THEN IdleRequest ELSE req[g]
  BY DeviceSyncAssumption DEF Refused, TypeOK, DeviceSyncAssumption
<1>2. /\ marks \subseteq marks'
      /\ cand' = cand \/ cand' = None
      /\ marks' \subseteq marks \cup {"setback", "unrotated"}
  BY RefusedEither, RollbackFacts DEF TypeOK
<1>3. DeviceInv'
  BY <1>1, <1>2, IdleFacts DEF SyncInv, DeviceInv
<1>4. SUFFICES ASSUME "dropped" \notin marks
               PROVE  InStep'
  BY <1>1, <1>2, <1>3 DEF SyncInv
<1>5. InStep /\ DeviceInv
  BY <1>4 DEF SyncInv
<1>6. \/ cand' = cand /\ Running' = Running
      \/ /\ cand # None /\ cand' = None /\ Running = cand /\ Running' = good
         /\ \/ GivenUp(file, cand)
            \/ cand.psk = good.psk /\ "setback" \in marks'
            \/ "unrotated" \in marks'
  BY <1>1, RefusedEither, RollbackFacts DEF Running, TypeOK
<1>7. ActiveIdentified'
  BY <1>1, <1>2, <1>5, IdleFacts DEF InStep, ActiveIdentified, ActiveIs, DeviceInv
<1>8. Rejections' /\ AnswerIsLatest'
  BY <1>1, <1>5, IdleFacts DEF InStep, Rejections, AnswerIsLatest
<1>9. RunsNewest'
  <2>1. SUFFICES ASSUME file # None, file.pending # None,
                        NEW g \in Handlers, req'[g].ran.version = file.pending.version
                 PROVE  \/ Running'.version = file.pending.version
                        \/ /\ Running'.version = 0 /\ "reprovisioned" \in marks'
                           /\ provisioning # None \/ "unrecorded" \in marks'
                        \/ SetBack(file.pending)'
    BY <1>1 DEF RunsNewest
  <2>2. req[g].ran.version = file.pending.version
    BY <1>1, <2>1, NumberFacts, IdleFacts
  <2>3. \/ Running.version = file.pending.version
        \/ /\ Running.version = 0 /\ "reprovisioned" \in marks
           /\ provisioning # None \/ "unrecorded" \in marks
        \/ SetBack(file.pending)
    BY <1>5, <2>1, <2>2 DEF InStep, RunsNewest
  <2>4. CASE cand' = cand /\ Running' = Running
    BY <1>1, <1>2, <2>3, <2>4 DEF SetBack
  <2>5. CASE cand # None /\ cand' = None /\ Running = cand
    <3>1. cand.version = file.pending.version
      BY <1>5, <2>3, <2>5, NumberFacts DEF SetBack, DeviceInv
    <3>2. ~GivenUp(file, cand) /\ cand.psk = file.pending.psk
      BY <2>1, <2>5, <3>1, <1>4, NumberFacts DEF GivenUp, Accounted, Runs
    <3>3. QED
      BY <1>1, <1>6, <2>1, <2>5, <3>2 DEF SetBack
  <2>6. QED
    BY <1>6, <2>4, <2>5
<1>10. Settled'
  BY <1>1, <1>2, <1>5, <1>6 DEF InStep, Settled, GivenUp, DeviceInv
<1>11. KeysKnown'
  <2>1. SUFFICES ASSUME file # None, marks' \cap {"withdrawn", "unrecorded", "unrotated"} = {}
                 PROVE  KeysKnown'
    BY <1>1 DEF KeysKnown
  <2>2. /\ Known(Running.psk)
        /\ Known(good.psk) \/ (cand # None /\ cand.version = file.active.version)
    BY <1>2, <1>5, <2>1 DEF InStep, KeysKnown
  <2>3. \A key : Known(key) => Known(key)'
    BY <1>1 DEF Known
  <2>4. CASE cand' = cand /\ Running' = Running
    BY <1>1, <2>2, <2>3, <2>4 DEF KeysKnown
  <2>5. CASE cand # None /\ cand' = None /\ Running = cand /\ Running' = good
    <3>1. Known(good.psk)
      BY <1>6, <2>1, <2>2, <2>5 DEF GivenUp
    <3>2. QED
      BY <1>1, <2>3, <2>5, <3>1 DEF KeysKnown
  <2>6. QED
    BY <1>6, <2>4, <2>5
<1>12. QED
  BY <1>7, <1>8, <1>9, <1>10, <1>11 DEF InStep

LEMMA HandlerInStep ==
  ASSUME TypeOK, VersionIdentifiesPayload, SyncInv, NEW h \in Handlers, HandlerStep(h)
  PROVE  SyncInv'
<1>1. DeviceInv' /\ UNCHANGED marks
  BY HandlerDevice, HandlerBrokerOnly DEF SyncInv, BrokerOnly
<1>2. "dropped" \notin marks => InStep'
  BY HandlerKeeps, HandlerPromotes, HandlerRecord DEF SyncInv
<1>3. QED
  BY <1>1, <1>2 DEF SyncInv

\* The inductive invariant behind the three theorems that follow.
LEMMA SyncInvariant == Spec => []SyncInv
<1>1. Init => SyncInv
  BY IdleFacts DEF Init, SyncInv, DeviceInv, InStep, ActiveIdentified, ActiveIs, Rejections,
     GivenUp, AnswerIsLatest, RunsNewest, Settled, KeysKnown, Running, Unprovisioned
<1>2. TypeOK /\ VersionIdentifiesPayload /\ SyncInv /\ [Next]_vars => SyncInv'
  <2> SUFFICES ASSUME TypeOK, VersionIdentifiesPayload, SyncInv, [Next]_vars
               PROVE  SyncInv'
    OBVIOUS
  <2>1. CASE \E h \in Handlers : HandlerStep(h) \/ Lose(h)
    BY <2>1, HandlerInStep, LoseInStep
  <2>2. CASE Operator
    BY <2>2, OperatorInStep
  <2>3. CASE \E h \in Handlers : Accept(h) \/ Refused(h) \/ \E k \in Kinds : Poll(h, k)
    BY <2>3, AcceptInStep, RefusedInStep, PollInStep
  <2>4. CASE InstallFirmware \/ UNCHANGED vars
    BY <2>4 DEF InstallFirmware, vars, SyncInv, DeviceInv, InStep, ActiveIdentified, Rejections,
       AnswerIsLatest, RunsNewest, SetBack, Settled, KeysKnown, Known, Running
  <2>5. QED
    BY <2>1, <2>2, <2>3, <2>4 DEF Next, Device
<1>3. QED
  BY <1>1, <1>2, TypeCorrect, VersionsIdentify, PTL DEF Spec

\* However requests, promotions, edits and failed writes overlap, a request is
\* only refused for its signature when the record has given up for good the
\* payload that signed it.
THEOREM BadSignaturesAreDue == Spec => []BadSignatureIsDue
<1>1. SyncInv => BadSignatureIsDue
  BY DEF SyncInv, InStep, Rejections, BadSignatureIsDue
<1>2. QED
  BY <1>1, SyncInvariant, PTL

\* With nothing pending, list_devices shows what the device runs, whatever it has
\* tried, committed or rolled back and whatever was lost on the way, until a 401
\* for the clock or the nonce sets the device back behind the record.
THEOREM RegistryAgrees == Spec => []Agreement
<1>1. TypeOK /\ VersionIdentifiesPayload /\ SyncInv => Agreement
  <2> SUFFICES ASSUME TypeOK, VersionIdentifiesPayload, SyncInv,
                      file # None, marks \cap {"dropped", "reprovisioned", "setback", "unrotated"} = {},
                      file.pending = None
               PROVE  Runs(Running, file.active)
    BY DEF Agreement
  <2>1. InStep
    BY DEF SyncInv
  <2>2. ActiveIs(file, Running)
    BY <2>1 DEF InStep, ActiveIdentified, Running
  <2>3. QED
    BY <2>1, <2>2 DEF InStep, Settled, ActiveIs
<1>2. QED
  BY <1>1, TypeCorrect, VersionsIdentify, SyncInvariant, PTL

\* No sequence of rotations, lost answers, overlapping requests and rollbacks
\* leaves the device with a key that is not on record, undue rollbacks included,
\* as long as none of them undoes a rotation.
THEOREM NeverLockedOut == Spec => []DeviceReachable
<1>1. SyncInv => DeviceReachable
  BY DEF SyncInv, InStep, KeysKnown, Known, DeviceReachable
<1>2. QED
  BY <1>1, SyncInvariant, PTL

-----------------------------------------------------------------------------
(* The record's life.  Every step of a handler or an operator that touches   *)
(* the record is a step of RecordLife, whose theorems then hold here.        *)

Lives == INSTANCE RecordLifeProofs

LEMMA SameSteps ==
  /\ \A rec : Life!NewRecord(rec) = NewRecord(rec) /\ Lives!NewRecord(rec) = NewRecord(rec)
  /\ \A rec, new : Life!Step(rec, new) = Step(rec, new) /\ Lives!Step(rec, new) = Step(rec, new)
BY DEF Life!Step, Lives!Step, Step, Life!NewRecord, Lives!NewRecord, NewRecord,
       Life!Edits, Lives!Edits, Edits, Life!Promotes, Lives!Promotes, Promotes,
       Life!Notes, Lives!Notes, Notes, Life!PayloadsOf, Lives!PayloadsOf, PayloadsOf,
       Life!PendingBase, Lives!PendingBase, PendingBase, Life!Record, Lives!Record, Record,
       Life!Payload, Lives!Payload, Payload, Life!Settings, Lives!Settings, Settings

LEMMA HandlerLives ==
  ASSUME TypeOK, NEW h \in Handlers, HandlerStep(h)
  PROVE  [Step(file, file')]_file
<1>1. req[h].pc \in PastAuth => file \in Record
  BY DEF TypeOK, PastAuth
<1>2. req[h].floor \in Nat
  BY DEF TypeOK, Request
<1>3. CASE Authenticate(h) \/ AnswerStep(h)
  BY <1>3 DEF Authenticate, AnswerStep
<1>4. CASE PromoteStep(h)
  BY <1>1, <1>4, PromotedStep DEF PromoteStep, MayPromote, Write, At, PastAuth
<1>5. CASE TouchStep(h)
  BY <1>1, <1>2, <1>5, UpkeepStep DEF TouchStep, Write, At, PastAuth
<1>6. CASE SerialStep(h)
  BY <1>1, <1>2, <1>6, UpkeepStep, DeviceSyncAssumption
     DEF SerialStep, Write, At, PastAuth, DeviceSyncAssumption
<1>7. CASE FloorStep(h)
  BY <1>1, <1>2, <1>7, UpkeepStep DEF FloorStep, Write, At, PastAuth
<1>8. QED
  BY <1>3, <1>4, <1>5, <1>6, <1>7 DEF HandlerStep

LEMMA OperatorLives ==
  ASSUME TypeOK, Operator
  PROVE  [Step(file, file')]_file
<1> USE DeviceSyncAssumption
<1>1. CASE \E u \in StageUpdates : Stage(u)
  BY <1>1, StagedStep DEF Stage, TypeOK
<1>2. CASE \E u \in ProvisionUpdates : Provision(u)
  BY <1>2 DEF Provision
<1>3. CASE RecordProvision
  <2>1. provisioning \in Update /\ provisioning.psk # None
    BY <1>3 DEF RecordProvision, TypeOK
  <2>2. QED
    BY <1>3, <2>1, StagedStep, RegisteredStep DEF RecordProvision, TypeOK
<1>4. CASE ProvisionUnrecorded
  BY <1>4 DEF ProvisionUnrecorded
<1>5. CASE RegisterDevice
  <2> DEFINE upd == [psk |-> good.psk, set |-> good.set, minSV |-> 0]
  <2>1. upd \in Update /\ upd.psk # None
    BY <1>5 DEF RegisterDevice, TypeOK, Config, Update
  <2>2. QED
    BY <1>5, <2>1, RegisteredStep DEF RegisterDevice
<1>6. QED
  BY <1>1, <1>2, <1>3, <1>4, <1>5 DEF Operator

\* The broker's handlers, the operators and the device, with any faults, move the
\* record as the registry's operations allow.
THEOREM SyncFollowsLife == Spec => FollowsLife
<1>1. Init => Life!Init
  BY DEF Init, Life!Init
<1>2. TypeOK /\ [Next]_vars => [Life!Next]_file
  <2> SUFFICES ASSUME TypeOK, [Next]_vars
               PROVE  [Step(file, file')]_file
    BY SameSteps DEF Life!Next
  <2>1. CASE \E h \in Handlers : HandlerStep(h)
    BY <2>1, HandlerLives
  <2>2. CASE Operator
    BY <2>2, OperatorLives
  <2>3. CASE Device \/ \E h \in Handlers : Lose(h)
    BY <2>3, Zenon DEF Device, Accept, Refused, Poll, InstallFirmware, Lose
  <2>4. CASE UNCHANGED vars
    BY <2>4 DEF vars
  <2>5. QED
    BY <2>1, <2>2, <2>3, <2>4 DEF Next
<1>3. QED
  BY <1>1, <1>2, TypeCorrect, PTL DEF Spec, FollowsLife, Life!Spec

\* SetPending's and MaybePromote's numbers, for any number of overlapping requests,
\* edits and faults: no number in force ever falls or changes its meaning, and a
\* device that holds an older payload asks for the newest edit.
THEOREM SyncNumbersRise == Spec => NumbersRise
<1>1. Life!Spec => Lives!Spec
  <2>1. Life!Init => Lives!Init
    BY SameSteps DEF Life!Init, Lives!Init
  <2>2. [Life!Next]_file => [Lives!Next]_file
    BY SameSteps DEF Life!Next, Lives!Next
  <2>3. QED
    BY <2>1, <2>2, PTL DEF Life!Spec, Lives!Spec
<1>2. Lives!NumbersRise => NumbersRise
  BY PTL DEF NumbersRise, Life!NumbersRise, Lives!NumbersRise,
             Life!Rising, Lives!Rising, Life!PayloadsOf, Lives!PayloadsOf
<1>3. None \notin Keys \cup Values \cup Serials \cup Lives!Payload
                 \cup Lives!Update \cup Lives!Record
  BY NoneAssumption DEF Lives!Payload, Lives!Update, Lives!Record, Lives!Settings,
                        Payload, Update, Record, Settings
<1>4. Lives!Spec => Lives!NumbersRise
  BY <1>3, Lives!LifeNumbersRise, PTL
<1>5. QED
  BY <1>1, <1>2, <1>4, SyncFollowsLife, PTL DEF FollowsLife
=============================================================================
