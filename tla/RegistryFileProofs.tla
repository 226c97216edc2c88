------------------------- MODULE RegistryFileProofs -------------------------
(***************************************************************************)
(* RegistryFile implements RegistryStore, for any number of callers, any   *)
(* operations, and system calls, processes and power failing at any point. *)
(*                                                                         *)
(* The inductive invariant is the critical section: between load and       *)
(* rename the record on disk is the one the lock holder has read, and the  *)
(* .tmp it will rename is its own.                                         *)
(***************************************************************************)
EXTENDS RegistryFile, RegistryLemmas

FileInv == FileTypeOK /\ WholeRecords /\ CriticalSection

-----------------------------------------------------------------------------
(* The operations *)

LEMMA SavedType ==
  ASSUME NEW o \in Ops, NEW rec \in Record \cup {None}
  PROVE  Saved(o, rec) \in Record \cup {None}
<1>1. o \in Operation
  BY RegistryOpsAssumption
<1>2. CASE o.kind = "register"
  <2>1. o.upd \in Update /\ o.upd.psk # None
    BY <1>1, <1>2, RegistryOpsAssumption DEF Operation
  <2>2. QED
    BY <1>2, <2>1, RegisteredFacts DEF Saved
<1>3. CASE o.kind = "stage"
  <2>1. o.upd \in Update
    BY <1>1, <1>3 DEF Operation
  <2>2. QED
    BY <1>3, <2>1, StagedFacts DEF Saved
<1>4. CASE o.kind = "promote"
  BY <1>4, PromotedFacts DEF Saved, MayPromote
<1>5. CASE o.kind = "touch"
  BY <1>5 DEF Saved, Touched, Record
<1>6. CASE o.kind = "serial"
  <2>1. o.serial \in Serials
    BY <1>1, <1>6 DEF Operation
  <2>2. rec # None => WithSerial(rec, o.serial) \in Record
    BY <2>1 DEF WithSerial, Record
  <2>3. QED
    BY <1>6, <2>2 DEF Saved
<1>7. CASE o.kind = "floor"
  <2>1. o.sv \in Nat
    BY <1>1, <1>7 DEF Operation
  <2>2. rec # None => WithFloor(rec, o.sv) \in Record
    BY <2>1, UpkeepFacts
  <2>3. QED
    BY <1>7, <2>2 DEF Saved
<1>8. CASE o.kind = "load"
  BY <1>8 DEF Saved
<1>9. QED
  BY <1>1, <1>2, <1>3, <1>4, <1>5, <1>6, <1>7, <1>8 DEF Operation

LEMMA AnswerType ==
  ASSUME NEW o \in Ops, NEW rec \in Record \cup {None}
  PROVE  Answer(o, rec) \in Answers
<1>1. After(o, rec) \in Record \cup {None}
  BY SavedType DEF After
<1>2. Status(o, rec) \in {"ok", "exists", "notFound"}
  BY DEF Status
<1>3. QED
  BY <1>1, <1>2 DEF Answer, Answers

-----------------------------------------------------------------------------
(* The invariant *)

LEMMA NoCallType == NoCall \in Locals
BY DEF NoCall, Locals, Points

\* A step of a caller replaces its own locals by r.
LEMMA LocalsType ==
  ASSUME FileTypeOK, NEW c \in Callers, NEW r \in Locals,
         op' = [op EXCEPT ![c] = r],
         r.pc # "idle" => r.op # None,
         r.pc \in Saving => r.next # None,
         data' \in File \cup {None}, disk' \in File \cup {None},
         tmp' \in File \cup {None}, holder' \in Callers \cup {None}
  PROVE  FileTypeOK'
BY DEF FileTypeOK

\* The locals after each kind of step.
LEMMA AtPoint ==
  ASSUME NEW l \in Locals, NEW pc \in Points
  PROVE  /\ [l EXCEPT !.pc = pc] \in Locals
         /\ [l EXCEPT !.pc = pc].pc = pc
         /\ [l EXCEPT !.pc = pc].op = l.op
         /\ [l EXCEPT !.pc = pc].next = l.next
         /\ [l EXCEPT !.pc = pc].answer = l.answer
BY DEF Locals

LEMMA GotoLocals ==
  ASSUME FileTypeOK, NEW c \in Callers, NEW pc \in Points, Goto(c, pc)
  PROVE  \E r \in Locals :
           /\ op' = [op EXCEPT ![c] = r]
           /\ r.pc = pc /\ r.op = op[c].op /\ r.next = op[c].next /\ r.answer = op[c].answer
<1> DEFINE r == [op[c] EXCEPT !.pc = pc]
<1>1. op' = [op EXCEPT ![c] = r]
  BY DEF Goto
<1>2. op[c] \in Locals
  BY DEF FileTypeOK
<1>3. /\ r \in Locals /\ r.pc = pc /\ r.op = op[c].op
      /\ r.next = op[c].next /\ r.answer = op[c].answer
  BY <1>2, AtPoint
<1> HIDE DEF r
<1>4. QED
  BY <1>1, <1>3

LEMMA FinishLocals ==
  ASSUME FileTypeOK, NEW c \in Callers, NEW answer \in Answers, Finish(c, answer)
  PROVE  \E r \in Locals : /\ op' = [op EXCEPT ![c] = r]
                           /\ r.pc = "unlock" /\ r.op = op[c].op /\ r.answer = answer
<1> DEFINE r == [op[c] EXCEPT !.pc = "unlock", !.answer = answer]
<1>1. op' = [op EXCEPT ![c] = r]
  BY DEF Finish
<1>2. op[c] \in Locals /\ "unlock" \in Points
  BY DEF FileTypeOK, Points
<1>3. r \in Locals /\ r.pc = "unlock" /\ r.op = op[c].op /\ r.answer = answer
  BY <1>2 DEF Locals
<1> HIDE DEF r
<1>4. QED
  BY <1>1, <1>3

LEMMA FailedType == Failed \in Answers
BY DEF Failed, Answers

\* The critical section of the others: they do not hold the lock, so a step of c
\* inside its own, or outside any, cannot disturb them.
LEMMA OthersOutside ==
  ASSUME CriticalSection, NEW c \in Callers, NEW d \in Callers, holder = c, d # c
  PROVE  ~Holds(d)
BY DEF CriticalSection

LEMMA ContentType ==
  ASSUME FileTypeOK, WholeRecords
  PROVE  Content(data) \in Record \cup {None} /\ Content(disk) \in Record \cup {None}
BY DEF FileTypeOK, WholeRecords, Content, File

\* Whatever c does outside Rename and LosePower: data and disk stay whole.
LEMMA WholeKept ==
  ASSUME WholeRecords, data' \in {data, disk}, disk' \in {data, disk}
  PROVE  WholeRecords'
BY DEF WholeRecords

\* A step of c, with new locals r, leaves every critical section in order if r
\* itself is in order, the record stays, and the lock and .tmp change only when
\* nobody else is inside.
LEMMA SectionKept ==
  ASSUME CriticalSection, FileTypeOK, NEW c \in Callers, NEW r \in Locals,
         op' = [op EXCEPT ![c] = r],
         \A d \in Callers \ {c} :
           Holds(d) => data' = data /\ tmp' = tmp /\ holder' = holder,
         r.pc \in Saving \cup {"load"} => holder' = c,
         r.pc \in Saving => /\ r.next = Saved(r.op, Content(data'))
                            /\ r.answer = Answer(r.op, Content(data')),
         r.pc \in {"sync", "rename"} => tmp' # None /\ tmp'.content = r.next,
         r.pc = "rename" => tmp'.synced
  PROVE  CriticalSection'
<1> SUFFICES ASSUME NEW d \in Callers, Holds(d)'
             PROVE  /\ holder' = d
                    /\ op'[d].pc \in Saving
                         => /\ op'[d].next = Saved(op'[d].op, Content(data'))
                            /\ op'[d].answer = Answer(op'[d].op, Content(data'))
                    /\ op'[d].pc = "sync" \/ op'[d].pc = "rename"
                         => tmp' # None /\ tmp'.content = op'[d].next
                    /\ op'[d].pc = "rename" => tmp'.synced
  BY DEF CriticalSection, At
<1>1. CASE d = c
  <2>1. op'[d] = r
    BY <1>1 DEF FileTypeOK
  <2>2. QED
    BY <1>1, <2>1 DEF Holds
<1>2. CASE d # c
  <2>1. op'[d] = op[d]
    BY <1>2 DEF FileTypeOK
  <2>2. Holds(d) /\ data' = data /\ tmp' = tmp /\ holder' = holder
    BY <1>2, <2>1 DEF Holds
  <2>3. QED
    BY <2>1, <2>2 DEF CriticalSection, At
<1>3. QED
  BY <1>1, <1>2

\* A file that is being written.
LEMMA TornFile == [content |-> Torn, synced |-> FALSE] \in File
BY DEF File

\* A caller that ends its call without touching data or disk, as all error
\* paths do: it keeps the lock if it had it.
LEMMA FinishKeeps ==
  ASSUME FileInv, NEW c \in Callers, NEW answer \in Answers, Finish(c, answer),
         op[c].pc # "idle", Holds(c) \/ tmp' = tmp,
         UNCHANGED <<data, disk, holder>>, tmp' \in File \cup {None}
  PROVE  FileInv'
<1>1. PICK r \in Locals : /\ op' = [op EXCEPT ![c] = r]
                          /\ r.pc = "unlock" /\ r.op = op[c].op
  BY FinishLocals DEF FileInv
<1>2. r.op # None /\ r.pc \notin Saving \cup {"load"}
  BY <1>1 DEF FileInv, FileTypeOK, Saving
<1>3. FileTypeOK'
  BY <1>1, <1>2, LocalsType DEF FileInv, FileTypeOK
<1>4. WholeRecords'
  BY WholeKept DEF FileInv
<1>5. \A d \in Callers \ {c} :
        Holds(d) => data' = data /\ tmp' = tmp /\ holder' = holder
  BY OthersOutside DEF FileInv, CriticalSection
<1>6. CriticalSection'
  BY <1>1, <1>2, <1>5, SectionKept DEF FileInv, Saving
<1>7. QED
  BY <1>3, <1>4, <1>6 DEF FileInv

\* A caller inside the critical section that goes on to the next step of
\* saveLocked, with the record it is saving.
LEMMA SavingGoesOn ==
  ASSUME FileInv, NEW c \in Callers, op[c].pc \in Saving,
         NEW pc \in Saving, Goto(c, pc),
         UNCHANGED <<data, disk, holder>>, tmp' \in File,
         pc \in {"sync", "rename"} => tmp'.content = op[c].next,
         pc = "rename" => tmp'.synced
  PROVE  FileInv'
<1>0. pc \in Points /\ None \notin File
  BY RegistryFileAssumption DEF Points, Saving
<1>1. PICK r \in Locals :
        /\ op' = [op EXCEPT ![c] = r]
        /\ r.pc = pc /\ r.op = op[c].op /\ r.next = op[c].next /\ r.answer = op[c].answer
  BY <1>0, GotoLocals DEF FileInv
<1>2. r.op # None /\ r.next # None
  BY <1>1 DEF FileInv, FileTypeOK, Saving
<1>3. FileTypeOK'
  BY <1>1, <1>2, LocalsType DEF FileInv, FileTypeOK
<1>4. WholeRecords'
  BY WholeKept DEF FileInv
<1>5. holder = c /\ /\ op[c].next = Saved(op[c].op, Content(data))
                    /\ op[c].answer = Answer(op[c].op, Content(data))
  BY DEF FileInv, CriticalSection, Holds
<1>6. \A d \in Callers \ {c} : ~Holds(d)
  BY <1>5, OthersOutside DEF FileInv
<1>7. CriticalSection'
  BY <1>0, <1>1, <1>5, <1>6, SectionKept DEF FileInv
<1>8. QED
  BY <1>3, <1>4, <1>7 DEF FileInv

\* A call that ends, after unlocking or with its process.
LEMMA EndsCall ==
  ASSUME FileInv, NEW c \in Callers, UNCHANGED <<data, disk, tmp>>,
         op' = [op EXCEPT ![c] = NoCall],
         holder' = IF holder = c THEN None ELSE holder
  PROVE  FileInv'
<1>1. NoCall \in Locals /\ NoCall.pc = "idle"
  BY NoCallType DEF NoCall
<1>2. FileTypeOK'
  BY <1>1, LocalsType DEF FileInv, FileTypeOK, Saving
<1>3. WholeRecords'
  BY WholeKept DEF FileInv
<1>4. \A d \in Callers \ {c} : Holds(d) => holder' = holder
  BY DEF FileInv, CriticalSection
<1>5. CriticalSection'
  BY <1>1, <1>4, SectionKept DEF FileInv, Saving
<1>6. QED
  BY <1>2, <1>3, <1>5 DEF FileInv

\* Every step of a caller.
LEMMA CallerInv ==
  ASSUME FileInv, NEW c \in Callers, CallerStep(c)
  PROVE  FileInv'
<1> USE DEF At
<1>1. /\ op[c] \in Locals
      /\ op[c].pc # "idle" => op[c].op \in Ops
      /\ op[c].pc \in Saving => op[c].next \in Record
      /\ tmp \in File \cup {None}
      /\ Content(data) \in Record \cup {None}
  BY ContentType DEF FileInv, FileTypeOK, Locals
<1>2. Failed \in Answers
  BY FailedType
<1>3. CASE Lock(c)
  <2>1. PICK r \in Locals :
          /\ op' = [op EXCEPT ![c] = r] /\ r.pc = "load" /\ r.op = op[c].op
    BY <1>3, GotoLocals DEF Lock, FileInv, Points
  <2>2. /\ r.pc \notin Saving /\ r.op # None /\ UNCHANGED <<data, disk, tmp>>
        /\ holder' = c /\ holder = None
    BY <1>3, <2>1 DEF FileInv, FileTypeOK, Saving, Lock, LockFree
  <2>3. FileTypeOK'
    BY <2>1, <2>2, LocalsType DEF FileInv, FileTypeOK
  <2>4. WholeRecords'
    BY <2>2, WholeKept DEF FileInv
  <2>5. \A d \in Callers : ~Holds(d)
    BY <2>2, RegistryFileAssumption DEF FileInv, CriticalSection
  <2>6. CriticalSection'
    BY <2>1, <2>2, <2>5, SectionKept DEF FileInv
  <2>7. QED
    BY <2>3, <2>4, <2>6 DEF FileInv
<1>4. CASE LockFails(c)
  BY <1>1, <1>2, <1>4, FinishKeeps DEF LockFails
<1>5. CASE Load(c)
  <2> DEFINE rec == Content(data)
             o   == op[c].op
  <2>1. op[c].pc = "load" /\ o \in Ops /\ UNCHANGED <<data, disk, tmp, holder>>
    BY <1>1, <1>5 DEF Load
  <2>2. Answer(o, rec) \in Answers /\ Saved(o, rec) \in Record \cup {None}
    BY <1>1, <2>1, AnswerType, SavedType
  <2>3. CASE Finish(c, Failed) \/ Finish(c, Answer(o, rec))
    BY <1>1, <1>2, <2>1, <2>2, <2>3, FinishKeeps
  <2>4. CASE /\ Saved(o, rec) # None
             /\ op' = [op EXCEPT ![c].pc = "create", ![c].next = Saved(o, rec),
                                 ![c].answer = Answer(o, rec)]
    <3> DEFINE r == [op[c] EXCEPT !.pc = "create", !.next = Saved(o, rec),
                                  !.answer = Answer(o, rec)]
    <3>1. op' = [op EXCEPT ![c] = r]
      BY <2>4
    <3>2. /\ r \in Locals /\ r.pc = "create" /\ r.op = o
          /\ r.next = Saved(o, rec) /\ r.answer = Answer(o, rec)
      BY <1>1, <2>2 DEF Locals, Points
    <3> HIDE DEF r
    <3>3. FileTypeOK'
      BY <2>1, <2>4, <3>1, <3>2, LocalsType DEF FileInv, FileTypeOK
    <3>4. WholeRecords'
      BY <2>1, WholeKept DEF FileInv
    <3>5. holder = c
      BY <2>1 DEF FileInv, CriticalSection, Holds
    <3>6. CriticalSection'
      BY <2>1, <3>1, <3>2, <3>5, SectionKept DEF FileInv
    <3>7. QED
      BY <3>3, <3>4, <3>6 DEF FileInv
  <2>5. QED
    BY <1>5, <2>3, <2>4 DEF Load
<1>6. CASE Create(c)
  <2>1. op[c].pc \in Saving /\ UNCHANGED <<data, disk, holder>>
    BY <1>6 DEF Create, Saving
  <2>2. CASE tmp' = [content |-> Torn, synced |-> FALSE] /\ Goto(c, "write")
    BY <2>1, <2>2, TornFile, SavingGoesOn DEF Saving
  <2>3. CASE UNCHANGED tmp /\ Finish(c, Failed)
    BY <1>1, <1>2, <2>1, <2>3, FinishKeeps DEF Saving
  <2>4. QED
    BY <1>6, <2>2, <2>3 DEF Create
<1>7. ASSUME GiveUp(c), op[c].pc \in Saving, UNCHANGED <<data, disk, holder>>
      PROVE  FileInv'
  BY <1>2, <1>7, FinishKeeps DEF GiveUp, Holds, Saving
<1>8. CASE Encode(c)
  <2>1. op[c].pc \in Saving /\ UNCHANGED <<data, disk, holder>>
    BY <1>8 DEF Encode, Saving
  <2>2. CASE tmp' = [content |-> op[c].next, synced |-> FALSE] /\ Goto(c, "sync")
    <3>1. tmp' \in File /\ tmp'.content = op[c].next
      BY <1>1, <2>1, <2>2 DEF File
    <3>2. QED
      BY <2>1, <2>2, <3>1, SavingGoesOn DEF Saving
  <2>3. QED
    BY <1>7, <1>8, <2>1, <2>2 DEF Encode
<1>9. CASE Sync(c)
  <2>1. op[c].pc = "sync" /\ op[c].pc \in Saving /\ UNCHANGED <<data, disk, holder>>
    BY <1>9 DEF Sync, Saving
  <2>2. CASE tmp' = Flushed(tmp) /\ Goto(c, "rename")
    <3>1. tmp # None /\ tmp.content = op[c].next
      BY <2>1 DEF FileInv, CriticalSection, Holds
    <3>2. tmp' \in File /\ tmp'.content = op[c].next /\ tmp'.synced
      BY <1>1, <2>2, <3>1 DEF Flushed, File
    <3>3. QED
      BY <2>1, <2>2, <3>2, SavingGoesOn DEF Saving
  <2>3. QED
    BY <1>7, <1>9, <2>1, <2>2 DEF Sync
<1>10. CASE Rename(c)
  <2>1. op[c].pc = "rename" /\ op[c].pc \in Saving /\ UNCHANGED <<disk, holder>>
    BY <1>10 DEF Rename, Saving
  <2>2. CASE data' = tmp /\ tmp' = None /\ Goto(c, "unlock")
    <3>1. /\ tmp # None /\ tmp.content = op[c].next /\ tmp.synced /\ holder = c
      BY <2>1 DEF FileInv, CriticalSection, Holds
    <3>2. PICK r \in Locals :
            /\ op' = [op EXCEPT ![c] = r] /\ r.pc = "unlock" /\ r.op = op[c].op
      BY <2>2, GotoLocals DEF FileInv, Points
    <3>3. r.op # None /\ r.pc \notin Saving \cup {"load"}
      BY <2>1, <3>2 DEF FileInv, FileTypeOK, Saving
    <3>4. FileTypeOK'
      BY <1>1, <2>1, <2>2, <3>2, <3>3, LocalsType DEF FileInv, FileTypeOK
    <3>5. WholeRecords'
      BY <1>1, <2>1, <2>2, <3>1, RegistryFileAssumption DEF FileInv, WholeRecords
    <3>6. \A d \in Callers \ {c} : ~Holds(d)
      BY <3>1, OthersOutside DEF FileInv
    <3>7. CriticalSection'
      BY <3>2, <3>3, <3>6, SectionKept DEF FileInv, Saving
    <3>8. QED
      BY <3>4, <3>5, <3>7 DEF FileInv
  <2>3. QED
    BY <1>7, <1>10, <2>1, <2>2 DEF Rename
<1>11. CASE Unlock(c)
  <2>1. UNCHANGED <<data, disk, tmp>> /\ NoCall \in Locals
        /\ op' = [op EXCEPT ![c] = NoCall]
        /\ holder' = IF holder = c THEN None ELSE holder
    BY <1>11, NoCallType DEF Unlock
  <2>2. QED
    BY <2>1, EndsCall
<1>12. QED
  BY <1>3, <1>4, <1>5, <1>6, <1>8, <1>9, <1>10, <1>11 DEF CallerStep

LEMMA BeginInv ==
  ASSUME FileInv, NEW c \in Callers, NEW o \in Ops, Begin(c, o)
  PROVE  FileInv'
<1> DEFINE r == [NoCall EXCEPT !.pc = "lock", !.op = o]
<1>1. op' = [op EXCEPT ![c] = r] /\ UNCHANGED <<data, disk, tmp, holder>>
  BY DEF Begin
<1>2. r \in Locals /\ r.pc = "lock" /\ r.op = o
  BY NoCallType DEF Locals, Points
<1>3. o # None
  BY RegistryOpsAssumption
<1> HIDE DEF r
<1>4. FileTypeOK'
  BY <1>1, <1>2, <1>3, LocalsType DEF FileInv, FileTypeOK, Saving
<1>5. WholeRecords'
  BY <1>1, WholeKept DEF FileInv
<1>6. CriticalSection'
  BY <1>1, <1>2, SectionKept DEF FileInv, Saving
<1>7. QED
  BY <1>4, <1>5, <1>6 DEF FileInv

\* After a power loss: disk is whole, so it comes back as it was.
LEMMA LosePowerInv ==
  ASSUME FileInv, LosePower
  PROVE  /\ FileInv'
         /\ Content(data') = Content(disk) /\ Content(disk') = Content(disk)
<1>1. data' = disk /\ disk' = disk
  BY DEF LosePower, Survives, FileInv, WholeRecords
<1>2. \A c \in Callers : op'[c] = NoCall
  BY DEF LosePower
<1>3. NoCall \in Locals /\ NoCall.pc = "idle"
  BY NoCallType DEF NoCall
<1>4. FileTypeOK'
  <2>1. op' \in [Callers -> Locals]
    BY <1>3 DEF LosePower
  <2>2. tmp' \in File \cup {None}
    BY TornFile DEF LosePower
  <2>3. QED
    BY <1>1, <1>2, <1>3, <2>1, <2>2 DEF FileInv, FileTypeOK, LosePower, Saving
<1>5. WholeRecords'
  BY <1>1, WholeKept DEF FileInv
<1>6. CriticalSection'
  BY <1>2, <1>3 DEF CriticalSection, Holds, Saving
<1>7. QED
  BY <1>1, <1>4, <1>5, <1>6 DEF FileInv

LEMMA InvStep ==
  ASSUME FileInv, [FileNext]_fileVars
  PROVE  FileInv'
<1>1. CASE \E c \in Callers : CallerStep(c)
  BY <1>1, CallerInv
<1>2. CASE \E c \in Callers : Die(c)
  BY <1>2, EndsCall DEF Die
<1>3. CASE \E c \in Callers, o \in Ops : Begin(c, o)
  BY <1>3, BeginInv
<1>4. CASE Commit
  <2>1. FileTypeOK' /\ CriticalSection'
    BY <1>4 DEF Commit, FileInv, FileTypeOK, CriticalSection, Holds, At
  <2>2. WholeRecords'
    BY <1>4, WholeKept DEF Commit, FileInv
  <2>3. QED
    BY <2>1, <2>2 DEF FileInv
<1>5. CASE LosePower
  BY <1>5, LosePowerInv
<1>6. CASE UNCHANGED fileVars
  BY <1>6 DEF fileVars, FileInv, FileTypeOK, WholeRecords, CriticalSection, Holds, At
<1>7. QED
  BY <1>1, <1>2, <1>3, <1>4, <1>5, <1>6 DEF FileNext

\* No reader ever finds part of a record, and the lock makes load, compute and
\* save one critical section, across crashes that leave .tmp files behind.
THEOREM FileInvariant == FileSpec => [](FileTypeOK /\ WholeRecords /\ CriticalSection)
<1>1. FileInit => FileInv
  BY NoCallType DEF FileInit, FileInv, FileTypeOK, WholeRecords, CriticalSection,
                    Holds, NoCall, Saving
<1>2. FileInv /\ [FileNext]_fileVars => FileInv'
  BY InvStep
<1>3. QED
  BY <1>1, <1>2, PTL DEF FileSpec, FileInv

-----------------------------------------------------------------------------
(* Refinement *)

\* The instance means the same operations.
LEMMA SameOperations ==
  ASSUME NEW o, NEW rec
  PROVE  /\ Store!After(o, rec) = After(o, rec)
         /\ Store!Answer(o, rec) = Answer(o, rec)
         /\ Store!Failed = Failed
<1>1. Store!NextVersion(rec) = NextVersion(rec)
  BY DEF Store!NextVersion, NextVersion
<1>2. \A base, upd : Store!MergePayload(base, upd) = MergePayload(base, upd)
  BY DEF Store!MergePayload, MergePayload, Store!Overlay, Overlay, Store!Larger, Larger
<1>3. \A upd : Store!Staged(rec, upd) = Staged(rec, upd)
  BY <1>1, <1>2 DEF Store!Staged, Staged, Store!PendingBase, PendingBase,
                    Store!PayloadEquivalent, PayloadEquivalent
<1>4. Store!Saved(o, rec) = Saved(o, rec)
  BY <1>3 DEF Store!Saved, Saved, Store!Registered, Registered, Store!Touched, Touched,
              Store!MayPromote, MayPromote, Store!Promoted, Promoted,
              Store!WithSerial, WithSerial, Store!WithFloor, WithFloor,
              Store!Larger, Larger
<1>5. Store!After(o, rec) = After(o, rec)
  BY <1>4 DEF Store!After, After
<1>6. Store!Answer(o, rec) = Answer(o, rec)
  BY <1>5 DEF Store!Answer, Answer, Store!Status, Status
<1>7. QED
  BY <1>5, <1>6 DEF Store!Failed, Failed

\* RegistryStore's view of the callers.
View == [c \in Callers |-> Progress(op[c])]

\* A step of c that replaces its locals by r changes the view of c only.
LEMMA ViewStep ==
  ASSUME FileTypeOK, NEW c \in Callers, NEW r, op' = [op EXCEPT ![c] = r]
  PROVE  View' = [View EXCEPT ![c] = Progress(r)]
BY DEF FileTypeOK, View

\* Steps that RegistryStore does not see.
LEMMA Unseen ==
  ASSUME FileTypeOK, NEW c \in Callers, op[c].pc \notin {"idle", "unlock"},
         NEW pc \in Points \ {"idle", "unlock"}, NEW r \in Locals,
         op' = [op EXCEPT ![c] = r], r.pc = pc, r.op = op[c].op,
         UNCHANGED <<data, disk>>
  PROVE  UNCHANGED Store!vars
<1>1. Progress(r) = Progress(op[c])
  BY DEF Progress
<1>2. View' = View
  BY <1>1, ViewStep DEF View
<1>3. QED
  BY <1>2 DEF Store!vars, View

\* An operation is performed, on record and view.
LEMMA Performs ==
  ASSUME FileTypeOK, NEW c \in Callers, op[c].pc \notin {"idle", "unlock"}, op[c].op \in Ops,
         NEW r \in Locals, op' = [op EXCEPT ![c] = r], r.pc = "unlock",
         r.answer = Answer(op[c].op, Content(data)),
         Content(data') = After(op[c].op, Content(data)), UNCHANGED disk
  PROVE  Store!Next
<1>1. Progress(op[c]) = [state |-> "called", op |-> op[c].op]
  BY DEF Progress
<1>2. Progress(r) = [state |-> "done", answer |-> Answer(op[c].op, Content(data))]
  BY DEF Progress
<1>3. View' = [View EXCEPT ![c] = Progress(r)] /\ View[c] = Progress(op[c])
  BY ViewStep DEF View
<1>4. Store!Apply(c, op[c].op)
  <2>1. View[c] = Store!Called(op[c].op)
    BY <1>1, <1>3 DEF Store!Called
  <2>2. View' = [View EXCEPT ![c] = Store!Done(Answer(op[c].op, Content(data)))]
    BY <1>2, <1>3 DEF Store!Done
  <2>3. QED
    BY <2>1, <2>2, SameOperations DEF Store!Apply, View
<1>5. QED
  BY <1>4 DEF Store!Next

LEMMA Fails ==
  ASSUME FileTypeOK, NEW c \in Callers, op[c].pc \notin {"idle", "unlock"}, op[c].op \in Ops,
         Finish(c, Failed), UNCHANGED <<data, disk>>
  PROVE  Store!Next
<1>1. PICK r \in Locals :
        /\ op' = [op EXCEPT ![c] = r] /\ r.pc = "unlock" /\ r.answer = Failed
  BY FinishLocals, FailedType
<1>2. Progress(op[c]) = [state |-> "called", op |-> op[c].op]
  BY DEF Progress
<1>3. Progress(r) = [state |-> "done", answer |-> Failed]
  BY <1>1 DEF Progress
<1>4. View' = [View EXCEPT ![c] = Progress(r)] /\ View[c] = Progress(op[c])
  BY <1>1, ViewStep DEF View
<1>5. Store!Fail(c, op[c].op)
  <2>1. View[c] = Store!Called(op[c].op)
    BY <1>2, <1>4 DEF Store!Called
  <2>2. View' = [View EXCEPT ![c] = Store!Done(Failed)]
    BY <1>3, <1>4 DEF Store!Done
  <2>3. QED
    BY <2>1, <2>2, SameOperations DEF Store!Fail, View
<1>6. QED
  BY <1>5 DEF Store!Next

LEMMA Leaves ==
  ASSUME FileTypeOK, NEW c \in Callers, op' = [op EXCEPT ![c] = NoCall],
         UNCHANGED <<data, disk>>
  PROVE  Store!Next
<1>1. Progress(NoCall) = [state |-> "idle"]
  BY DEF Progress, NoCall
<1>2. View' = [View EXCEPT ![c] = Progress(NoCall)]
  BY ViewStep
<1>3. Store!Leave(c)
  BY <1>1, <1>2 DEF Store!Leave, Store!Idle, View
<1>4. QED
  BY <1>3 DEF Store!Next

LEMMA CallerRefines ==
  ASSUME FileInv, NEW c \in Callers, CallerStep(c)
  PROVE  [Store!Next]_(Store!vars)
<1> USE DEF At
<1>1. /\ FileTypeOK /\ op[c] \in Locals
      /\ op[c].pc # "idle" => op[c].op \in Ops
  BY DEF FileInv, FileTypeOK, Locals
<1>2. CASE Lock(c)
  BY <1>1, <1>2, GotoLocals, Unseen DEF Lock, Points
<1>3. CASE LockFails(c)
  BY <1>1, <1>3, Fails DEF LockFails
<1>4. CASE Load(c)
  <2> DEFINE rec == Content(data)
             o   == op[c].op
  <2>1. op[c].pc = "load" /\ o \in Ops /\ UNCHANGED <<data, disk>>
    BY <1>1, <1>4 DEF Load
  <2>2. rec \in Record \cup {None} /\ Answer(o, rec) \in Answers
        /\ Saved(o, rec) \in Record \cup {None}
    BY <2>1, ContentType, AnswerType, SavedType DEF FileInv
  <2>3. CASE Finish(c, Failed)
    BY <1>1, <2>1, <2>3, Fails
  <2>4. CASE Saved(o, rec) = None /\ Finish(c, Answer(o, rec))
    <3>1. PICK r \in Locals :
            /\ op' = [op EXCEPT ![c] = r] /\ r.pc = "unlock" /\ r.answer = Answer(o, rec)
      BY <1>1, <2>2, <2>4, FinishLocals
    <3>2. Content(data') = After(o, rec)
      BY <2>1, <2>4 DEF After
    <3>3. QED
      BY <1>1, <2>1, <3>1, <3>2, Performs
  <2>5. CASE op' = [op EXCEPT ![c].pc = "create", ![c].next = Saved(o, rec),
                              ![c].answer = Answer(o, rec)]
    <3> DEFINE r == [op[c] EXCEPT !.pc = "create", !.next = Saved(o, rec),
                                  !.answer = Answer(o, rec)]
    <3>1. op' = [op EXCEPT ![c] = r]
      BY <2>5
    <3>2. r \in Locals /\ r.pc = "create" /\ r.op = o
      BY <1>1, <2>2 DEF Locals, Points
    <3> HIDE DEF r
    <3>3. QED
      BY <1>1, <2>1, <3>1, <3>2, Unseen DEF Points
  <2>6. QED
    BY <1>4, <2>3, <2>4, <2>5 DEF Load
<1>5. CASE Create(c)
  <2>1. op[c].pc = "create" /\ UNCHANGED <<data, disk>>
    BY <1>5 DEF Create
  <2>2. CASE Goto(c, "write")
    BY <1>1, <2>1, <2>2, GotoLocals, Unseen DEF Points
  <2>3. CASE Finish(c, Failed)
    BY <1>1, <2>1, <2>3, Fails
  <2>4. QED
    BY <1>5, <2>2, <2>3 DEF Create
<1>6. CASE Encode(c)
  <2>1. op[c].pc = "write" /\ UNCHANGED <<data, disk>>
    BY <1>6 DEF Encode
  <2>2. CASE Goto(c, "sync")
    BY <1>1, <2>1, <2>2, GotoLocals, Unseen DEF Points
  <2>3. CASE GiveUp(c)
    BY <1>1, <2>1, <2>3, Fails DEF GiveUp
  <2>4. QED
    BY <1>6, <2>2, <2>3 DEF Encode
<1>7. CASE Sync(c)
  <2>1. op[c].pc = "sync" /\ UNCHANGED <<data, disk>>
    BY <1>7 DEF Sync
  <2>2. CASE Goto(c, "rename")
    BY <1>1, <2>1, <2>2, GotoLocals, Unseen DEF Points
  <2>3. CASE GiveUp(c)
    BY <1>1, <2>1, <2>3, Fails DEF GiveUp
  <2>4. QED
    BY <1>7, <2>2, <2>3 DEF Sync
<1>8. CASE Rename(c)
  <2>1. op[c].pc = "rename" /\ UNCHANGED disk
    BY <1>8 DEF Rename
  <2>2. CASE data' = tmp /\ tmp # None /\ Goto(c, "unlock")
    <3>1. /\ op[c].next = Saved(op[c].op, Content(data))
          /\ op[c].answer = Answer(op[c].op, Content(data))
          /\ tmp.content = op[c].next /\ op[c].next # None
      BY <2>1 DEF FileInv, FileTypeOK, CriticalSection, Holds, Saving
    <3>2. Content(data') = After(op[c].op, Content(data))
      BY <2>2, <3>1 DEF Content, After
    <3>3. PICK r \in Locals :
            /\ op' = [op EXCEPT ![c] = r] /\ r.pc = "unlock" /\ r.answer = op[c].answer
      BY <1>1, <2>2, GotoLocals DEF Points
    <3>4. QED
      BY <1>1, <2>1, <3>1, <3>2, <3>3, Performs
  <2>3. CASE GiveUp(c) /\ UNCHANGED data
    BY <1>1, <2>1, <2>3, Fails DEF GiveUp
  <2>4. QED
    BY <1>8, <2>2, <2>3 DEF Rename
<1>9. CASE Unlock(c)
  BY <1>1, <1>9, Leaves DEF Unlock
<1>10. QED
  BY <1>2, <1>3, <1>4, <1>5, <1>6, <1>7, <1>8, <1>9 DEF CallerStep

LEMMA StepRefines ==
  ASSUME FileInv, [FileNext]_fileVars
  PROVE  [Store!Next]_(Store!vars)
<1>1. CASE \E c \in Callers : CallerStep(c)
  BY <1>1, CallerRefines
<1>2. CASE \E c \in Callers : Die(c)
  BY <1>2, Leaves DEF Die, FileInv
<1>3. ASSUME NEW c \in Callers, NEW o \in Ops, Begin(c, o)
      PROVE  Store!Next
  <2> DEFINE r == [NoCall EXCEPT !.pc = "lock", !.op = o]
  <2>1. op[c].pc = "idle" /\ op' = [op EXCEPT ![c] = r] /\ UNCHANGED <<data, disk>>
    BY <1>3 DEF Begin, At
  <2>2. Progress(r) = [state |-> "called", op |-> o]
    BY DEF Progress, NoCall
  <2>3. Progress(op[c]) = [state |-> "idle"]
    BY <2>1 DEF Progress
  <2> HIDE DEF r
  <2>4. View' = [View EXCEPT ![c] = Progress(r)] /\ View[c] = Progress(op[c])
    BY <2>1, ViewStep DEF View, FileInv
  <2>5. Store!Call(c, o)
    BY <2>1, <2>2, <2>3, <2>4 DEF Store!Call, Store!Called, Store!Idle, View
  <2>6. QED
    BY <2>5 DEF Store!Next
<1>4. CASE Commit
  <2>1. Store!Persist
    BY <1>4 DEF Commit, Store!Persist
  <2>2. QED
    BY <2>1 DEF Store!Next
<1>5. CASE LosePower
  <2>1. Content(data') = Content(disk) /\ Content(disk') = Content(disk)
    BY <1>5, LosePowerInv
  <2>2. View' = [c \in Callers |-> [state |-> "idle"]]
    BY <1>5 DEF LosePower, View, Progress, NoCall
  <2>3. Store!PowerLoss
    BY <2>1, <2>2 DEF Store!PowerLoss, Store!Idle, View
  <2>4. QED
    BY <2>3 DEF Store!Next
<1>6. CASE UNCHANGED fileVars
  BY <1>6 DEF fileVars, Store!vars
<1>7. QED
  BY <1>1, <1>2, <1>3, <1>4, <1>5, <1>6 DEF FileNext

\* Every operation on the file is one atomic step of the store between call and
\* answer, or none, whatever fails and whoever else is at it.
THEOREM FileImplementsStore == FileSpec => Implements
<1>1. FileInit => Store!Init
  BY DEF FileInit, Store!Init, Store!Idle, Content, Progress, NoCall
<1>2. FileInv /\ [FileNext]_fileVars => [Store!Next]_(Store!vars)
  BY StepRefines
<1>3. QED
  BY <1>1, <1>2, FileInvariant, PTL DEF FileSpec, FileInv, Implements, Store!Spec

-----------------------------------------------------------------------------
(* The parts of FileInvariant *)

\* Lock, files and callers keep their types; in particular a call between
\* creating the temporary file and the rename has a record to save.
THEOREM FileTypes == FileSpec => []FileTypeOK
<1>1. QED
  BY FileInvariant, PTL

\* saveLocked's temporary file, fsync and rename: what is in place of a record is
\* whole and on disk, for any number of callers killed at any step.
THEOREM RecordsAreWhole == FileSpec => []WholeRecords
<1>1. QED
  BY FileInvariant, PTL

-----------------------------------------------------------------------------
(* The record's life: what is renamed is what the operation saves, over the  *)
(* record it has read.                                                       *)

LEMMA SameSteps ==
  /\ \A rec : Life!NewRecord(rec) = NewRecord(rec)
  /\ \A rec, new : Life!Step(rec, new) = Step(rec, new)
BY DEF Life!Step, Step, Life!NewRecord, NewRecord, Life!Edits, Edits, Life!Promotes, Promotes,
       Life!Notes, Notes, Life!PayloadsOf, PayloadsOf, Life!PendingBase, PendingBase,
       Life!Record, Record, Life!Payload, Payload, Life!Settings, Settings

LEMMA SavedStep ==
  ASSUME NEW o \in Ops, NEW rec \in Record \cup {None}, Saved(o, rec) # None
  PROVE  Step(rec, Saved(o, rec))
<1>1. o \in Operation
  BY RegistryOpsAssumption
<1>2. CASE o.kind = "register"
  <2>1. o.upd \in Update /\ o.upd.psk # None
    BY <1>1, <1>2, RegistryOpsAssumption DEF Operation
  <2>2. QED
    BY <1>2, <2>1, RegisteredStep DEF Saved
<1>3. CASE o.kind = "stage"
  <2>1. o.upd \in Update
    BY <1>1, <1>3 DEF Operation
  <2>2. QED
    BY <1>3, <2>1, StagedStep DEF Saved
<1>4. CASE o.kind = "promote"
  BY <1>4, PromotedStep DEF Saved, MayPromote
<1>5. CASE o.kind = "touch"
  <2>1. 0 \in Nat /\ None \in Serials \cup {None}
    OBVIOUS
  <2>2. QED
    BY <1>5, <2>1, UpkeepStep DEF Saved
<1>6. CASE o.kind = "serial"
  <2>1. o.serial \in Serials /\ 0 \in Nat
    BY <1>1, <1>6 DEF Operation
  <2>2. QED
    BY <1>6, <2>1, UpkeepStep DEF Saved
<1>7. CASE o.kind = "floor"
  <2>1. o.sv \in Nat /\ None \in Serials \cup {None}
    BY <1>1, <1>7 DEF Operation
  <2>2. QED
    BY <1>7, <2>1, UpkeepStep DEF Saved
<1>8. CASE o.kind = "load"
  BY <1>8 DEF Saved
<1>9. QED
  BY <1>1, <1>2, <1>3, <1>4, <1>5, <1>6, <1>7, <1>8 DEF Operation

\* The data file changes at the rename and at a power loss only.
LEMMA OnlyRename ==
  ASSUME FileInv, [FileNext]_fileVars, ~UNCHANGED data
  PROVE  \/ LosePower
         \/ \E c \in Callers :
              /\ op[c].pc = "rename" /\ op[c].next # None
              /\ op[c].op \in Ops /\ op[c].next = Saved(op[c].op, Content(data))
              /\ Content(data') = op[c].next
<1>1. ASSUME NEW c \in Callers, CallerStep(c)
      PROVE  op[c].pc = "rename" /\ data' = tmp /\ tmp # None
  BY <1>1, Zenon DEF CallerStep, Lock, LockFails, Load, Create, Encode, Sync, Rename, Unlock, At
<1>2. ASSUME NEW c \in Callers, CallerStep(c)
      PROVE  /\ op[c].pc = "rename" /\ op[c].next # None
             /\ op[c].op \in Ops /\ op[c].next = Saved(op[c].op, Content(data))
             /\ Content(data') = op[c].next
  <2>1. op[c].pc = "rename" /\ data' = tmp /\ tmp # None
    BY <1>1, <1>2
  <2>2. op[c].next # None /\ op[c].op \in Ops
    BY <2>1 DEF FileInv, FileTypeOK, Locals, Saving
  <2>3. op[c].next = Saved(op[c].op, Content(data)) /\ tmp.content = op[c].next
    BY <2>1 DEF FileInv, CriticalSection, Holds, Saving, At
  <2>4. QED
    BY <2>1, <2>2, <2>3 DEF Content
<1>3. ~(\E c \in Callers : Die(c)) /\ ~(\E c \in Callers, o \in Ops : Begin(c, o))
      /\ ~Commit /\ ~UNCHANGED fileVars
  BY Zenon DEF Die, Begin, Commit, fileVars
<1>4. QED
  BY <1>2, <1>3 DEF FileNext

\* The lock, the .tmp and the rename keep the operations in line: for any number
\* of callers that fail or are killed anywhere, the record that callers see only
\* ever takes the registry's steps, until a power loss takes some back.
THEOREM FileFollowsLife == FileSpec => FollowsLife
<1>1. FileInit => Life!Init
  BY DEF FileInit, Life!Init, Content
<1>2. FileInv /\ [FileNext]_fileVars => [Life!Next \/ LosePower]_(Content(data))
  <2> SUFFICES ASSUME FileInv, [FileNext]_fileVars, ~UNCHANGED data, ~LosePower
               PROVE  Step(Content(data), Content(data'))
    BY SameSteps DEF Life!Next, Content
  <2>1. PICK c \in Callers :
          /\ op[c].op \in Ops /\ op[c].next # None
          /\ op[c].next = Saved(op[c].op, Content(data))
          /\ Content(data') = op[c].next
    BY OnlyRename
  <2>2. Content(data) \in Record \cup {None}
    BY ContentType DEF FileInv
  <2>3. QED
    BY <2>1, <2>2, SavedStep
<1>3. QED
  BY <1>1, <1>2, FileInvariant, PTL DEF FileSpec, FileInv, FollowsLife
=============================================================================
