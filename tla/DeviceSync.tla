----------------------------- MODULE DeviceSync -----------------------------
(***************************************************************************)
(* One device, its record in the registry, the broker's HTTP handlers that *)
(* serve it and the MCP sessions that edit the record.                     *)
(*                                                                         *)
(* A handler is not atomic: it takes the registry lock once per registry   *)
(* call and drops it in between (PSKsFor, MaybePromote, Touch, SetSerial,  *)
(* BumpMinSV, Load), so two requests of the device - one it gave up on and *)
(* the one it retried - and any MCP session interleave between the calls.  *)
(* Each locked call is one action here; RegistryFile justifies that grain. *)
(*                                                                         *)
(* The device firmware is not part of the repository.  It is modelled from *)
(* how the broker uses it: it runs a candidate configuration on top of its *)
(* known-good one, signs with the key of what it runs, reports the version *)
(* of what it runs, commits the candidate when a request it signed as that *)
(* candidate is answered 200, and rolls back when it is answered 401: it   *)
(* cannot tell one 401 from another.                                       *)
(***************************************************************************)
EXTENDS Registry, FiniteSets

CONSTANTS Handlers,           \* request slots of the broker
          Kinds,              \* "sync" (/device/{id}/sync) and "fetch" (credentials, usage)
          StageUpdates,       \* what set_device_pending and publish may be asked to stage
          ProvisionUpdates,   \* what provision_device may be asked to write
          DeviceSerial,       \* the serial in the device's eFuse, None on old firmware
          MaxVersion,         \* bound: no edit is made past this version
          MaxFloor,           \* bound: firmware upgrades of the device
          Faults              \* whether a registry read or write may fail

ASSUME DeviceSyncAssumption ==
  /\ Kinds \subseteq {"sync", "fetch"}
  /\ StageUpdates \subseteq Update
  /\ ProvisionUpdates \subseteq Update
  /\ \A u \in ProvisionUpdates : u.psk # None
  /\ DeviceSerial \in Serials \cup {None}
  /\ MaxVersion \in Nat
  /\ MaxFloor \in Nat
  /\ Faults \in BOOLEAN
  /\ None \notin Handlers

VARIABLES
  file,          \* the device's record, None before registration
  req,           \* req[h]: the request in slot h and the handler's locals
  good,          \* device: its known-good configuration
  cand,          \* device: the candidate it is trying, or None
  floor,         \* device: cwm_min_sv, its anti-rollback floor
  waiting,       \* device: the request whose answer it still waits for, or None
  provisioning,  \* MCP: a provision POSTed to the device, not yet in the registry
  marks          \* history: what happened to pending edits

vars == <<file, req, good, cand, floor, waiting, provisioning, marks>>

-----------------------------------------------------------------------------
(* Data *)

\* What the device runs: the part of a payload it applies.
Config == [version : Nat, psk : Keys \cup {None}, set : Settings]

\* pendingBlob: a payload and the key it is encrypted with.
Blob == [key : Keys, version : Nat, psk : Keys, set : Settings]

Steps == {"idle", "auth", "promote", "touch", "serial", "floor", "load", "reply"}
\* "badSignature" is the 401 of a signature no key on record explains,
\* "unauthorized" a 401 for any other reason.
Statuses == {"none", "ok", "unauthorized", "badSignature", "notFound", "error"}
Marks == {"dropped", "withdrawn", "amended", "reprovisioned", "unrecorded",
          "setback", "unrotated"}

Request ==
  [pc         : Steps,
   kind       : Kinds \cup {None},
   ran        : Config,              \* what the device ran when it signed
   floor      : Nat,                 \* X-Cwm-Min-Sv
   active     : Keys \cup {None},    \* active key as PSKsFor returned it
   viaPending : BOOLEAN,             \* PSKIndex == 1
   status     : Statuses,
   blob       : Blob \cup {None}]

Unprovisioned == [version |-> 0, psk |-> None, set |-> [f \in Fields |-> None]]

IdleRequest ==
  [pc |-> "idle", kind |-> None, ran |-> Unprovisioned, floor |-> 0, active |-> None,
   viaPending |-> FALSE, status |-> "none", blob |-> None]

TypeOK ==
  /\ file \in Record \cup {None}
  /\ req \in [Handlers -> Request]
  /\ good \in Config
  /\ cand \in Config \cup {None}
  /\ floor \in Nat
  /\ waiting \in Handlers \cup {None}
  /\ provisioning \in ProvisionUpdates \cup {None}
  /\ marks \subseteq Marks
  /\ \A h \in Handlers :
       req[h].pc \in {"promote", "touch", "serial", "floor", "load"}
         => file # None /\ req[h].active \in Keys

Init ==
  /\ file = None
  /\ req = [h \in Handlers |-> IdleRequest]
  /\ good = Unprovisioned
  /\ cand = None
  /\ floor = 0
  /\ waiting = None
  /\ provisioning = None
  /\ marks = {}

\* The configuration the device runs, signs with and reports.
Running == IF cand # None THEN cand ELSE good

-----------------------------------------------------------------------------
(* Handler steps.  A registry write that fails is logged and the handler   *)
(* goes on; the record is then what it was.                                *)

At(h, step) == req[h].pc = step

Goto(h, step) == req' = [req EXCEPT ![h].pc = step]

\* The answer is written; the handler's locals are dead.
Reply(h, status, blob) ==
  req' = [req EXCEPT ![h] = [IdleRequest EXCEPT !.pc = "reply", !.kind = req[h].kind,
                                                !.ran = req[h].ran,
                                                !.status = status, !.blob = blob]]

Write(rec) == file' = rec \/ (Faults /\ file' = file)

BrokerOnly == UNCHANGED <<good, cand, floor, waiting, provisioning, marks>>

\* PSKsFor and VerifyMulti: the active key is tried first.
Verified(h) ==
  /\ file # None
  /\ req[h].ran.psk \in KeysOnRecord(file)
  /\ req' = [req EXCEPT ![h].pc = "promote",
                        ![h].active = file.active.psk,
                        ![h].viaPending = req[h].ran.psk # file.active.psk]

\* VerifyMulti refuses: no key on record fits or, whatever the key, the clock,
\* a header or the nonce is wrong, or the nonce was seen before.
Rejected(h) ==
  /\ file # None
  /\ \/ Reply(h, "unauthorized", None)
     \/ req[h].ran.psk \notin KeysOnRecord(file) /\ Reply(h, "badSignature", None)

Authenticate(h) ==
  /\ At(h, "auth")
  /\ \/ Verified(h)
     \/ Rejected(h)
     \/ file = None /\ Reply(h, "notFound", None)
     \/ Faults /\ Reply(h, "error", None)
  /\ UNCHANGED file
  /\ BrokerOnly

PromoteStep(h) ==
  /\ At(h, "promote")
  /\ IF MayPromote(file, req[h].ran.version, req[h].viaPending)
     THEN Write(Promoted(file))
     ELSE UNCHANGED file
  /\ req' = [req EXCEPT ![h].pc = "touch", ![h].viaPending = FALSE]
  /\ BrokerOnly

\* verifyCredentialRequest ends here and the credentials or the usage are
\* answered: found, an error of theirs, or a token the provider rejects.
\* handleDeviceSync goes on.
TouchStep(h) ==
  /\ At(h, "touch")
  /\ Write(Touched(file))
  /\ \/ req[h].kind = "sync" /\ Goto(h, "serial")
     \/ /\ req[h].kind # "sync"
        /\ \E status \in {"ok", "unauthorized", "error"} : Reply(h, status, None)
  /\ BrokerOnly

SerialStep(h) ==
  /\ At(h, "serial")
  /\ Write(WithSerial(file, DeviceSerial))
  /\ Goto(h, "floor")
  /\ BrokerOnly

FloorStep(h) ==
  /\ At(h, "floor")
  /\ Write(WithFloor(file, req[h].floor))
  /\ Goto(h, "load")
  /\ BrokerOnly

\* The blob is encrypted with the active key that PSKsFor returned, the
\* payload is the pending one of this later read.
PendingBlob(h) ==
  IF file.pending # None /\ req[h].ran.version < file.pending.version
  THEN [key |-> req[h].active, version |-> file.pending.version,
        psk |-> file.pending.psk, set |-> file.pending.set]
  ELSE None

AnswerStep(h) ==
  /\ At(h, "load")
  /\ \/ Reply(h, "ok", PendingBlob(h))
     \/ Faults /\ Reply(h, "error", None)
  /\ UNCHANGED file
  /\ BrokerOnly

HandlerStep(h) ==
  \/ Authenticate(h)
  \/ PromoteStep(h)
  \/ TouchStep(h)
  \/ SerialStep(h)
  \/ FloorStep(h)
  \/ AnswerStep(h)

\* The request or its answer is lost, the device has stopped waiting for it,
\* or the broker process died or handed the port over with the handler running.
Lose(h) ==
  /\ ~At(h, "idle")
  /\ req' = [req EXCEPT ![h] = IdleRequest]
  /\ waiting' = IF waiting = h THEN None ELSE waiting
  /\ UNCHANGED <<file, good, cand, floor, provisioning, marks>>

-----------------------------------------------------------------------------
(* MCP sessions *)

\* History of an edit: an outstanding pending was discarded as a no-op; the key
\* it offered is on record no more; or the edit amended an outstanding rotation.
StageMarks(rec, next) ==
  {m \in Marks :
     \/ m = "dropped" /\ rec.pending # None /\ next.pending = None
     \/ m = "withdrawn" /\ PendingKey(rec) \notin KeysOnRecord(next) \cup {None}
     \/ m = "amended" /\ PendingKey(rec) # None /\ PendingKey(next) = PendingKey(rec)}

\* set_device_pending, publish_firmware, revert_firmware: one SetPending.
Stage(upd) ==
  /\ file # None
  /\ NextVersion(file) <= MaxVersion
  /\ file' = Staged(file, upd)
  /\ marks' = marks \cup StageMarks(file, Staged(file, upd))
  /\ UNCHANGED <<req, good, cand, floor, waiting, provisioning>>

\* provision_device, first half: the device accepts the POST and restarts with
\* the new configuration, version 0; settings the POST leaves out are kept.
Provision(upd) ==
  /\ provisioning = None
  /\ file # None => NextVersion(file) <= MaxVersion
  /\ good' = [version |-> 0, psk |-> upd.psk, set |-> Overlay(good.set, upd.set)]
  /\ cand' = None
  /\ waiting' = None
  /\ provisioning' = upd
  /\ marks' = marks \cup (IF good.psk = None THEN {} ELSE {"reprovisioned"})
  /\ UNCHANGED <<file, req, floor>>

\* A second half that replaces the record of a device that exists.
RecordAnew ==
  /\ provisioning # None
  /\ file' = Registered(provisioning)
  /\ provisioning' = None
  /\ UNCHANGED <<req, good, cand, floor, waiting, marks>>

\* provision_device, second half: Register, and SetPending if the device exists.
RecordProvision ==
  /\ provisioning # None
  /\ \/ /\ file = None
        /\ file' = Registered(provisioning)
        /\ UNCHANGED marks
     \/ /\ file # None
        /\ file' = Staged(file, provisioning)
        /\ marks' = marks \cup StageMarks(file, Staged(file, provisioning))
  /\ provisioning' = None
  /\ UNCHANGED <<req, good, cand, floor, waiting>>

\* The session ends, or the registry write fails, after the device took the POST.
ProvisionUnrecorded ==
  /\ Faults
  /\ provisioning # None
  /\ provisioning' = None
  /\ marks' = marks \cup {"unrecorded"}
  /\ UNCHANGED <<file, req, good, cand, floor, waiting>>

\* register_device for a device that is already configured.
RegisterDevice ==
  /\ file = None /\ provisioning = None
  /\ good.psk # None
  /\ file' = Registered([psk |-> good.psk, set |-> good.set, minSV |-> 0])
  /\ UNCHANGED <<req, good, cand, floor, waiting, provisioning, marks>>

-----------------------------------------------------------------------------
(* The device *)

\* A poll, also while an earlier request has not been answered.
Poll(h, kind) ==
  /\ At(h, "idle")
  /\ Running.psk # None
  /\ req' = [req EXCEPT ![h] = [IdleRequest EXCEPT !.pc = "auth", !.kind = kind,
                                                   !.ran = Running, !.floor = floor]]
  /\ waiting' = h
  /\ UNCHANGED <<file, good, cand, floor, provisioning, marks>>

\* The part of a 200 answer the device can decrypt with the key it signed with.
Readable(h) == req[h].blob # None /\ req[h].blob.key = req[h].ran.psk

\* 200: commit the candidate, then try the pending payload.
Accept(h) ==
  /\ waiting = h /\ At(h, "reply") /\ req[h].status = "ok"
  /\ good' = Running
  /\ cand' = IF Readable(h)
             THEN [version |-> req[h].blob.version, psk |-> req[h].blob.psk,
                   set |-> Overlay(Running.set, req[h].blob.set)]
             ELSE None
  /\ waiting' = None
  /\ req' = [req EXCEPT ![h] = IdleRequest]
  /\ UNCHANGED <<file, floor, provisioning, marks>>

\* A configuration is given up once it is neither active nor pending.
GivenUp(rec, config) ==
  rec # None =>
    /\ config.version # rec.active.version
    /\ rec.pending # None => config.version # rec.pending.version

\* History of a roll-back: of a candidate the record had not given up, and with
\* it of a key rotation.
RollbackMarks ==
  {m \in Marks :
     /\ cand # None /\ ~GivenUp(file, cand)
     /\ m = IF cand.psk = good.psk THEN "setback" ELSE "unrotated"}

\* 401: the candidate is rolled back.
RollBack(h) ==
  /\ req[h].status \in {"unauthorized", "badSignature"}
  /\ cand' = None
  /\ marks' = marks \cup RollbackMarks

\* 404, 5xx: the device tries again later.
Retry(h) ==
  /\ req[h].status \in {"notFound", "error"}
  /\ UNCHANGED <<cand, marks>>

Refused(h) ==
  /\ waiting = h /\ At(h, "reply")
  /\ RollBack(h) \/ Retry(h)
  /\ waiting' = None
  /\ req' = [req EXCEPT ![h] = IdleRequest]
  /\ UNCHANGED <<file, good, floor, provisioning>>

\* A firmware image with a higher floor boots.
InstallFirmware ==
  /\ floor < MaxFloor
  /\ floor' = floor + 1
  /\ UNCHANGED <<file, req, good, cand, waiting, provisioning, marks>>

Device ==
  \/ \E h \in Handlers : Accept(h) \/ Refused(h) \/ \E k \in Kinds : Poll(h, k)
  \/ InstallFirmware

Operator ==
  \/ \E u \in StageUpdates : Stage(u)
  \/ \E u \in ProvisionUpdates : Provision(u)
  \/ RecordProvision
  \/ ProvisionUnrecorded
  \/ RegisterDevice

Next ==
  \/ \E h \in Handlers : HandlerStep(h) \/ Lose(h)
  \/ Operator
  \/ Device

Spec == Init /\ [][Next]_vars

(***************************************************************************)
(* Fairness, with one request slot: the device keeps polling /sync (its    *)
(* sync period), a handler that is not killed runs on (net/http            *)
(* goroutines), and losses, restarts and refusals for the clock or the     *)
(* nonce do not for ever hit the sync requests at the same step, neither   *)
(* those of the candidate nor those of the known-good configuration.  An   *)
(* answer nobody waits for frees its slot.  Operators, firmware installs   *)
(* and losses owe nothing.                                                 *)
(***************************************************************************)
InSync(h) == req[h].kind = "sync"

LiveSpec ==
  /\ Spec
  /\ \A h \in Handlers :
       /\ WF_vars(HandlerStep(h) \/ Accept(h) \/ Refused(h))
       /\ WF_vars(At(h, "reply") /\ waiting # h /\ Lose(h))
       /\ WF_vars(Poll(h, "sync"))
       /\ \A trial \in BOOLEAN :
            /\ SF_vars(InSync(h) /\ (cand # None) = trial /\ Authenticate(h) /\ Verified(h))
            /\ SF_vars(InSync(h) /\ (cand # None) = trial /\ PromoteStep(h))
       /\ SF_vars(InSync(h) /\ TouchStep(h))
       /\ SF_vars(InSync(h) /\ SerialStep(h))
       /\ SF_vars(InSync(h) /\ FloorStep(h))
       /\ SF_vars(InSync(h) /\ AnswerStep(h))
       /\ SF_vars(InSync(h) /\ Accept(h))

-----------------------------------------------------------------------------
(* Safety *)

\* The device runs every setting the payload has an opinion about, and its key.
Runs(config, payload) ==
  /\ config.psk = payload.psk
  /\ \A f \in Fields : payload.set[f] # None => config.set[f] = payload.set[f]

\* The highest version number on record.
Newest(rec) ==
  IF rec = None THEN 0
  ELSE IF rec.pending # None THEN rec.pending.version ELSE rec.active.version

\* A configuration held somewhere - by the device, in a request it signed, in an
\* answer on its way - is no newer than the record, and if it bears the number
\* of the pending payload it is the pending payload.
Accounted(rec, config) ==
  /\ config.version <= Newest(rec)
  /\ rec # None /\ rec.pending # None /\ config.version = rec.pending.version
       => Runs(config, rec.pending)

\* A pending edit is numbered above the active payload, whatever edits,
\* promotions and failed writes came before (SetPending, MaybePromote).
PendingAhead ==
  file # None /\ file.pending # None => file.pending.version > file.active.version

\* What promotion relies on: the version header stands for one payload.  Edits
\* are renumbered under the registry lock, answers and requests in flight are
\* older than they.  Holds until an outstanding edit is discarded.
VersionIdentifiesPayload ==
  /\ PendingAhead
  /\ "dropped" \notin marks =>
       /\ Accounted(file, good)
       /\ cand # None => Accounted(file, cand)
       /\ \A h \in Handlers :
            /\ Accounted(file, req[h].ran)
            /\ req[h].blob # None => Accounted(file, req[h].blob)

\* The promotion rule of the package comment of registry.go: a pending payload
\* becomes active only on a request of a device that was running that very
\* payload, key and settings, when it signed.  Request handlers overlap and the
\* verifier uses keys read before the promotion.  Holds as long as no
\* outstanding edit has been discarded: see PromotesOnlyWhatDeviceRan.
PromotionBy(h) == At(h, "promote") /\ Runs(req[h].ran, file'.active)

PromotionIsProved ==
  [][file # None /\ file'.active.version # file.active.version /\ "dropped" \notin marks
       => \E h \in Handlers : PromotionBy(h)]_vars

\* The same without the proviso, as the package comment states it.
PromotesOnlyWhatDeviceRan ==
  [][file # None /\ file'.active.version # file.active.version
       => \E h \in Handlers : PromotionBy(h)]_vars

\* The device and the registry agree whenever nothing is outstanding: with no
\* edit pending, what list_devices shows as active is what the device runs.
\* A 401 for the clock or the nonce that reaches a candidate the record stands
\* by sets the device back, and then it may be behind.
Agreement ==
  (/\ file # None /\ provisioning = None
   /\ marks \cap {"dropped", "reprovisioned", "setback", "unrotated"} = {}
   /\ file.pending = None)
    => Runs(Running, file.active)

\* Key rotation never locks the device out: the key it signs with is the
\* active or the offered one, through lost answers, overlapping requests,
\* failed writes, refusals and rollbacks, unless the operator withdrew an
\* offered key, the registry missed a provision, or a 401 for the clock or the
\* nonce undid a rotation under way.
DeviceReachable ==
  (/\ file # None /\ provisioning = None
   /\ marks \cap {"dropped", "withdrawn", "unrecorded", "unrotated"} = {})
    => Running.psk \in KeysOnRecord(file)

\* The keys are read once, before promotions and edits by others (PSKsFor,
\* VerifyMulti), yet they never make the device roll back what the record stands
\* by: as long as a request refused for its signature can be answered, the
\* record has given up the payload that signed it and does not come back to it.
BadSignatureIsDue ==
  "dropped" \notin marks =>
    \A h \in Handlers : req[h].status = "badSignature" => GivenUp(file, req[h].ran)

\* Whatever requests, edits, provisions and failed writes do to the record, they
\* do by registering it once, editing, promoting and noting: see RecordLife.
Life == INSTANCE RecordLife

FollowsLife == Life!Spec

\* The numbers on record, through all of these: see RecordLife.
NumbersRise == Life!NumbersRise

\* An edit reaches the device and becomes active: the registry does not keep a
\* pending payload for ever, whatever requests and answers are lost or refused,
\* unless the operator disturbs it (drops it, changes a rotation that is under
\* way), the device is provisioned anew, or a rotation undone by a 401 has left
\* the device with a key that is active no more.
Outstanding ==
  /\ file # None /\ file.pending # None
  /\ marks \subseteq {"setback", "unrotated"}
  /\ good.psk = file.active.psk

EditsSettle == Outstanding ~> ~Outstanding

\* handleDeviceSync mirrors the device's anti-rollback floor: after a firmware
\* boots, the record gets to its floor, and gets back to it when the promotion of
\* an older edit has lowered it (see FloorNeverLowered).  Nothing is promised of
\* a device whose key the record does not know.
Mirrored(f) == file # None => file.active.minSV >= f

FloorIsMirrored ==
  \A f \in 1 .. MaxFloor :
    (floor >= f) ~> (Mirrored(f) \/ Running.psk \notin KeysOnRecord(file))

\* BumpMinSV's comment: the anti-rollback floor on record never goes down.
FloorNeverLowered ==
  [][file # None => file'.active.minSV >= file.active.minSV]_vars

\* handleDeviceSync's comment on the pending blob: the device decrypts it with
\* what it already has, the key it signed the request with.
BlobReadable ==
  \A h \in Handlers : req[h].blob # None => Readable(h)
=============================================================================
