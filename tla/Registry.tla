------------------------------ MODULE Registry ------------------------------
(***************************************************************************)
(* The per-device record kept by internal/registry and the functions that  *)
(* its operations apply to it.  Everything here is a pure function from    *)
(* the stored record to the next one: the operations of registry.go read   *)
(* the record, compute, and write the whole record back under one flock.   *)
(* Which steps can interleave is the business of the modules that use this *)
(* one: DeviceSync takes each locked operation as one step, RegistryFile   *)
(* opens the step up into lock, read, temporary file, rename and crash.    *)
(*                                                                         *)
(* A ConfigPayload has some fifteen optional settings that are treated     *)
(* alike (broker_url, city, br_day, ..., the firmware fields): copied by a *)
(* merge when the update holds an opinion, compared by payloadEquivalent,  *)
(* sent to the device.  They are the function "set", over an arbitrary set *)
(* Fields.  The three members with rules of their own stay apart: version, *)
(* psk and minSV.                                                          *)
(***************************************************************************)
EXTENDS Naturals

CONSTANTS Keys,     \* pre-shared keys (psk_hex)
          Fields,   \* names of the optional settings
          Values,   \* what a setting may hold
          Serials,  \* factory serials a device may report
          None      \* "no opinion", "no pending", "no such record"

-----------------------------------------------------------------------------
(* Data *)

Settings == [Fields -> Values \cup {None}]

\* A stored ConfigPayload: psk_hex is required by register, so never empty.
Payload == [version : Nat, psk : Keys, set : Settings, minSV : Nat]

\* What a caller of SetPending supplies: any member may be "no opinion".
Update == [psk : Keys \cup {None}, set : Settings, minSV : Nat]

\* One device file.  LastSeen is kept as "has been seen".
Record == [active  : Payload,
           pending : Payload \cup {None},
           seen    : BOOLEAN,
           serial  : Serials \cup {None}]

ASSUME NoneAssumption ==
  None \notin Keys \cup Values \cup Serials \cup Payload \cup Update \cup Record

-----------------------------------------------------------------------------
(* Payloads *)

Overlay(base, upd) == [f \in Fields |-> IF upd[f] = None THEN base[f] ELSE upd[f]]

Larger(m, n) == IF m < n THEN n ELSE m

\* A merge that takes an absent psk for an opinion.
MergePayloadTakesKey(base, upd) ==
  [version |-> base.version,
   psk     |-> upd.psk,
   set     |-> Overlay(base.set, upd.set),
   minSV   |-> Larger(base.minSV, upd.minSV)]

MergePayload(base, upd) ==
  [version |-> base.version,
   psk     |-> IF upd.psk = None THEN base.psk ELSE upd.psk,
   set     |-> Overlay(base.set, upd.set),
   minSV   |-> Larger(base.minSV, upd.minSV)]

\* Everything but the version.
PayloadEquivalent(p, q) == p.psk = q.psk /\ p.set = q.set /\ p.minSV = q.minSV

-----------------------------------------------------------------------------
(* Operations on a record *)

\* Register: version 1, nothing pending.  The caller holds a psk.
Registered(upd) ==
  [active  |-> [version |-> 1, psk |-> upd.psk, set |-> upd.set, minSV |-> upd.minSV],
   pending |-> None,
   seen    |-> FALSE,
   serial  |-> None]

\* Numbering that forgets an outstanding pending.
NextVersionFromActive(rec) == rec.active.version + 1

NextVersion(rec) ==
  IF rec.pending # None /\ rec.pending.version >= rec.active.version + 1
  THEN rec.pending.version + 1
  ELSE rec.active.version + 1

\* The payload a further edit starts from.
PendingBase(rec) == IF rec.pending # None THEN rec.pending ELSE rec.active

Staged(rec, upd) ==
  LET merged == [MergePayload(PendingBase(rec), upd) EXCEPT !.version = NextVersion(rec)]
  IN  [rec EXCEPT !.pending = IF PayloadEquivalent(merged, rec.active) THEN None ELSE merged]

\* MaybePromote that insists on a signature with the pending key, also for a
\* payload that does not change the key.
MayPromoteOnPendingKey(rec, observed, usedPending) ==
  /\ rec.pending # None
  /\ rec.pending.version = observed
  /\ usedPending

\* MaybePromote without the comparison of the version header.
MayPromoteOnKey(rec, observed, usedPending) ==
  /\ rec.pending # None
  /\ usedPending \/ rec.pending.psk = rec.active.psk

\* MaybePromote on any authenticated request.
MayPromoteOnContact(rec, observed, usedPending) == rec.pending # None

MayPromote(rec, observed, usedPending) ==
  /\ rec.pending # None
  /\ rec.pending.version = observed
  /\ usedPending \/ rec.pending.psk = rec.active.psk

Promoted(rec) == [rec EXCEPT !.active = rec.pending, !.pending = None, !.seen = TRUE]

Touched(rec) == [rec EXCEPT !.seen = TRUE]

WithSerial(rec, serial) == [rec EXCEPT !.serial = IF serial = None THEN @ ELSE serial]

\* BumpMinSV with its comparison turned round.
WithFloorLowered(rec, sv) ==
  [rec EXCEPT !.active.minSV = IF sv < @ THEN sv ELSE @]

WithFloor(rec, sv) == [rec EXCEPT !.active.minSV = Larger(@, sv)]

\* The pending key a verifier is offered: only when it differs from the active one.
PendingKey(rec) ==
  IF rec.pending # None /\ rec.pending.psk # rec.active.psk THEN rec.pending.psk ELSE None

\* PSKsFor that offers a verifier the active key only.
KeysOnActive(rec) == {rec.active.psk}

KeysOnRecord(rec) == {rec.active.psk, PendingKey(rec)} \ {None}
=============================================================================
