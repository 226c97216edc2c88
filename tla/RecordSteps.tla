---------------------------- MODULE RecordSteps ----------------------------
(***************************************************************************)
(* What an operation of internal/registry may do to a record, seen from    *)
(* outside: the ways in which one record may follow another.  Which edit   *)
(* merges into what, and when a pending payload is promoted, is left open; *)
(* Registry says it.                                                       *)
(***************************************************************************)
EXTENDS Registry

PayloadsOf(rec) == {rec.active, rec.pending} \ {None}

\* Register: nothing is pending, and the device was never heard of.
NewRecord(rec) ==
  /\ rec \in Record
  /\ rec.active.version = 1 /\ rec.pending = None
  /\ ~rec.seen /\ rec.serial = None

\* SetPending: what is in force stays; what becomes pending has a number above
\* all on record, is a change, and has no lower floor than what it amends.  An
\* edit may also leave nothing to be done.
Edits(rec, new) ==
  /\ new.active = rec.active /\ new.seen = rec.seen /\ new.serial = rec.serial
  /\ new.pending # None =>
       /\ \A p \in PayloadsOf(rec) : new.pending.version > p.version
       /\ \E m \in {"psk", "set", "minSV"} : new.pending[m] # rec.active[m]
       /\ new.pending.minSV >= PendingBase(rec).minSV

\* MaybePromote: the pending payload gets in force as it is.
Promotes(rec, new) ==
  /\ rec.pending # None
  /\ new.active = rec.pending /\ new.pending = None
  /\ new.seen /\ new.serial = rec.serial

\* Touch, SetSerial, BumpMinSV: only the floor, the contact and the serial
\* change; none of them is lowered or forgotten.
Notes(rec, new) ==
  /\ new.pending = rec.pending
  /\ new.active = [rec.active EXCEPT !.minSV = new.active.minSV]
  /\ new.active.minSV >= rec.active.minSV
  /\ rec.seen => new.seen
  /\ rec.serial # None => new.serial # None

\* A record is registered once and never removed.
Step(rec, new) ==
  IF rec = None
  THEN NewRecord(new)
  ELSE new \in Record /\ (Edits(rec, new) \/ Promotes(rec, new) \/ Notes(rec, new))
=============================================================================
