----------------------------- MODULE RecordLife -----------------------------
(***************************************************************************)
(* The life of one device record, whoever reads, edits and promotes it and *)
(* in whatever order: a sequence of the steps of RecordSteps.              *)
(*                                                                         *)
(* DeviceSync (broker, device and operators) and DeviceTools (tools that   *)
(* read before they edit) both implement it, so either may be the other's  *)
(* environment; RegistryFile implements it between two power losses.       *)
(***************************************************************************)
EXTENDS RecordSteps

VARIABLE file  \* the device's record, None before registration

Init == file = None \/ NewRecord(file)

Next == Step(file, file')

Spec == Init /\ [][Next]_file

-----------------------------------------------------------------------------
(* Properties *)

LifeTypeOK == file \in Record \cup {None}

\* An edit is numbered above the payload in force for as long as it is pending.
Ahead == file # None /\ file.pending # None => file.pending.version > file.active.version

\* The numbers of a record (SetPending, MaybePromote): it is never registered
\* again; the number in force never falls and stands for one key and one set of
\* settings; a new pending payload has a number above every number on record,
\* so that a device which holds an older one asks for it.
Rising(rec, new) ==
  /\ new # None
  /\ new.active.version >= rec.active.version
  /\ new.active.version = rec.active.version
       => new.active.psk = rec.active.psk /\ new.active.set = rec.active.set
  /\ new.pending \notin {None, rec.pending}
       => \A p \in PayloadsOf(rec) : new.pending.version > p.version

NumbersRise == [][file # None => Rising(file, file')]_file
=============================================================================
