---------------------------- MODULE RegistryOps ----------------------------
(***************************************************************************)
(* The operations of internal/registry as their callers see them: for each *)
(* one, what it saves, given the record it finds, and what it answers.     *)
(***************************************************************************)
EXTENDS Registry

CONSTANTS Callers,  \* concurrent calls, in the broker and in MCP sessions
          Ops       \* the operations they may ask for

Operation ==
  [kind : {"load", "touch"}]
    \cup [kind : {"register", "stage"}, upd : Update]
    \cup [kind : {"promote"}, version : Nat, viaPending : BOOLEAN]
    \cup [kind : {"serial"}, serial : Serials]
    \cup [kind : {"floor"}, sv : Nat]

ASSUME RegistryOpsAssumption ==
  /\ Ops \subseteq Operation
  /\ None \notin Ops
  /\ \A op \in Ops : op.kind = "register" => op.upd.psk # None

\* The record an operation saves, None if it saves nothing.
Saved(op, rec) ==
  CASE op.kind = "register" /\ rec = None -> Registered(op.upd)
    [] op.kind = "stage" /\ rec # None -> Staged(rec, op.upd)
    [] op.kind = "touch" /\ rec # None -> Touched(rec)
    [] op.kind = "promote" /\ rec # None /\ MayPromote(rec, op.version, op.viaPending)
         -> Promoted(rec)
    [] op.kind = "serial" /\ rec # None /\ rec.serial # op.serial
         -> WithSerial(rec, op.serial)
    [] op.kind = "floor" /\ rec # None /\ op.sv > rec.active.minSV
         -> WithFloor(rec, op.sv)
    [] OTHER -> None

\* The bookkeeping operations ignore an unknown device.
Status(op, rec) ==
  CASE op.kind = "register" /\ rec # None -> "exists"
    [] op.kind \in {"load", "stage", "promote"} /\ rec = None -> "notFound"
    [] OTHER -> "ok"

After(op, rec) == IF Saved(op, rec) = None THEN rec ELSE Saved(op, rec)

\* What the caller gets: the record as the operation left it.
Answer(op, rec) == [status |-> Status(op, rec), record |-> After(op, rec)]
Failed == [status |-> "error", record |-> None]
=============================================================================
