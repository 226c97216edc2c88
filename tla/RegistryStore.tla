--------------------------- MODULE RegistryStore ---------------------------
(***************************************************************************)
(* What internal/registry promises its callers for one device: every       *)
(* operation reads and replaces the record in one step between its call    *)
(* and its return, or fails and changes nothing; a caller that dies has    *)
(* performed its operation or not.  A power loss may take back recent      *)
(* operations, never part of one.                                          *)
(*                                                                         *)
(* DeviceSync takes these operations as its steps; RegistryFile implements *)
(* them with a lock file, a temporary file and a rename.                   *)
(***************************************************************************)
EXTENDS RegistryOps

\* Where a caller is.
Idle == [state |-> "idle"]
Called(op) == [state |-> "called", op |-> op]
Done(answer) == [state |-> "done", answer |-> answer]

-----------------------------------------------------------------------------

VARIABLES record,   \* the record every operation sees
          durable,  \* the record a power loss goes back to
          call      \* call[c]: where caller c is

vars == <<record, durable, call>>

Init ==
  /\ record = None
  /\ durable = None
  /\ call = [c \in Callers |-> Idle]

Call(c, op) ==
  /\ call[c] = Idle
  /\ call' = [call EXCEPT ![c] = Called(op)]
  /\ UNCHANGED <<record, durable>>

Apply(c, op) ==
  /\ call[c] = Called(op)
  /\ record' = After(op, record)
  /\ call' = [call EXCEPT ![c] = Done(Answer(op, record))]
  /\ UNCHANGED durable

Fail(c, op) ==
  /\ call[c] = Called(op)
  /\ call' = [call EXCEPT ![c] = Done(Failed)]
  /\ UNCHANGED <<record, durable>>

\* A return, or the death of the caller's process.
Leave(c) ==
  /\ call' = [call EXCEPT ![c] = Idle]
  /\ UNCHANGED <<record, durable>>

Persist ==
  /\ durable' = record
  /\ UNCHANGED <<record, call>>

PowerLoss ==
  /\ record' = durable
  /\ call' = [c \in Callers |-> Idle]
  /\ UNCHANGED durable

Next ==
  \/ \E c \in Callers, op \in Ops : Call(c, op) \/ Apply(c, op) \/ Fail(c, op)
  \/ \E c \in Callers : Leave(c)
  \/ Persist
  \/ PowerLoss

Spec == Init /\ [][Next]_vars
=============================================================================
