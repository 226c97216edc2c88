---------------------------- MODULE RegistryFile ----------------------------
(***************************************************************************)
(* How internal/registry carries out one operation on one device file:     *)
(* flock on a sibling .lock file, read and parse, build the new record,    *)
(* write it to the shared <file>.tmp, fsync, rename over the data file,    *)
(* unlock.  Any of the system calls may fail; the process of a caller may  *)
(* die at any point, which drops its lock and leaves its .tmp behind; the  *)
(* machine may lose power.                                                 *)
(*                                                                         *)
(* The directory is never fsynced, so a power loss may undo renames        *)
(* (durable lags behind data), and a file whose content was not fsynced    *)
(* comes back torn.                                                        *)
(***************************************************************************)
EXTENDS RegistryOps

CONSTANTS Torn,       \* the content of a file that is not a whole record
          MaxVersion  \* bound: no edit is asked for past this version

VARIABLES
  data,      \* <id>.toml
  disk,      \* <id>.toml as a power loss would leave it
  tmp,       \* <id>.toml.tmp
  holder,    \* the caller that holds the flock, or None
  op         \* op[c]: the operation in progress and the caller's locals

fileVars == <<data, disk, tmp, holder, op>>

-----------------------------------------------------------------------------
(* Data *)

File == [content : Record \cup {Torn}, synced : BOOLEAN]

ASSUME RegistryFileAssumption ==
  /\ Torn \notin Record \cup {None}
  /\ MaxVersion \in Nat
  /\ None \notin Callers \cup File

\* What an operation reads: the record, or None when there is no file.
Content(file) == IF file = None THEN None ELSE file.content

\* A file after a power loss.
Survives(file) ==
  IF file = None \/ file.synced THEN file ELSE [content |-> Torn, synced |-> TRUE]

Points == {"idle", "lock", "load", "create", "write", "sync", "rename", "unlock"}
Answers == [status : {"ok", "exists", "notFound", "error"}, record : Record \cup {None}]

Locals ==
  [pc     : Points,
   op     : Ops \cup {None},
   next   : Record \cup {None},     \* dev, as saveLocked gets it
   answer : Answers \cup {None}]

\* In saveLocked.
Saving == {"create", "write", "sync", "rename"}

NoCall == [pc |-> "idle", op |-> None, next |-> None, answer |-> None]

FileTypeOK ==
  /\ data \in File \cup {None}
  /\ disk \in File \cup {None}
  /\ tmp \in File \cup {None}
  /\ holder \in Callers \cup {None}
  /\ op \in [Callers -> Locals]
  /\ \A c \in Callers : op[c].pc # "idle" => op[c].op # None
  /\ \A c \in Callers : op[c].pc \in Saving => op[c].next # None

FileInit ==
  /\ data = None
  /\ disk = None
  /\ tmp = None
  /\ holder = None
  /\ op = [c \in Callers |-> NoCall]

-----------------------------------------------------------------------------
(* One operation *)

At(c, pc) == op[c].pc = pc
Goto(c, pc) == op' = [op EXCEPT ![c].pc = pc]
Finish(c, answer) == op' = [op EXCEPT ![c].pc = "unlock", ![c].answer = answer]

Begin(c, o) ==
  /\ At(c, "idle")
  /\ o.kind = "stage" /\ Content(data) \in Record => NextVersion(Content(data)) <= MaxVersion
  /\ op' = [op EXCEPT ![c] = [NoCall EXCEPT !.pc = "lock", !.op = o]]
  /\ UNCHANGED <<data, disk, tmp, holder>>

\* A lock that two callers may hold.
LockIgnored == TRUE

\* The flock is exclusive, also between goroutines of one process: each call
\* opens the lock file anew.
LockFree == holder = None

Lock(c) ==
  /\ At(c, "lock")
  /\ LockFree
  /\ holder' = c
  /\ Goto(c, "load")
  /\ UNCHANGED <<data, disk, tmp>>

\* The lock file cannot be opened or locked.
LockFails(c) ==
  /\ At(c, "lock")
  /\ Finish(c, Failed)
  /\ UNCHANGED <<data, disk, tmp, holder>>

\* Going on to save without the new record.
LoadForgets(c) ==
  /\ At(c, "load")
  /\ Content(data) # Torn
  /\ Goto(c, IF Saved(op[c].op, Content(data)) = None THEN "unlock" ELSE "create")
  /\ UNCHANGED <<data, disk, tmp, holder>>

\* A read or parse error ends the call, and so does an operation that has
\* nothing to save.
Load(c) ==
  /\ At(c, "load")
  /\ LET rec == Content(data)
     IN \/ Finish(c, Failed)
        \/ /\ rec # Torn
           /\ Saved(op[c].op, rec) = None
           /\ Finish(c, Answer(op[c].op, rec))
        \/ /\ rec # Torn
           /\ Saved(op[c].op, rec) # None
           /\ op' = [op EXCEPT ![c].pc = "create", ![c].next = Saved(op[c].op, rec),
                               ![c].answer = Answer(op[c].op, rec)]
  /\ UNCHANGED <<data, disk, tmp, holder>>

\* O_CREATE | O_TRUNC.
Create(c) ==
  /\ At(c, "create")
  /\ \/ tmp' = [content |-> Torn, synced |-> FALSE] /\ Goto(c, "write")
     \/ UNCHANGED tmp /\ Finish(c, Failed)
  /\ UNCHANGED <<data, disk, holder>>

\* Later errors remove the .tmp.
GiveUp(c) == tmp' = None /\ Finish(c, Failed)

Encode(c) ==
  /\ At(c, "write")
  /\ \/ tmp' = [content |-> op[c].next, synced |-> FALSE] /\ Goto(c, "sync")
     \/ GiveUp(c)
  /\ UNCHANGED <<data, disk, holder>>

\* Close without fsync.
Unflushed(file) == file

\* fsync and close.
Flushed(file) == IF file = None THEN None ELSE [file EXCEPT !.synced = TRUE]

Sync(c) ==
  /\ At(c, "sync")
  /\ \/ tmp' = Flushed(tmp) /\ Goto(c, "rename")
     \/ GiveUp(c)
  /\ UNCHANGED <<data, disk, holder>>

Rename(c) ==
  /\ At(c, "rename")
  /\ \/ tmp # None /\ data' = tmp /\ tmp' = None /\ Goto(c, "unlock")
     \/ GiveUp(c) /\ UNCHANGED data
  /\ UNCHANGED <<disk, holder>>

\* An error path that returns before the unlock.
UnlockUnlessFailed(c) ==
  /\ At(c, "unlock")
  /\ holder' = IF holder = c /\ op[c].answer # Failed THEN None ELSE holder
  /\ op' = [op EXCEPT ![c] = NoCall]
  /\ UNCHANGED <<data, disk, tmp>>

\* Deferred unlock and close, then the answer.
Unlock(c) ==
  /\ At(c, "unlock")
  /\ holder' = IF holder = c THEN None ELSE holder
  /\ op' = [op EXCEPT ![c] = NoCall]
  /\ UNCHANGED <<data, disk, tmp>>

CallerStep(c) ==
  \/ Lock(c)
  \/ LockFails(c)
  \/ Load(c)
  \/ Create(c)
  \/ Encode(c)
  \/ Sync(c)
  \/ Rename(c)
  \/ Unlock(c)

-----------------------------------------------------------------------------
(* The environment *)

\* The caller's process is killed: the kernel drops the flock.
Die(c) ==
  /\ ~At(c, "idle")
  /\ holder' = IF holder = c THEN None ELSE holder
  /\ op' = [op EXCEPT ![c] = NoCall]
  /\ UNCHANGED <<data, disk, tmp>>

\* The file system commits the directory.
Commit ==
  /\ disk' = data
  /\ UNCHANGED <<data, tmp, holder, op>>

\* All callers are gone and a .tmp may be left.
LosePower ==
  /\ data' = Survives(disk)
  /\ disk' = Survives(disk)
  /\ tmp' \in {None, [content |-> Torn, synced |-> FALSE]}
  /\ holder' = None
  /\ op' = [c \in Callers |-> NoCall]

FileNext ==
  \/ \E c \in Callers : CallerStep(c) \/ Die(c) \/ \E o \in Ops : Begin(c, o)
  \/ Commit
  \/ LosePower

FileSpec == FileInit /\ [][FileNext]_fileVars

\* The callers' goroutines are scheduled.
FileLiveSpec == FileSpec /\ \A c \in Callers : WF_fileVars(CallerStep(c))

-----------------------------------------------------------------------------
(* Properties *)

\* No reader, after any crash, finds part of a record: saveLocked's order of
\* write, fsync and rename.
WholeRecords == \A file \in {data, disk} : file = None \/ (file.content # Torn /\ file.synced)

\* The critical section: what a caller is about to rename over the data file is
\* its own whole record, computed from the record that is still there, in spite
\* of the .tmp path that all callers share and the .tmp files crashes leave.
Holds(c) == op[c].pc \in Saving \cup {"load"}

CriticalSection ==
  \A c \in Callers : Holds(c) =>
    /\ holder = c
    /\ op[c].pc \in Saving
         => /\ op[c].next = Saved(op[c].op, Content(data))
            /\ op[c].answer = Answer(op[c].op, Content(data))
    /\ At(c, "sync") \/ At(c, "rename") => tmp # None /\ tmp.content = op[c].next
    /\ At(c, "rename") => tmp.synced

\* The lock is let go on every path, with whatever system call failed.
LockReleased == \A c \in Callers : holder = c ~> holder # c

\* RegistryStore's view: an operation has happened once its answer is decided,
\* and for one that saves, once the rename is done.
Progress(locals) ==
  CASE locals.pc = "idle" -> [state |-> "idle"]
    [] locals.pc = "unlock" -> [state |-> "done", answer |-> locals.answer]
    [] OTHER -> [state |-> "called", op |-> locals.op]

Store == INSTANCE RegistryStore
           WITH record <- Content(data), durable <- Content(disk),
                call <- [c \in Callers |-> Progress(op[c])]

\* Every operation of the registry is atomic, fails cleanly or is undone whole:
\* what the package comment and saveLocked's promise of flock and rename.
Implements == Store!Spec

\* The record that callers see lives as RecordLife says, whichever of the
\* operations, failures and kills interleave, until a power loss takes some back.
Life == INSTANCE RecordLife WITH file <- Content(data)

FollowsLife == Life!Init /\ [][Life!Next \/ LosePower]_(Content(data))
=============================================================================
