------------------------------- MODULE Leader -------------------------------
(***************************************************************************)
(* The cwm-mcp processes of one host.  Each MCP session runs leader.Run,   *)
(* which probes the broker port: who binds it runs the handler of runMCP - *)
(* serial tailer, mDNS advertisement, broker.Serve - until the server      *)
(* fails or the process is told to stop, then unwinds and either exits or  *)
(* probes again.  A daemon binds once or gives up.                         *)
(*                                                                         *)
(* The listener closes first: while the old handler withdraws its          *)
(* advertisement and stops its tailer, another process may already serve.  *)
(*                                                                         *)
(* Handler runs are numbered; each has a log buffer and a tailer of its    *)
(* own.  Seconds are left out: a timer is an action that may happen.       *)
(***************************************************************************)
EXTENDS Naturals, FiniteSets

CONSTANTS Procs,      \* processes
          Devices,    \* device ids that may be registered, numbered in their order
          TxtLimit,   \* ids a TXT record has room for
          MaxFaults,  \* bound: servers and Listens failing, signals, kills
          None

ASSUME LeaderAssumption ==
  /\ Devices \subseteq Nat
  /\ TxtLimit \in Nat \ {0}
  /\ MaxFaults \in Nat
  /\ IsFiniteSet(Procs) /\ None \notin Procs

VARIABLES
  proc,        \* proc[p]: where process p is, its role and whether ctx is done
  port,        \* the process that has the broker port, or None
  runs,        \* handler runs begun
  owner,       \* owner[e]: the process of handler run e, None once it is dead
  tailers,     \* the tailer goroutines there are
  txt,         \* txt[p]: the advertisement of p
  registered,  \* device ids in the registry
  faults       \* faults so far

leaderVars == <<proc, port, runs, owner, tailers, txt, registered, faults>>

-----------------------------------------------------------------------------

Runs == 1..(MaxFaults + 1)

Points == {"new", "probe", "serve", "unwind", "wait", "exit", "gone"}
Roles == {"unknown", "leader", "follower"}

Process == [pc : Points, daemon : BOOLEAN, role : Roles, stop : BOOLEAN]
Tailer == [run : Runs, cancelled : BOOLEAN]

\* On the wire, held by the publisher (its server is not nil), and the ids named.
Advert == [on : BOOLEAN, held : BOOLEAN, devs : SUBSET Devices]

Unborn == [pc |-> "new", daemon |-> FALSE, role |-> "unknown", stop |-> FALSE]
Silent == [on |-> FALSE, held |-> FALSE, devs |-> {}]
Advertised(devs) == [on |-> TRUE, held |-> TRUE, devs |-> devs]

LeaderTypeOK ==
  /\ proc \in [Procs -> Process]
  /\ port \in Procs \cup {None}
  /\ runs \in Nat
  /\ owner \in [Runs -> Procs \cup {None}]
  /\ tailers \subseteq Tailer
  /\ txt \in [Procs -> Advert]
  /\ registered \subseteq Devices
  /\ faults \in 0..MaxFaults

LeaderInit ==
  /\ proc = [p \in Procs |-> Unborn]
  /\ port = None
  /\ runs = 0
  /\ owner = [e \in Runs |-> None]
  /\ tailers = {}
  /\ txt = [p \in Procs |-> Silent]
  /\ registered = {}
  /\ faults = 0

Fault == faults < MaxFaults /\ faults' = faults + 1

-----------------------------------------------------------------------------
(* leader.Run *)

At(p, pc) == proc[p].pc = pc

Alive(p) == proc[p].pc \notin {"new", "gone"}

Goto(p, pc) == proc' = [proc EXCEPT ![p].pc = pc]

Start(p, daemon) ==
  /\ At(p, "new")
  /\ proc' = [proc EXCEPT ![p].pc = "probe", ![p].daemon = daemon]
  /\ UNCHANGED <<port, runs, owner, tailers, txt, registered, faults>>

AfterProbe(p) == IF proc[p].daemon THEN "exit" ELSE "wait"

\* A follower whose role is left as it was.
BusyUnnoted(p) ==
  /\ At(p, "probe")
  /\ port # None
  /\ Goto(p, AfterProbe(p))
  /\ UNCHANGED <<port, runs, owner, tailers, txt, registered, faults>>

\* The address is in use.
Busy(p) ==
  /\ At(p, "probe")
  /\ port # None
  /\ proc' = [proc EXCEPT ![p].pc = AfterProbe(p), ![p].role = "follower"]
  /\ UNCHANGED <<port, runs, owner, tailers, txt, registered, faults>>

\* Listen fails for another reason; the role stays.
ListenFails(p) ==
  /\ At(p, "probe")
  /\ Fault
  /\ Goto(p, AfterProbe(p))
  /\ UNCHANGED <<port, runs, owner, tailers, txt, registered>>

\* A loop that leaves the probing to those that are not leader.
RetryFollower(p) ==
  /\ At(p, "wait")
  /\ proc[p].role # "leader"
  /\ Goto(p, "probe")
  /\ UNCHANGED <<port, runs, owner, tailers, txt, registered, faults>>

\* The retry interval is over; the select may see it before a done ctx.
Retry(p) ==
  /\ At(p, "wait")
  /\ Goto(p, "probe")
  /\ UNCHANGED <<port, runs, owner, tailers, txt, registered, faults>>

-----------------------------------------------------------------------------
(* The handler *)

\* buildTXT: a record that gets too long loses the highest ids.
Listed(ids) == {d \in ids : Cardinality({e \in ids : e < d}) < TxtLimit}

Of(p) == {t \in tailers : owner[t.run] = p}

\* Listen succeeds.  SetRole, startFirmwareTailer and startMDNS follow: what is
\* advertised first is the device list, an empty one if it cannot be read, or
\* nothing (loopback bind, no registry, Register failing).  The tailer's context
\* ends with ctx.
Acquire(p) ==
  /\ At(p, "probe")
  /\ port = None
  /\ port' = p
  /\ proc' = [proc EXCEPT ![p].pc = "serve", ![p].role = "leader"]
  /\ runs' = runs + 1
  /\ owner' = [owner EXCEPT ![runs + 1] = p]
  /\ tailers' = tailers \cup {[run |-> runs + 1, cancelled |-> proc[p].stop]}
  /\ \E first \in {Silent, Advertised({}), Advertised(Listed(registered))} :
       txt' = [txt EXCEPT ![p] = first]
  /\ UNCHANGED <<registered, faults>>

\* srv.Serve returns an error: its listener is closed.
ServeFails(p) ==
  /\ At(p, "serve")
  /\ Fault
  /\ port' = None
  /\ Goto(p, "unwind")
  /\ UNCHANGED <<runs, owner, tailers, txt, registered>>

\* srv.Shutdown closes the listener and drains for up to a second.
Shutdown(p) ==
  /\ At(p, "serve") /\ proc[p].stop
  /\ port' = None
  /\ Goto(p, "unwind")
  /\ UNCHANGED <<runs, owner, tailers, txt, registered, faults>>

AfterHandler(p) == IF proc[p].stop \/ proc[p].daemon THEN "exit" ELSE "wait"

\* Publisher.Close, called by the handler: it takes the server from the publisher
\* and shuts it down, or finds that refreshLoop took it and returns at once.
Close(p) ==
  txt' = IF txt[p].held THEN [txt EXCEPT ![p] = Silent] ELSE txt

\* A handler that returns without stopping its tailer.
UnwindMDNS(p) ==
  /\ At(p, "unwind")
  /\ Close(p)
  /\ Goto(p, AfterHandler(p))
  /\ UNCHANGED <<port, runs, owner, tailers, registered, faults>>

Cancelled(ts) == {[t EXCEPT !.cancelled = TRUE] : t \in ts}

\* The deferred mdnsPub.Close and stopTailer, and the return.
Unwind(p) ==
  /\ At(p, "unwind")
  /\ Close(p)
  /\ tailers' = (tailers \ Of(p)) \cup Cancelled(Of(p))
  /\ Goto(p, AfterHandler(p))
  /\ UNCHANGED <<port, runs, owner, registered, faults>>

-----------------------------------------------------------------------------
(* The end of a process *)

\* SIGTERM, or the MCP peer closes stdin: ctx is done, in the tailers too.
\* (A daemon that has not bound the port yet just dies.)
Cancel(p) ==
  /\ Alive(p) /\ ~proc[p].stop
  /\ proc[p].daemon => ~At(p, "probe")
  /\ Fault
  /\ proc' = [proc EXCEPT ![p].stop = TRUE]
  /\ tailers' = (tailers \ Of(p)) \cup Cancelled(Of(p))
  /\ UNCHANGED <<port, runs, owner, txt, registered>>

\* Everything of the process goes with it.
Gone(p) ==
  /\ proc' = [proc EXCEPT ![p] = [Unborn EXCEPT !.pc = "gone"]]
  /\ tailers' = tailers \ Of(p)
  /\ owner' = [e \in Runs |-> IF owner[e] = p THEN None ELSE owner[e]]
  /\ txt' = [txt EXCEPT ![p] = Silent]

\* A waiting loop that does not look at ctx.
ExitUnlessWaiting(p) ==
  /\ At(p, "exit")
  /\ Gone(p)
  /\ UNCHANGED <<port, runs, registered, faults>>

Exit(p) ==
  /\ \/ At(p, "exit")
     \/ At(p, "wait") /\ proc[p].stop
  /\ Gone(p)
  /\ UNCHANGED <<port, runs, registered, faults>>

Kill(p) ==
  /\ Alive(p)
  /\ Fault
  /\ Gone(p)
  /\ port' = IF port = p THEN None ELSE port
  /\ UNCHANGED <<runs, registered>>

-----------------------------------------------------------------------------
(* Background goroutines of the handler *)

\* A refresh that takes its first list for the last one.
RefreshNothing(p) ==
  /\ txt[p].held
  /\ UNCHANGED leaderVars

\* The tick of refreshLoop; the select may see it before a done ctx.  (A list
\* that cannot be read changes nothing.)
Refresh(p) ==
  /\ txt[p].held
  /\ txt' = [txt EXCEPT ![p].devs = Listed(registered)]
  /\ UNCHANGED <<proc, port, runs, owner, tailers, registered, faults>>

\* refreshLoop sees that ctx is done, perhaps before the listener closes: its
\* Close takes the server under the mutex ...
RefreshEnds(p) ==
  /\ txt[p].held /\ proc[p].stop
  /\ txt' = [txt EXCEPT ![p].held = FALSE]
  /\ UNCHANGED <<proc, port, runs, owner, tailers, registered, faults>>

\* ... and shuts it down after it unlocked.
Withdraw(p) ==
  /\ txt[p].on /\ ~txt[p].held
  /\ txt' = [txt EXCEPT ![p] = Silent]
  /\ UNCHANGED <<proc, port, runs, owner, tailers, registered, faults>>

\* A cancelled tailer returns.  Not at once: its read may be blocked until the
\* device speaks, and closing the descriptor need not wake it.
TailerEnds(t) ==
  /\ t.cancelled
  /\ tailers' = tailers \ {t}
  /\ UNCHANGED <<proc, port, runs, owner, txt, registered, faults>>

\* register_device or provision_device in some session.
Register(d) ==
  /\ d \notin registered
  /\ registered' = registered \cup {d}
  /\ UNCHANGED <<proc, port, runs, owner, tailers, txt, faults>>

Step(p) ==
  Acquire(p) \/ Busy(p) \/ Shutdown(p) \/ Unwind(p) \/ Retry(p) \/ Exit(p)

LeaderNext ==
  \/ \E p \in Procs :
       \/ \E daemon \in BOOLEAN : Start(p, daemon)
       \/ Step(p) \/ ListenFails(p) \/ ServeFails(p) \/ Cancel(p) \/ Kill(p)
       \/ Refresh(p) \/ RefreshEnds(p) \/ Withdraw(p)
  \/ \E t \in tailers : TailerEnds(t)
  \/ \E d \in Devices : Register(d)

LeaderSpec == LeaderInit /\ [][LeaderNext]_leaderVars

(***************************************************************************)
(* Fairness: goroutines run and timers fire, that of mDNS included; a      *)
(* select that finds ctx done again and again chooses it in the end.       *)
(***************************************************************************)
LeaderFairness ==
  \A p \in Procs :
    /\ WF_leaderVars(Step(p))
    /\ SF_leaderVars(Exit(p))
    /\ WF_leaderVars(Refresh(p) \/ RefreshEnds(p) \/ Withdraw(p))

-----------------------------------------------------------------------------
(* Properties *)

InHandler(p) == proc[p].pc \in {"serve", "unwind"}

Tails(p) == \E t \in Of(p) : ~t.cancelled

\* An advertisement is the handler's, or on its way out with the process.
AdvertDue(p) ==
  /\ txt[p].held => txt[p].on /\ InHandler(p)
  /\ txt[p].on /\ ~txt[p].held => proc[p].stop /\ (InHandler(p) \/ At(p, "exit"))

\* What holds of runMCP's comments on the tailer and on mDNS: only a process in
\* its handler has a tailer that goes on reading, and at most one such tailer;
\* only a process in its handler advertises, but for the time refreshLoop takes
\* to withdraw what the handler's own Close found taken, and then the process is
\* on its way out; who serves has the port.  The port changes hands, handlers
\* fail and are retried, processes die at any point.
OnlyTheLeaderActs ==
  /\ \A p \in Procs : Tails(p) => InHandler(p)
  /\ \A p \in Procs : AdvertDue(p)
  /\ \A p \in Procs : At(p, "serve") => port = p
  /\ \A t, u \in tailers :
       ~t.cancelled /\ ~u.cancelled /\ owner[t.run] = owner[u.run] => t = u

\* The comments as they stand, "only the process that actually owns the bound
\* port should be answering" and "exactly one reader", are not invariants: after
\* ServeFails the next owner's Acquire may come before the former one's Unwind.
OnlyPortOwnerAdvertises == \A p \in Procs : txt[p].on => port \in {p, None}

OneReader == \A t, u \in tailers : ~t.cancelled /\ ~u.cancelled => t = u

\* A free port is taken, by whoever probes next, also after a handler failed.
Candidate(p) == ~proc[p].daemon /\ ~proc[p].stop /\ Alive(p)

PortTaken == port = None /\ (\E p \in Procs : Candidate(p))
               ~> port # None \/ ~\E p \in Procs : Candidate(p)

\* "don't leave the process zombified": a process told to stop exits, wherever
\* it was - probing, binding, serving, unwinding a failed handler, waiting.
CancelEnds == \A p \in Procs : proc[p].stop ~> At(p, "gone")

\* wall_monitor_status: a process that lost the port does not report for ever
\* that it is the leader.
RoleCatchesUp ==
  \A p \in Procs :
    proc[p].role = "leader" /\ port # p ~> proc[p].role # "leader" \/ port = p

\* What a broker that stays advertises, if anything, gets to be the ids there is
\* room for, also when the first listing failed and whenever devices are
\* registered afterwards.
DevicesAdvertised ==
  \A p \in Procs : txt[p].on ~> ~txt[p].on \/ txt[p].devs = Listed(registered)
=============================================================================
