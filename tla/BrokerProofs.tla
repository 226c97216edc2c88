---------------------------- MODULE BrokerProofs ----------------------------
(***************************************************************************)
(* Proofs about Leader and FirmwareLog, for any finite set of processes,   *)
(* any number of faults and lines and any ring.                            *)
(*                                                                         *)
(* Handler runs are numbered up to the bound of faults: every run but the  *)
(* one that has the port was ended by a fault, and a process told to stop  *)
(* has one left to end (RunsCounted).                                      *)
(***************************************************************************)
EXTENDS FirmwareLog, FiniteSetTheorems, SequenceTheorems, TLAPS

-----------------------------------------------------------------------------
(* Leader: invariant *)

\* Processes told to stop whose handler run, if any, is still to end.
Ending == {p \in Procs : proc[p].stop /\ proc[p].pc \notin {"unwind", "exit"}}

Served == IF port = None THEN 0 ELSE 1

RunsCounted == runs + Cardinality(Ending) <= faults + Served

\* A run has an owner once it has begun and a tailer as long as its owner lives.
TailersOwned ==
  /\ \A t \in tailers : t.run <= runs /\ owner[t.run] \in Procs
  /\ \A e \in Runs : e > runs => owner[e] = None

LeaderInv == LeaderTypeOK /\ RunsCounted /\ TailersOwned /\ OnlyTheLeaderActs

LEMMA EndingFinite == IsFiniteSet(Ending) /\ Cardinality(Ending) \in Nat
BY LeaderAssumption, FS_Subset, FS_CardinalityType DEF Ending

\* The count when nothing joins Ending.
LEMMA CountStays ==
  ASSUME NEW E \in SUBSET Ending
  PROVE  Cardinality(E) \in Nat /\ Cardinality(E) <= Cardinality(Ending)
BY EndingFinite, FS_Subset, FS_CardinalityType

LEMMA ProcessFacts ==
  ASSUME LeaderTypeOK, NEW p \in Procs
  PROVE  /\ proc[p] \in Process /\ proc[p].stop \in BOOLEAN
         /\ Unborn \in Process /\ [Unborn EXCEPT !.pc = "gone"] \in Process
         /\ Silent \in Advert
         /\ p # None
BY LeaderAssumption DEF LeaderTypeOK, Process, Unborn, Silent, Advert, Points, Roles

\* Steps of a process outside of the handler that leave the handler's alone.
LEMMA MoveStep ==
  ASSUME LeaderInv, NEW p \in Procs, NEW new \in Process,
         proc[p].pc \in {"new", "probe", "wait"}, new.pc \in {"probe", "wait", "exit"},
         new.stop = proc[p].stop, proc' = [proc EXCEPT ![p] = new],
         UNCHANGED <<port, runs, owner, tailers, txt, registered>>,
         faults' = faults \/ (faults < MaxFaults /\ faults' = faults + 1)
  PROVE  LeaderInv'
<1>1. LeaderTypeOK /\ proc[p] \in Process
  BY ProcessFacts DEF LeaderInv
<1>5. LeaderTypeOK'
  BY <1>1, LeaderAssumption DEF LeaderTypeOK, Runs
<1>6. Ending' \in SUBSET Ending
  BY <1>1 DEF Ending, LeaderTypeOK
<1>7. RunsCounted'
  BY <1>1, <1>6, CountStays, EndingFinite DEF LeaderInv, RunsCounted, Served, LeaderTypeOK
<1>8. TailersOwned'
  BY DEF LeaderInv, TailersOwned, Runs
<1>9. OnlyTheLeaderActs'
  BY <1>1 DEF LeaderInv, OnlyTheLeaderActs, AdvertDue, InHandler, Tails, Of, At, LeaderTypeOK
<1>10. QED
  BY <1>5, <1>7, <1>8, <1>9 DEF LeaderInv

LEMMA OutsideSteps ==
  ASSUME LeaderInv, NEW p \in Procs,
         (\E daemon \in BOOLEAN : Start(p, daemon)) \/ Busy(p) \/ ListenFails(p) \/ Retry(p)
  PROVE  LeaderInv'
<1>1. LeaderTypeOK /\ proc \in [Procs -> Process] /\ proc[p] \in Process
  BY ProcessFacts DEF LeaderInv, LeaderTypeOK
<1>2. AfterProbe(p) \in {"probe", "wait", "exit"} /\ {"probe", "wait", "exit"} \subseteq Points
  BY DEF AfterProbe, Points
<1>3. ASSUME NEW daemon \in BOOLEAN, Start(p, daemon)
      PROVE  LeaderInv'
  <2> DEFINE new == [proc[p] EXCEPT !.pc = "probe", !.daemon = daemon]
  <2>1. new \in Process /\ new.pc = "probe" /\ new.stop = proc[p].stop
    BY <1>1, <1>2 DEF Process
  <2>2. proc' = [proc EXCEPT ![p] = new]
    BY <1>1, <1>3 DEF Start
  <2> HIDE DEF new
  <2>3. QED
    BY <1>3, <2>1, <2>2, MoveStep DEF Start, At
<1>4. CASE Busy(p)
  <2> DEFINE new == [proc[p] EXCEPT !.pc = AfterProbe(p), !.role = "follower"]
  <2>1. new \in Process /\ new.pc = AfterProbe(p) /\ new.stop = proc[p].stop
    BY <1>1, <1>2 DEF Process, Roles
  <2>2. proc' = [proc EXCEPT ![p] = new]
    BY <1>1, <1>4 DEF Busy
  <2> HIDE DEF new
  <2>3. QED
    BY <1>2, <1>4, <2>1, <2>2, MoveStep DEF Busy, At
<1>5. CASE ListenFails(p)
  <2> DEFINE new == [proc[p] EXCEPT !.pc = AfterProbe(p)]
  <2>1. new \in Process /\ new.pc = AfterProbe(p) /\ new.stop = proc[p].stop
    BY <1>1, <1>2 DEF Process
  <2>2. proc' = [proc EXCEPT ![p] = new]
    BY <1>1, <1>5 DEF ListenFails, Goto
  <2> HIDE DEF new
  <2>3. QED
    BY <1>2, <1>5, <2>1, <2>2, MoveStep DEF ListenFails, Fault, At
<1>6. CASE Retry(p)
  <2> DEFINE new == [proc[p] EXCEPT !.pc = "probe"]
  <2>1. new \in Process /\ new.pc = "probe" /\ new.stop = proc[p].stop
    BY <1>1, <1>2 DEF Process
  <2>2. proc' = [proc EXCEPT ![p] = new]
    BY <1>1, <1>6 DEF Retry, Goto
  <2> HIDE DEF new
  <2>3. QED
    BY <1>6, <2>1, <2>2, MoveStep DEF Retry, At
<1>7. QED
  BY <1>3, <1>4, <1>5, <1>6

LEMMA AcquireStep ==
  ASSUME LeaderInv, NEW p \in Procs, Acquire(p)
  PROVE  LeaderInv'
<1> DEFINE e == runs + 1
           t == [run |-> e, cancelled |-> proc[p].stop]
           new == [proc[p] EXCEPT !.pc = "serve", !.role = "leader"]
<1>1. /\ LeaderTypeOK /\ proc[p] \in Process /\ proc[p].pc = "probe" /\ p # None
      /\ runs \in Nat /\ faults \in 0..MaxFaults /\ MaxFaults \in Nat
  BY ProcessFacts, LeaderAssumption DEF LeaderInv, LeaderTypeOK, Acquire, At
<1>2. /\ port = None /\ port' = p /\ runs' = e
      /\ owner' = [owner EXCEPT ![e] = p]
      /\ tailers' = tailers \cup {t}
      /\ UNCHANGED <<registered, faults>>
  BY DEF Acquire
<1>3. /\ new \in Process /\ new.pc = "serve" /\ new.stop = proc[p].stop
      /\ proc' = [proc EXCEPT ![p] = new]
  BY <1>1 DEF Acquire, Process, Points, Roles, LeaderTypeOK
<1>4. \E first \in Advert :
        txt' = [txt EXCEPT ![p] = first] /\ (first.held <=> first.on)
  <2>1. Listed(registered) \in SUBSET Devices /\ {} \in SUBSET Devices
    BY <1>1 DEF LeaderTypeOK, Listed
  <2>2. \A devs \in SUBSET Devices : /\ Advertised(devs) \in Advert
                                 /\ Advertised(devs).on /\ Advertised(devs).held
    BY DEF Advertised, Advert
  <2>3. Silent \in Advert /\ ~Silent.held /\ ~Silent.on
    BY DEF Silent, Advert
  <2>4. PICK first \in {Silent, Advertised({}), Advertised(Listed(registered))} :
          txt' = [txt EXCEPT ![p] = first]
    BY DEF Acquire
  <2>5. QED
    BY <2>1, <2>2, <2>3, <2>4
<1>5. e <= faults + 1 /\ e \in Runs
  BY <1>1, <1>2, EndingFinite DEF LeaderInv, RunsCounted, Served, Runs
<1>6. t \in Tailer /\ t.run = e /\ t.cancelled = proc[p].stop
  BY <1>1, <1>5 DEF Tailer, Process
<1>7. owner \in [Runs -> Procs \cup {None}] /\ txt \in [Procs -> Advert] /\ tailers \subseteq Tailer
  BY <1>1 DEF LeaderTypeOK
<1> HIDE DEF e, t, new
<1>8. LeaderTypeOK'
  <2>1. owner' \in [Runs' -> Procs \cup {None}]
    BY <1>2, <1>7 DEF Runs
  <2>2. txt' \in [Procs -> Advert] /\ tailers' \subseteq Tailer
    BY <1>2, <1>4, <1>6, <1>7
  <2>3. runs' \in Nat
    BY <1>1, <1>2 DEF e
  <2>4. QED
    BY <1>1, <1>2, <1>3, <2>1, <2>2, <2>3 DEF LeaderTypeOK, Tailer, Runs
<1>9. RunsCounted'
  <2>1. Ending' \in SUBSET Ending
    BY <1>1, <1>3 DEF Ending, LeaderTypeOK
  <2>2. Cardinality(Ending') \in Nat /\ Cardinality(Ending') <= Cardinality(Ending)
    BY <2>1, CountStays
  <2>3. QED
    BY <1>1, <1>2, <2>2, EndingFinite DEF LeaderInv, RunsCounted, Served, e
<1>10. \A u \in tailers : u.run # e /\ u.run \in Runs /\ owner'[u.run] = owner[u.run]
  <2>1. \A u \in tailers : u.run \in Runs /\ u.run <= runs /\ u.run \in Nat
    BY <1>7 DEF LeaderInv, TailersOwned, Tailer, Runs
  <2>2. QED
    BY <1>1, <1>2, <1>7, <2>1 DEF e
<1>11. owner'[e] = p
  BY <1>2, <1>5, <1>7
<1>12. TailersOwned'
  <2>1. \A u \in tailers' : u.run <= runs' /\ owner'[u.run] \in Procs
    <3>1. \A u \in tailers : u.run <= e
      BY <1>1, <1>7 DEF LeaderInv, TailersOwned, Tailer, Runs, e
    <3>2. e <= e
      BY <1>1 DEF e
    <3>3. QED
      BY <1>2, <1>6, <1>10, <1>11, <3>1, <3>2 DEF LeaderInv, TailersOwned
  <2>2. \A x \in Runs : x > runs' => owner'[x] = None
    BY <1>1, <1>2, <1>7 DEF LeaderInv, TailersOwned, Runs, e
  <2>3. QED
    BY <2>1, <2>2 DEF TailersOwned, Runs
<1>13. \A u \in tailers : owner[u.run] = p => u.cancelled
  BY <1>1 DEF LeaderInv, OnlyTheLeaderActs, Tails, Of, InHandler
<1>14. OnlyTheLeaderActs'
  <2>1. \A q \in Procs : q # p => proc'[q] = proc[q] /\ txt'[q] = txt[q]
    BY <1>1, <1>3, <1>4, <1>7 DEF LeaderTypeOK
  <2>2. proc'[p].pc = "serve" /\ (txt'[p].held <=> txt'[p].on)
    BY <1>1, <1>3, <1>4, <1>7 DEF LeaderTypeOK
  <2>3. \A q \in Procs : Tails(q)' => InHandler(q)'
    <3>1. SUFFICES ASSUME NEW q \in Procs, q # p, Tails(q)'
                   PROVE  Tails(q)
      BY <2>1, <2>2 DEF LeaderInv, OnlyTheLeaderActs, InHandler
    <3>2. PICK u \in tailers' : owner'[u.run] = q /\ ~u.cancelled
      BY <3>1 DEF Tails, Of
    <3>3. u \in tailers /\ owner[u.run] = q
      BY <1>2, <1>6, <1>10, <1>11, <3>1, <3>2
    <3>4. QED
      BY <3>2, <3>3 DEF Tails, Of
  <2>3a. \A q \in Procs : AdvertDue(q)'
    BY <2>1, <2>2 DEF LeaderInv, OnlyTheLeaderActs, AdvertDue, InHandler, At
  <2>4. \A q \in Procs : At(q, "serve")' => port' = q
    BY <1>1, <1>2, <2>1, LeaderAssumption DEF LeaderInv, OnlyTheLeaderActs, At
  <2>5. \A u, v \in tailers' : ~u.cancelled /\ ~v.cancelled /\ owner'[u.run] = owner'[v.run] => u = v
    BY <1>2, <1>6, <1>10, <1>11, <1>13 DEF LeaderInv, OnlyTheLeaderActs
  <2>6. QED
    BY <2>3, <2>3a, <2>4, <2>5 DEF OnlyTheLeaderActs, AdvertDue
<1>15. QED
  BY <1>8, <1>9, <1>12, <1>14 DEF LeaderInv

\* The tailers of p cancelled: nobody's role in the rest changes.
LEMMA CancelledFacts ==
  ASSUME LeaderInv, NEW p \in Procs, UNCHANGED <<owner, runs>>,
         tailers' = (tailers \ Of(p)) \cup Cancelled(Of(p))
  PROVE  /\ tailers' \subseteq Tailer
         /\ TailersOwned'
         /\ \A t \in tailers' : ~t.cancelled => t \in tailers /\ owner[t.run] # p
<1>1. tailers \subseteq Tailer
  BY DEF LeaderInv, LeaderTypeOK
<1>2. \A c \in Cancelled(Of(p)) :
        /\ c \in Tailer /\ c.cancelled
        /\ \E t \in tailers : c.run = t.run
  BY <1>1 DEF Cancelled, Of, Tailer
<1>3. \A t \in tailers' : t \in tailers \/ t \in Cancelled(Of(p))
  OBVIOUS
<1>4. TailersOwned'
  BY <1>2, <1>3 DEF LeaderInv, TailersOwned, Runs
<1>5. \A t \in tailers' : ~t.cancelled => t \in tailers /\ owner[t.run] # p
  BY <1>2, <1>3 DEF Of
<1>6. QED
  BY <1>1, <1>2, <1>3, <1>4, <1>5

\* The listener closes: the server fails, or is shut down by a stop.
LEMMA ListenerCloses ==
  ASSUME LeaderInv, NEW p \in Procs, ServeFails(p) \/ Shutdown(p)
  PROVE  LeaderInv'
<1>1. /\ LeaderTypeOK /\ proc[p] \in Process /\ p # None
      /\ proc[p].pc = "serve" /\ port = p
      /\ proc \in [Procs -> Process]
  BY ProcessFacts DEF LeaderInv, LeaderTypeOK, OnlyTheLeaderActs, ServeFails, Shutdown, At
<1> DEFINE new == [proc[p] EXCEPT !.pc = "unwind"]
<1>2. /\ new \in Process /\ new.pc = "unwind" /\ new.stop = proc[p].stop
      /\ proc' = [proc EXCEPT ![p] = new]
  BY <1>1 DEF Process, Points, ServeFails, Shutdown, Goto
<1> HIDE DEF new
<1>3. port' = None /\ UNCHANGED <<runs, owner, tailers, txt, registered>>
  BY DEF ServeFails, Shutdown
<1>4. LeaderTypeOK'
  <2>1. faults' \in 0..MaxFaults
    BY <1>1, LeaderAssumption DEF ServeFails, Shutdown, Fault, LeaderTypeOK
  <2>2. QED
    BY <1>1, <1>2, <1>3, <2>1 DEF LeaderTypeOK, Runs
<1>5. RunsCounted'
  <2>1. Ending' = Ending \ {p}
    BY <1>1, <1>2 DEF Ending
  <2>2. Cardinality(Ending') = IF p \in Ending THEN Cardinality(Ending) - 1 ELSE Cardinality(Ending)
    BY <2>1, EndingFinite, FS_RemoveElement
  <2>3. runs \in Nat /\ faults \in Nat
    BY <1>1 DEF LeaderTypeOK
  <2>4. CASE ServeFails(p)
    BY <1>1, <1>3, <2>2, <2>3, <2>4, EndingFinite
       DEF LeaderInv, RunsCounted, Served, ServeFails, Fault
  <2>5. CASE Shutdown(p)
    <3>1. p \in Ending /\ faults' = faults
      BY <1>1, <2>5 DEF Shutdown, Ending
    <3>2. QED
      BY <1>1, <1>3, <2>2, <2>3, <3>1, EndingFinite DEF LeaderInv, RunsCounted, Served
  <2>6. QED
    BY <2>4, <2>5
<1>6. TailersOwned'
  BY <1>3 DEF LeaderInv, TailersOwned, Runs
<1>7. OnlyTheLeaderActs'
  <2>1. \A q \in Procs : q # p => ~At(q, "serve")
    BY <1>1 DEF LeaderInv, OnlyTheLeaderActs, At
  <2>2. QED
    BY <1>1, <1>2, <1>3, <2>1 DEF LeaderInv, OnlyTheLeaderActs, AdvertDue, InHandler, Tails, Of, At
<1>8. QED
  BY <1>4, <1>5, <1>6, <1>7 DEF LeaderInv

LEMMA UnwindStep ==
  ASSUME LeaderInv, NEW p \in Procs, Unwind(p)
  PROVE  LeaderInv'
<1>1. /\ LeaderTypeOK /\ proc[p] \in Process /\ proc[p].pc = "unwind" /\ Silent \in Advert
      /\ proc \in [Procs -> Process] /\ txt \in [Procs -> Advert]
  BY ProcessFacts DEF LeaderInv, LeaderTypeOK, Unwind, At
<1> DEFINE new == [proc[p] EXCEPT !.pc = AfterHandler(p)]
<1>2. /\ new \in Process /\ new.pc \in {"exit", "wait"} /\ new.stop = proc[p].stop
      /\ new.pc = "wait" => ~new.stop
      /\ proc' = [proc EXCEPT ![p] = new]
  BY <1>1 DEF Process, Points, Unwind, Goto, AfterHandler
<1> HIDE DEF new
<1>3. /\ tailers' = (tailers \ Of(p)) \cup Cancelled(Of(p))
      /\ txt' = IF txt[p].held THEN [txt EXCEPT ![p] = Silent] ELSE txt
      /\ UNCHANGED <<port, runs, owner, registered, faults>>
  BY DEF Unwind, Close
<1>4. /\ tailers' \subseteq Tailer /\ TailersOwned'
      /\ \A t \in tailers' : ~t.cancelled => t \in tailers /\ owner[t.run] # p
  BY <1>3, CancelledFacts
<1>5. LeaderTypeOK'
  BY <1>1, <1>2, <1>3, <1>4 DEF LeaderTypeOK, Runs
<1>6. RunsCounted'
  <2>1. Ending' \in SUBSET Ending
    BY <1>1, <1>2 DEF Ending
  <2>2. Cardinality(Ending') \in Nat /\ Cardinality(Ending') <= Cardinality(Ending)
    BY <2>1, CountStays
  <2>3. runs \in Nat /\ faults \in Nat
    BY <1>1 DEF LeaderTypeOK
  <2>4. QED
    BY <1>3, <2>2, <2>3, EndingFinite DEF LeaderInv, RunsCounted, Served
<1>7. OnlyTheLeaderActs'
  <2>1. /\ \A q \in Procs : q # p => proc'[q] = proc[q] /\ txt'[q] = txt[q]
        /\ ~At(p, "serve")'
    BY <1>1, <1>2, <1>3 DEF At
  <2>2. \A q \in Procs : Tails(q)' => q # p /\ Tails(q)
    BY <1>3, <1>4 DEF Tails, Of
  <2>3. \A q \in Procs : Tails(q)' => InHandler(q)'
    BY <2>1, <2>2 DEF LeaderInv, OnlyTheLeaderActs, InHandler
  <2>3a. AdvertDue(p)'
    <3>1. CASE txt[p].held
      BY <1>1, <1>3, <3>1 DEF AdvertDue, Silent
    <3>2. CASE ~txt[p].held
      <4>1. txt' = txt /\ (txt[p].on => proc[p].stop)
        BY <1>3, <3>2 DEF LeaderInv, OnlyTheLeaderActs, AdvertDue
      <4>2. QED
        BY <1>1, <1>2, <3>2, <4>1 DEF AdvertDue, At
    <3>3. QED
      BY <3>1, <3>2
  <2>3b. \A q \in Procs : AdvertDue(q)'
    BY <2>1, <2>3a DEF LeaderInv, OnlyTheLeaderActs, AdvertDue, InHandler, At
  <2>4. \A q \in Procs : At(q, "serve")' => port' = q
    BY <1>3, <2>1 DEF LeaderInv, OnlyTheLeaderActs, At
  <2>5. QED
    BY <1>3, <1>4, <2>3, <2>3b, <2>4 DEF LeaderInv, OnlyTheLeaderActs
<1>8. QED
  BY <1>4, <1>5, <1>6, <1>7 DEF LeaderInv

LEMMA CancelStep ==
  ASSUME LeaderInv, NEW p \in Procs, Cancel(p)
  PROVE  LeaderInv'
<1>1. /\ LeaderTypeOK /\ proc[p] \in Process /\ proc \in [Procs -> Process]
  BY ProcessFacts DEF LeaderInv, LeaderTypeOK
<1> DEFINE new == [proc[p] EXCEPT !.stop = TRUE]
<1>2. /\ new \in Process /\ new.pc = proc[p].pc /\ new.stop = TRUE
      /\ proc' = [proc EXCEPT ![p] = new]
  BY <1>1 DEF Process, Cancel
<1> HIDE DEF new
<1>3. /\ tailers' = (tailers \ Of(p)) \cup Cancelled(Of(p))
      /\ faults < MaxFaults /\ faults' = faults + 1
      /\ UNCHANGED <<port, runs, owner, txt, registered>>
  BY DEF Cancel, Fault
<1>4. /\ tailers' \subseteq Tailer /\ TailersOwned'
      /\ \A t \in tailers' : ~t.cancelled => t \in tailers /\ owner[t.run] # p
  BY <1>3, CancelledFacts
<1>5. LeaderTypeOK'
  <2>1. faults' \in 0..MaxFaults
    BY <1>1, <1>3, LeaderAssumption DEF LeaderTypeOK
  <2>2. QED
    BY <1>1, <1>2, <1>3, <1>4, <2>1 DEF LeaderTypeOK, Runs
<1>6. RunsCounted'
  <2>1. Ending' \in SUBSET (Ending \cup {p})
    BY <1>1, <1>2 DEF Ending
  <2>2. /\ IsFiniteSet(Ending \cup {p})
        /\ Cardinality(Ending \cup {p}) <= Cardinality(Ending) + 1
        /\ Cardinality(Ending \cup {p}) \in Nat
    BY EndingFinite, FS_AddElement, FS_CardinalityType
  <2>3. Cardinality(Ending') \in Nat /\ Cardinality(Ending') <= Cardinality(Ending \cup {p})
    BY <2>1, <2>2, FS_Subset, FS_CardinalityType
  <2>4. runs \in Nat /\ faults \in Nat
    BY <1>1 DEF LeaderTypeOK
  <2>5. QED
    BY <1>3, <2>2, <2>3, <2>4, EndingFinite DEF LeaderInv, RunsCounted, Served
<1>7. OnlyTheLeaderActs'
  <2>1. \A q \in Procs : proc'[q].pc = proc[q].pc
    BY <1>1, <1>2
  <2>2. \A q \in Procs : Tails(q)' => Tails(q)
    BY <1>3, <1>4 DEF Tails, Of
  <2>3. \A q \in Procs : proc[q].stop => proc'[q].stop
    BY <1>1, <1>2
  <2>4. QED
    BY <1>3, <1>4, <2>1, <2>2, <2>3 DEF LeaderInv, OnlyTheLeaderActs, AdvertDue, InHandler, At
<1>8. QED
  BY <1>4, <1>5, <1>6, <1>7 DEF LeaderInv

\* Everything of a process goes with it, the port too if it is killed.
LEMMA GoneStep ==
  ASSUME LeaderInv, NEW p \in Procs, Exit(p) \/ Kill(p)
  PROVE  LeaderInv'
<1>1. /\ LeaderTypeOK /\ proc[p] \in Process /\ Silent \in Advert
      /\ proc \in [Procs -> Process] /\ txt \in [Procs -> Advert]
      /\ owner \in [Runs -> Procs \cup {None}] /\ tailers \subseteq Tailer
      /\ p # None
  BY ProcessFacts DEF LeaderInv, LeaderTypeOK
<1> DEFINE new == [Unborn EXCEPT !.pc = "gone"]
<1>2. /\ new \in Process /\ new.pc = "gone" /\ new.stop = FALSE
      /\ proc' = [proc EXCEPT ![p] = new]
  BY <1>1, ProcessFacts DEF Unborn, Exit, Kill, Gone
<1> HIDE DEF new
<1>3. /\ tailers' = tailers \ Of(p)
      /\ owner' = [e \in Runs |-> IF owner[e] = p THEN None ELSE owner[e]]
      /\ txt' = [txt EXCEPT ![p] = Silent]
      /\ UNCHANGED <<runs, registered>>
  BY DEF Exit, Kill, Gone
<1>4. \/ port' = port /\ faults' = faults /\ ~At(p, "serve")
      \/ /\ port' = IF port = p THEN None ELSE port
         /\ faults < MaxFaults /\ faults' = faults + 1
  BY DEF Exit, Kill, Fault, At
<1>5. \A t \in tailers' : t \in tailers /\ owner[t.run] # p /\ owner'[t.run] = owner[t.run]
  BY <1>1, <1>3 DEF Of, Tailer
<1>6. LeaderTypeOK'
  <2>1. faults' \in 0..MaxFaults /\ port' \in Procs \cup {None}
    BY <1>1, <1>4, LeaderAssumption DEF LeaderTypeOK
  <2>2. owner' \in [Runs -> Procs \cup {None}]
    BY <1>1, <1>3
  <2>3. QED
    BY <1>1, <1>2, <1>3, <1>5, <2>1, <2>2 DEF LeaderTypeOK, Runs
<1>7. RunsCounted'
  <2>1. Ending' \in SUBSET Ending
    BY <1>1, <1>2 DEF Ending
  <2>2. Cardinality(Ending') \in Nat /\ Cardinality(Ending') <= Cardinality(Ending)
    BY <2>1, CountStays
  <2>3. runs \in Nat /\ faults \in Nat
    BY <1>1 DEF LeaderTypeOK
  <2>4. QED
    BY <1>1, <1>3, <1>4, <2>2, <2>3, EndingFinite DEF LeaderInv, RunsCounted, Served
<1>8. TailersOwned'
  <2>1. \A e \in Runs : e > runs => owner'[e] = None
    BY <1>1, <1>3 DEF LeaderInv, TailersOwned
  <2>2. QED
    BY <1>3, <1>5, <2>1 DEF LeaderInv, TailersOwned, Runs
<1>9. OnlyTheLeaderActs'
  <2>1. /\ \A q \in Procs : q # p => proc'[q] = proc[q] /\ txt'[q] = txt[q]
        /\ ~txt'[p].on /\ ~txt'[p].held /\ ~At(p, "serve")'
    BY <1>1, <1>2, <1>3 DEF At, Silent
  <2>2. \A q \in Procs : Tails(q)' => q # p /\ Tails(q)
    BY <1>5 DEF Tails, Of
  <2>3. \A q \in Procs : (Tails(q)' => InHandler(q)') /\ AdvertDue(q)'
    BY <2>1, <2>2 DEF LeaderInv, OnlyTheLeaderActs, AdvertDue, InHandler, At
  <2>4. \A q \in Procs : At(q, "serve")' => port' = q
    BY <1>4, <2>1 DEF LeaderInv, OnlyTheLeaderActs, At
  <2>5. \A t, u \in tailers' :
          ~t.cancelled /\ ~u.cancelled /\ owner'[t.run] = owner'[u.run] => t = u
    BY <1>5 DEF LeaderInv, OnlyTheLeaderActs
  <2>6. QED
    BY <2>3, <2>4, <2>5 DEF OnlyTheLeaderActs
<1>10. QED
  BY <1>6, <1>7, <1>8, <1>9 DEF LeaderInv

LEMMA BackgroundSteps ==
  ASSUME LeaderInv,
         \/ \E p \in Procs : Refresh(p) \/ RefreshEnds(p) \/ Withdraw(p)
         \/ \E t \in tailers : TailerEnds(t)
         \/ \E d \in Devices : Register(d)
  PROVE  LeaderInv'
<1>1. LeaderTypeOK /\ txt \in [Procs -> Advert] /\ registered \subseteq Devices
  BY DEF LeaderInv, LeaderTypeOK
<1>2. ASSUME NEW p \in Procs, Refresh(p) \/ RefreshEnds(p) \/ Withdraw(p) PROVE LeaderInv'
  <2>1. UNCHANGED <<proc, port, runs, owner, tailers, registered, faults>>
    BY <1>2 DEF Refresh, RefreshEnds, Withdraw
  <2>2. AdvertDue(p)
    BY DEF LeaderInv, OnlyTheLeaderActs
  <2>3. \E a \in Advert :
          /\ txt' = [txt EXCEPT ![p] = a]
          /\ a.held => a.on /\ txt[p].held
          /\ a.on /\ ~a.held => proc[p].stop /\ InHandler(p)
    <3>1. CASE Refresh(p)
      <4> DEFINE a == [txt[p] EXCEPT !.devs = Listed(registered)]
      <4>1. a \in Advert /\ a.on /\ a.held /\ txt[p].held
        BY <1>1, <2>2, <3>1 DEF Advert, Listed, AdvertDue, Refresh
      <4>2. txt' = [txt EXCEPT ![p] = a]
        BY <1>1, <3>1 DEF Refresh
      <4>3. QED
        BY <4>1, <4>2
    <3>2. CASE RefreshEnds(p)
      <4> DEFINE a == [txt[p] EXCEPT !.held = FALSE]
      <4>1. a \in Advert /\ ~a.held /\ proc[p].stop /\ InHandler(p)
        BY <1>1, <2>2, <3>2 DEF Advert, AdvertDue, RefreshEnds
      <4>2. txt' = [txt EXCEPT ![p] = a]
        BY <1>1, <3>2 DEF RefreshEnds
      <4>3. QED
        BY <4>1, <4>2
    <3>3. CASE Withdraw(p)
      <4>1. Silent \in Advert /\ ~Silent.on /\ ~Silent.held
        BY DEF Silent, Advert
      <4>2. QED
        BY <3>3, <4>1 DEF Withdraw
    <3>4. QED
      BY <1>2, <3>1, <3>2, <3>3
  <2>4. /\ txt' \in [Procs -> Advert]
        /\ \A q \in Procs : q # p => txt'[q] = txt[q]
        /\ txt'[p].held => txt'[p].on /\ txt[p].held
        /\ txt'[p].on /\ ~txt'[p].held => proc[p].stop /\ InHandler(p)
    BY <1>1, <2>3
  <2>5. LeaderTypeOK' /\ RunsCounted' /\ TailersOwned'
    BY <1>1, <2>1, <2>4
       DEF LeaderInv, LeaderTypeOK, RunsCounted, Ending, Served, TailersOwned, Runs
  <2>6. \A q \in Procs : AdvertDue(q)'
    BY <2>1, <2>2, <2>4 DEF LeaderInv, OnlyTheLeaderActs, AdvertDue, InHandler, At
  <2>7. OnlyTheLeaderActs'
    BY <2>1, <2>6 DEF LeaderInv, OnlyTheLeaderActs, Tails, Of, InHandler, At
  <2>8. QED
    BY <2>5, <2>7 DEF LeaderInv
<1>3. ASSUME NEW t \in tailers, TailerEnds(t) PROVE LeaderInv'
  <2>1. /\ tailers' = tailers \ {t}
        /\ UNCHANGED <<proc, port, runs, owner, txt, registered, faults>>
    BY <1>3 DEF TailerEnds
  <2>2. LeaderTypeOK' /\ RunsCounted' /\ TailersOwned'
    BY <1>1, <2>1
       DEF LeaderInv, LeaderTypeOK, RunsCounted, Ending, Served, TailersOwned, Runs
  <2>3. OnlyTheLeaderActs'
    BY <2>1 DEF LeaderInv, OnlyTheLeaderActs, AdvertDue, Tails, Of, InHandler, At
  <2>4. QED
    BY <2>2, <2>3 DEF LeaderInv
<1>4. ASSUME NEW d \in Devices, Register(d) PROVE LeaderInv'
  <2>1. /\ registered' = registered \cup {d}
        /\ UNCHANGED <<proc, port, runs, owner, tailers, txt, faults>>
    BY <1>4 DEF Register
  <2>2. LeaderTypeOK' /\ RunsCounted' /\ TailersOwned'
    BY <1>1, <2>1
       DEF LeaderInv, LeaderTypeOK, RunsCounted, Ending, Served, TailersOwned, Runs
  <2>3. OnlyTheLeaderActs'
    BY <2>1 DEF LeaderInv, OnlyTheLeaderActs, AdvertDue, Tails, Of, InHandler, At
  <2>4. QED
    BY <2>2, <2>3 DEF LeaderInv
<1>5. QED
  BY <1>2, <1>3, <1>4

LEMMA LeaderInitInv == LeaderInit => LeaderInv
<1>1. SUFFICES ASSUME LeaderInit PROVE LeaderInv
  OBVIOUS
<1>2. Unborn \in Process /\ Silent \in Advert /\ ~Unborn.stop /\ Unborn.pc = "new"
      /\ ~Silent.on /\ ~Silent.held
  BY DEF Unborn, Process, Points, Roles, Silent, Advert
<1>3. LeaderTypeOK
  BY <1>1, <1>2, LeaderAssumption DEF LeaderInit, LeaderTypeOK
<1>4. RunsCounted
  <2>1. Ending = {}
    BY <1>1, <1>2 DEF LeaderInit, Ending
  <2>2. QED
    BY <1>1, <2>1, FS_EmptySet DEF LeaderInit, RunsCounted, Served
<1>5. TailersOwned /\ OnlyTheLeaderActs
  BY <1>1, <1>2 DEF LeaderInit, TailersOwned, OnlyTheLeaderActs, AdvertDue, Tails, Of, At
<1>6. QED
  BY <1>3, <1>4, <1>5 DEF LeaderInv

LEMMA LeaderNextInv == LeaderInv /\ LeaderNext => LeaderInv'
<1>1. SUFFICES ASSUME LeaderInv, LeaderNext PROVE LeaderInv'
  OBVIOUS
<1>2. ASSUME NEW p \in Procs, Step(p) PROVE LeaderInv'
  BY <1>1, <1>2, OutsideSteps, AcquireStep, ListenerCloses, UnwindStep, GoneStep DEF Step
<1>3. QED
  BY <1>1, <1>2, OutsideSteps, ListenerCloses, CancelStep, GoneStep, BackgroundSteps
     DEF LeaderNext

LEMMA LeaderStutter ==
  ASSUME LeaderInv, UNCHANGED leaderVars
  PROVE  LeaderInv'
BY DEF LeaderInv, LeaderTypeOK, RunsCounted, Ending, Served, TailersOwned, Runs,
       OnlyTheLeaderActs, AdvertDue, Tails, Of, InHandler, At, leaderVars

-----------------------------------------------------------------------------
(* FirmwareLog: sequences of line numbers *)

LEMMA LeastFacts ==
  ASSUME NEW m \in Nat, NEW n \in Nat
  PROVE  /\ Least(m, n) \in Nat /\ Least(m, n) <= m /\ Least(m, n) <= n
         /\ Least(m, n) = m \/ Least(m, n) = n
BY DEF Least

LEMMA LenOfFunction ==
  ASSUME NEW S, NEW n \in Nat, NEW f \in [1..n -> S]
  PROVE  f \in Seq(S) /\ Len(f) = n
<1>1. f \in Seq(S)
  BY SeqDef
<1>2. Len(f) \in Nat /\ DOMAIN f = 1..Len(f)
  BY <1>1, LenProperties
<1>3. DOMAIN f = 1..n
  OBVIOUS
<1>4. QED
  BY <1>1, <1>2, <1>3

LEMMA LastLinesFacts ==
  ASSUME NEW n \in Nat, NEW limit \in Nat
  PROVE  LET k == Least(limit, Least(Capacity, n)) IN
         /\ k \in Nat /\ k <= n
         /\ LastLines(n, limit) \in Seq(Nat)
         /\ Len(LastLines(n, limit)) = k
         /\ \A i \in 1..k : LastLines(n, limit)[i] = n - k + i
<1> DEFINE k == Least(limit, Least(Capacity, n))
           f == LastLines(n, limit)
<1>1. k \in Nat /\ k <= n
  BY LeastFacts, FirmwareLogAssumption DEF Least
<1>2. f = [i \in 1..k |-> n - k + i]
  BY DEF LastLines
<1> HIDE DEF k
<1>3. f \in [1..k -> Nat] /\ \A i \in 1..k : f[i] = n - k + i
  BY <1>1, <1>2
<1> HIDE DEF f
<1>4. f \in Seq(Nat) /\ Len(f) = k
  BY <1>1, <1>3, LenOfFunction
<1>5. QED
  BY <1>1, <1>3, <1>4 DEF f, k

\* Lines printed one after the other, of those up to the mark.
Printed(s, skipped, upTo) ==
  /\ s \in Seq(Nat)
  /\ Increasing(s)
  /\ \A i \in 1..Len(s) : s[i] \in (skipped + 1)..upTo

LEMMA BacklogPrinted ==
  ASSUME NEW n \in Nat, NEW limit \in Nat
  PROVE  LET got == LastLines(n, limit) IN
         /\ Len(got) \in Nat /\ Len(got) <= n
         /\ Printed(got, n - Len(got), n)
<1> DEFINE k == Least(limit, Least(Capacity, n))
           got == LastLines(n, limit)
<1>1. /\ k \in Nat /\ k <= n /\ got \in Seq(Nat) /\ Len(got) = k
      /\ \A i \in 1..k : got[i] = n - k + i
  BY LastLinesFacts
<1> HIDE DEF k, got
<1>2. Increasing(got)
  BY <1>1 DEF Increasing
<1>3. QED
  BY <1>1, <1>2 DEF Printed, got

\* How many lines an answer adds, and what is printed once it is.
Shown(n, limit, old) == Least(n - old, Len(LastLines(n, limit)))

More(s, n, limit, old) ==
  LET got == LastLines(n, limit)
  IN  s \o SubSeq(got, Len(got) - Shown(n, limit, old) + 1, Len(got))

LEMMA MorePrinted ==
  ASSUME NEW n \in Nat, NEW limit \in Nat, NEW skipped \in Nat, NEW old \in Nat, NEW s,
         skipped <= old, old < n, Printed(s, skipped, old)
  PROVE  /\ Shown(n, limit, old) \in Nat /\ Shown(n, limit, old) <= n - old
         /\ Printed(More(s, n, limit, old), skipped, n)
         /\ Len(More(s, n, limit, old)) = Len(s) + Shown(n, limit, old)
<1> DEFINE k == Least(limit, Least(Capacity, n))
           got == LastLines(n, limit)
           shown == Least(n - old, Len(got))
           last == SubSeq(got, Len(got) - shown + 1, Len(got))
           new == s \o last
<1>0. shown = Shown(n, limit, old) /\ new = More(s, n, limit, old)
  BY DEF Shown, More
<1>1. /\ k \in Nat /\ k <= n /\ got \in Seq(Nat) /\ Len(got) = k
      /\ \A i \in 1..k : got[i] = n - k + i
  BY LastLinesFacts
<1>2. n - old \in Nat
  OBVIOUS
<1>3. shown \in Nat /\ shown <= n - old /\ shown <= k
  BY <1>1, <1>2, LeastFacts
<1> HIDE DEF k, got, shown
<1>4. \A i \in (k - shown + 1)..k : got[i] \in Nat
  BY <1>1, <1>3
<1>5. /\ last \in Seq(Nat)
      /\ Len(last) = IF k - shown + 1 <= k THEN k - (k - shown + 1) + 1 ELSE 0
      /\ \A i \in 1..(k - (k - shown + 1) + 1) : last[i] = got[k - shown + 1 + i - 1]
  <2>1. last = SubSeq(got, k - shown + 1, k) /\ k - shown + 1 \in Int /\ k \in Int
    BY <1>1, <1>3
  <2> HIDE DEF last
  <2>2. QED
    BY <1>4, <2>1, SubSeqProperties
<1>6. Len(last) = shown /\ \A i \in 1..shown : last[i] = n - shown + i
  <2>1. Len(last) = shown
    BY <1>1, <1>3, <1>5
  <2>2. ASSUME NEW i \in 1..shown PROVE last[i] = n - shown + i
    <3>1. i \in 1..(k - (k - shown + 1) + 1) /\ k - shown + 1 + i - 1 = k - shown + i
      BY <1>1, <1>3
    <3>2. last[i] = got[k - shown + i]
      BY <1>5, <3>1
    <3>3. k - shown + i \in 1..k
      BY <1>1, <1>3
    <3>4. got[k - shown + i] = n - k + (k - shown + i)
      BY <1>1, <3>3
    <3>5. QED
      BY <1>1, <1>3, <3>2, <3>4
  <2>3. QED
    BY <2>1, <2>2
<1> HIDE DEF last
<1>7. s \in Seq(Nat) /\ Len(s) \in Nat /\ \A i \in 1..Len(s) : s[i] \in (skipped + 1)..old
  BY LenProperties DEF Printed
<1>8. /\ new \in Seq(Nat) /\ Len(new) = Len(s) + shown
      /\ \A i \in 1..Len(s) + shown : new[i] = IF i <= Len(s) THEN s[i] ELSE last[i - Len(s)]
  BY <1>5, <1>6, <1>7, ConcatProperties
<1> HIDE DEF new
<1>9. ASSUME NEW i \in 1..Len(new), i <= Len(s)
      PROVE  new[i] = s[i] /\ i \in 1..Len(s) /\ new[i] \in (skipped + 1)..old
  <2>1. i \in 1..(Len(s) + shown) /\ i \in 1..Len(s)
    BY <1>3, <1>7, <1>8, <1>9
  <2>2. QED
    BY <1>7, <1>8, <1>9, <2>1
<1>10. ASSUME NEW i \in 1..Len(new), i > Len(s)
       PROVE  new[i] = n - shown + (i - Len(s)) /\ i - Len(s) \in 1..shown
  <2>1. i \in 1..(Len(s) + shown) /\ i - Len(s) \in 1..shown /\ ~(i <= Len(s))
    BY <1>3, <1>7, <1>8, <1>10
  <2>2. new[i] = last[i - Len(s)]
    BY <1>8, <2>1
  <2>3. QED
    BY <1>6, <2>1, <2>2
<1>11. Increasing(new)
  <2>1. SUFFICES ASSUME NEW i \in 1..Len(new), NEW j \in 1..Len(new), i < j
                 PROVE  new[i] < new[j]
    BY DEF Increasing
  <2>2. i \in Nat /\ j \in Nat /\ Len(s) \in Nat
    BY <1>3, <1>7, <1>8
  <2>3. CASE j <= Len(s)
    <3>1. i <= Len(s)
      BY <2>1, <2>2, <2>3
    <3>2. new[i] = s[i] /\ i \in 1..Len(s) /\ new[j] = s[j] /\ j \in 1..Len(s)
      BY <1>9, <2>3, <3>1
    <3>3. QED
      BY <2>1, <3>2 DEF Printed, Increasing
  <2>4. CASE i <= Len(s) /\ j > Len(s)
    <3>1. new[i] \in (skipped + 1)..old
      BY <1>9, <2>4
    <3>2. new[j] = n - shown + (j - Len(s)) /\ j - Len(s) \in 1..shown
      BY <1>10, <2>4
    <3>3. QED
      BY <1>3, <3>1, <3>2
  <2>5. CASE i > Len(s)
    <3>1. j > Len(s)
      BY <2>1, <2>2, <2>5
    <3>2. new[i] = n - shown + (i - Len(s)) /\ new[j] = n - shown + (j - Len(s))
      BY <1>10, <2>5, <3>1
    <3>3. QED
      BY <1>3, <2>1, <2>2, <3>2
  <2>6. QED
    BY <2>2, <2>3, <2>4, <2>5
<1>12. ASSUME NEW i \in 1..Len(new) PROVE new[i] \in (skipped + 1)..n
  <2>1. i \in Nat /\ Len(s) \in Nat
    BY <1>3, <1>7, <1>8
  <2>2. CASE i <= Len(s)
    <3>1. new[i] \in (skipped + 1)..old
      BY <1>9, <2>2
    <3>2. QED
      BY <3>1
  <2>3. CASE i > Len(s)
    <3>1. new[i] = n - shown + (i - Len(s)) /\ i - Len(s) \in 1..shown
      BY <1>10, <2>3
    <3>2. n - shown + 1 > skipped
      BY <1>3
    <3>3. QED
      BY <1>3, <3>1, <3>2
  <2>4. QED
    BY <2>1, <2>2, <2>3
<1>13. QED
  BY <1>0, <1>3, <1>8, <1>11, <1>12 DEF Printed

-----------------------------------------------------------------------------
(* FirmwareLog: the inductive invariant *)

\* What is not closed: nothing of the run was evicted, and everything above what
\* the backlog skipped, up to the mark, is printed or counted as lost.
AccountInv ==
  account # Closed =>
    /\ mark \in Nat
    /\ account.skipped <= mark
    /\ mark <= written[account.run]
    /\ written[account.run] <= Capacity
    /\ Printed(account.printed, account.skipped, mark)
    /\ Len(account.printed) + account.lost = mark - account.skipped

LogInv == LeaderInv /\ LogTypeOK /\ AccountInv

LEMMA LogInitInv == Init => LogInv
<1>1. SUFFICES ASSUME Init PROVE LogInv
  OBVIOUS
<1>2. LeaderInv
  BY <1>1, LeaderInitInv DEF Init
<1>3. LogTypeOK
  BY <1>1, <1>2 DEF Init, LeaderInv, LogTypeOK, NoFetch
<1>4. AccountInv
  BY <1>1 DEF Init, AccountInv
<1>5. QED
  BY <1>2, <1>3, <1>4 DEF LogInv

LEMMA AccountTypes ==
  ASSUME LogInv, account # Closed
  PROVE  /\ account \in Account /\ account.run \in Runs /\ account.run # 0
         /\ account.skipped \in Nat /\ account.printed \in Seq(Nat) /\ account.lost \in Nat
         /\ written[account.run] \in Nat
BY LeaderAssumption DEF LogInv, LogTypeOK, Account, Runs

LEMMA ReadLineStep ==
  ASSUME LogInv, NEW t \in tailers, ReadLine(t)
  PROVE  LogInv'
<1>1. t.run \in Runs
  BY DEF LogInv, LeaderInv, LeaderTypeOK, Tailer
<1>2. LeaderInv'
  BY LeaderStutter DEF ReadLine, LogInv
<1>3. \A e \in Runs : /\ written[e] \in 0..lines
                      /\ written'[e] = IF e = t.run THEN written[e] + 1 ELSE written[e]
                      /\ written'[e] \in 0..(lines + 1)
  BY <1>1 DEF ReadLine, LogInv, LogTypeOK
<1>4. LogTypeOK'
  <2>1. lines' \in Nat /\ written' \in [Runs -> 0..lines']
    BY <1>1, <1>3 DEF ReadLine, LogInv, LogTypeOK
  <2>2. /\ fetch' \in [run : Runs \cup {0}, read : Nat]
        /\ fetch'.run # 0 => fetch'.read <= written'[fetch'.run]
    BY <1>3 DEF ReadLine, LogInv, LogTypeOK
  <2>3. mark' \in 0..Capacity \cup {None} /\ account' \in Account \cup {Closed}
    BY DEF ReadLine, LogInv, LogTypeOK
  <2>4. QED
    BY <1>2, <2>1, <2>2, <2>3 DEF LeaderInv, LogTypeOK
<1>5. AccountInv'
  <2>1. SUFFICES ASSUME account' # Closed PROVE AccountInv'
    BY DEF AccountInv
  <2>2. account' = account /\ ~(t.run = account.run /\ written[t.run] >= Capacity)
    BY <2>1 DEF ReadLine
  <2>3. account # Closed /\ AccountInv
    BY <2>1, <2>2 DEF LogInv
  <2>4. account.run \in Runs /\ written[account.run] \in Nat
    BY <2>3, AccountTypes
  <2>5. mark <= written'[account.run] /\ written'[account.run] <= Capacity
    BY <1>3, <2>2, <2>3, <2>4, FirmwareLogAssumption DEF AccountInv
  <2>6. QED
    BY <2>2, <2>3, <2>5 DEF AccountInv, ReadLine
<1>6. QED
  BY <1>2, <1>4, <1>5 DEF LogInv

LEMMA FetchSteps ==
  ASSUME LogInv, (\E e \in Runs : TailLines(e)) \/ FetchFails
  PROVE  LogInv'
<1>1. LeaderInv'
  BY LeaderStutter DEF TailLines, FetchFails, LogInv
<1>2. UNCHANGED <<lines, written, mark, account>>
  BY DEF TailLines, FetchFails
<1>3. /\ fetch' \in [run : Runs \cup {0}, read : Nat]
      /\ fetch'.run # 0 => fetch'.read <= written[fetch'.run]
  <2>1. ASSUME NEW e \in Runs, TailLines(e)
        PROVE  /\ fetch' \in [run : Runs \cup {0}, read : Nat]
               /\ fetch'.run # 0 => fetch'.read <= written[fetch'.run]
    BY <2>1 DEF TailLines, LogInv, LogTypeOK
  <2>2. CASE FetchFails
    BY <2>2 DEF FetchFails, NoFetch
  <2>3. QED
    BY <2>1, <2>2
<1>4. LogTypeOK'
  BY <1>1, <1>2, <1>3 DEF LogInv, LeaderInv, LogTypeOK
<1>5. AccountInv'
  BY <1>2 DEF LogInv, AccountInv
<1>6. QED
  BY <1>1, <1>4, <1>5 DEF LogInv

LEMMA RetainedFacts ==
  ASSUME NEW n \in Nat
  PROVE  Retained(n) \in 0..Capacity /\ (n <= Capacity => Retained(n) = n)
BY FirmwareLogAssumption DEF Retained, Least

\* A poll that is neither raced nor moved, of a run none of whose lines is evicted.
LEMMA PrintAccount ==
  ASSUME LogInv, PrintAnswer
  PROVE  /\ mark' \in 0..Capacity \cup {None}
         /\ account' \in Account \cup {Closed}
         /\ AccountInv'
<1> DEFINE n == fetch.read
           total == Retained(written[fetch.run])
           limit == IF mark = None THEN Backlog ELSE Want
           got == LastLines(fetch.read, limit)
<1>1. /\ fetch.run \in Runs /\ fetch.run # 0 /\ n \in Nat
      /\ written[fetch.run] \in Nat /\ n <= written[fetch.run]
  BY DEF PrintAnswer, LogInv, LogTypeOK
<1>2. total \in 0..Capacity /\ (written[fetch.run] <= Capacity => total = written[fetch.run])
  BY <1>1, RetainedFacts
<1>3. limit \in Nat /\ Capacity \in Nat
  BY FirmwareLogAssumption
<1>4. mark \in 0..Capacity \cup {None} /\ account \in Account \cup {Closed}
  BY DEF LogInv, LogTypeOK
<1>5. written' = written
  BY DEF PrintAnswer
<1>6. PrintBacklog(total, got) \/ PrintNothing(total) \/ PrintNew(total, got)
  BY DEF PrintAnswer
<1>7. Len(got) \in Nat /\ Len(got) <= n /\ Printed(got, n - Len(got), n)
  BY <1>1, <1>3, BacklogPrinted
<1> HIDE DEF n, total, limit, got
<1>8. CASE PrintBacklog(total, got)
  <2>1. mark' = total
    BY <1>8 DEF PrintBacklog
  <2>2. CASE account' = Closed
    BY <1>2, <2>1, <2>2 DEF AccountInv
  <2>3. CASE account' # Closed
    <3>1. /\ ~Raced /\ fetch.read <= Capacity
          /\ account' = [run |-> fetch.run, skipped |-> n - Len(got),
                         printed |-> got, lost |-> 0]
      BY <1>1, <1>3, <1>8, <2>3 DEF PrintBacklog, n
    <3>2. written[fetch.run] = n /\ total = n /\ n <= Capacity
      BY <1>2, <3>1 DEF Raced, n
    <3>3. account' \in Account
      BY <1>1, <1>7, <3>1 DEF Account, Printed
    <3>4. AccountInv'
      BY <1>1, <1>5, <1>7, <2>1, <3>1, <3>2 DEF AccountInv
    <3>5. QED
      BY <1>2, <2>1, <3>3, <3>4
  <2>4. QED
    BY <2>2, <2>3
<1>9. CASE PrintNothing(total)
  <2>1. mark' = mark /\ account' \in {account, Closed}
    BY <1>9 DEF PrintNothing
  <2>2. AccountInv'
    BY <1>5, <2>1 DEF LogInv, AccountInv
  <2>3. QED
    BY <1>4, <2>1, <2>2
<1>10. CASE PrintNew(total, got)
  <2>1. mark \in Nat /\ mark # None /\ total > mark
    BY <1>4, <1>10 DEF PrintNew
  <2>2. mark' = total
    BY <1>10 DEF PrintNew, NewMark
  <2>3. CASE account' = Closed
    BY <1>2, <2>2, <2>3 DEF AccountInv
  <2>4. CASE account' # Closed
    <3> DEFINE shown == Shown(n, limit, mark)
               new == More(account.printed, n, limit, mark)
    <3>1. ~Raced /\ ~Moved
      BY <1>10, <2>4 DEF PrintNew
    <3>2. account.run = fetch.run /\ account # Closed
      BY <1>1, <3>1 DEF Moved, Closed
    <3>3. AccountInv
      BY DEF LogInv
    <3>4. written[fetch.run] = n /\ total = n /\ n <= Capacity /\ mark < n
      BY <1>2, <2>1, <3>1, <3>2, <3>3 DEF Raced, n, AccountInv
    <3>5. /\ account \in Account /\ account.skipped \in Nat
          /\ account.lost \in Nat /\ account.printed \in Seq(Nat)
      BY <3>2, AccountTypes
    <3>6. account.skipped <= mark /\ Printed(account.printed, account.skipped, mark)
      BY <3>2, <3>3 DEF AccountInv
    <3>7. /\ shown \in Nat /\ shown <= n - mark
          /\ Printed(new, account.skipped, n) /\ Len(new) = Len(account.printed) + shown
      <4>1. mark \in Nat /\ n \in Nat /\ limit \in Nat /\ account.skipped \in Nat
        BY <1>1, <1>3, <2>1, <3>5
      <4>2. mark < n
        BY <3>4
      <4> HIDE DEF shown, new
      <4>3. ASSUME NEW s, NEW skipped \in Nat, skipped <= mark, Printed(s, skipped, mark)
            PROVE  /\ Shown(n, limit, mark) \in Nat /\ Shown(n, limit, mark) <= n - mark
                   /\ Printed(More(s, n, limit, mark), skipped, n)
                   /\ Len(More(s, n, limit, mark)) = Len(s) + Shown(n, limit, mark)
        BY <4>1, <4>2, <4>3, MorePrinted
      <4>4. QED
        BY <3>6, <4>1, <4>3 DEF shown, new
    <3> HIDE DEF shown, new
    <3>7a. account' = [account EXCEPT !.printed = new,
                                      !.lost = account.lost + (n - mark - shown)]
      <4>1. account' = [account EXCEPT
                                  !.printed = @ \o SubSeq(got, Len(got) - Least(n - mark, Len(got)) + 1, Len(got)),
                                  !.lost = @ + (n - mark - Least(n - mark, Len(got)))]
        BY <1>10, <2>4, <3>1, <3>4 DEF PrintNew
      <4>2. QED
        BY <4>1 DEF shown, new, Shown, More, got, n
    <3>8. /\ account'.run = fetch.run /\ account'.skipped = account.skipped
          /\ account'.printed = new /\ account'.lost = account.lost + (n - mark - shown)
      BY <3>2, <3>5, <3>7a DEF Account
    <3>9. account' \in Account
      <4>1. account.lost + (n - mark - shown) \in Nat /\ new \in Seq(Nat)
        BY <1>1, <2>1, <3>4, <3>5, <3>7 DEF Printed
      <4>2. QED
        BY <3>5, <3>7a, <4>1 DEF Account
    <3>10. Len(account'.printed) + account'.lost = mark' - account'.skipped
      <4>1. Len(account.printed) + account.lost = mark - account.skipped
        BY <3>2, <3>3 DEF AccountInv
      <4>2. Len(account.printed) \in Nat
        BY <3>5, LenProperties
      <4>3. (Len(account.printed) + shown) + (account.lost + (n - mark - shown))
              = n - account.skipped
        <5>1. mark \in Nat /\ n \in Nat
          BY <1>1, <2>1
        <5>2. shown \in Nat
          BY <3>7
        <5>3. account.skipped \in Nat /\ account.lost \in Nat
          BY <3>5
        <5>4. QED
          BY <4>1, <4>2, <5>1, <5>2, <5>3
      <4>4. QED
        BY <2>2, <3>4, <3>7, <3>8, <4>3
    <3>11. AccountInv'
      <4>1. written'[account'.run] = n /\ mark' = n
        BY <1>5, <2>2, <3>4, <3>8
      <4>2. account'.skipped <= mark'
        BY <1>1, <2>1, <3>4, <3>5, <3>6, <3>8, <4>1
      <4>3. Printed(account'.printed, account'.skipped, mark')
        BY <3>7, <3>8, <4>1
      <4>4. QED
        BY <1>1, <3>4, <3>10, <4>1, <4>2, <4>3 DEF AccountInv
    <3>12. QED
      BY <1>2, <2>2, <3>9, <3>11
  <2>5. QED
    BY <2>3, <2>4
<1>11. QED
  BY <1>6, <1>8, <1>9, <1>10

LEMMA PrintStep ==
  ASSUME LogInv, PrintAnswer
  PROVE  LogInv'
<1>1. LeaderInv'
  BY LeaderStutter DEF PrintAnswer, LogInv
<1>2. UNCHANGED <<lines, written>> /\ fetch' = NoFetch
  BY DEF PrintAnswer
<1>3. LogTypeOK'
  BY <1>1, <1>2, PrintAccount DEF LogInv, LeaderInv, LogTypeOK, NoFetch
<1>4. QED
  BY <1>1, <1>3, PrintAccount DEF LogInv

LEMMA LogNextInv == LogInv /\ [Next]_vars => LogInv'
<1>1. SUFFICES ASSUME LogInv, [Next]_vars PROVE LogInv'
  OBVIOUS
<1>2. ASSUME LeaderInv', UNCHANGED logVars PROVE LogInv'
  <2>1. UNCHANGED <<lines, written, fetch, mark, account>>
    BY <1>2 DEF logVars
  <2>2. LogTypeOK'
    BY <1>1, <1>2, <2>1 DEF LogInv, LeaderInv, LogTypeOK
  <2>3. AccountInv'
    BY <1>1, <2>1 DEF LogInv, AccountInv
  <2>4. QED
    BY <1>2, <2>2, <2>3 DEF LogInv
<1>3. CASE LeaderNext /\ UNCHANGED logVars
  BY <1>1, <1>2, <1>3, LeaderNextInv DEF LogInv
<1>4. CASE UNCHANGED vars
  BY <1>1, <1>2, <1>4, LeaderStutter DEF LogInv, vars
<1>5. QED
  BY <1>1, <1>3, <1>4, ReadLineStep, FetchSteps, PrintStep DEF Next

THEOREM LogInvariant == Spec => []LogInv
<1>1. QED
  BY LogInitInv, LogNextInv, PTL DEF Spec

-----------------------------------------------------------------------------
(* The theorems *)

\* Every state of the processes, their background goroutines and the follower is
\* well typed; in particular a run's buffer is never read beyond what was
\* written, and the high-water mark never exceeds the ring.
THEOREM BrokerTypeCorrect == Spec => []LogTypeOK
<1>1. LogInv => LogTypeOK
  BY DEF LogInv
<1>2. QED
  BY <1>1, LogInvariant, PTL

\* Only a process in its handler has a tailer that goes on reading, and one such
\* tailer; an advertisement is that of a handler, or one that the background
\* goroutine of a stopped process has yet to withdraw; the one that serves has the
\* port - whatever fails, is cancelled or dies, for any number of processes.
THEOREM OneProcessActs == LeaderSpec => []OnlyTheLeaderActs
<1>1. LeaderInv /\ [LeaderNext]_leaderVars => LeaderInv'
  BY LeaderNextInv, LeaderStutter
<1>2. LeaderInv => OnlyTheLeaderActs
  BY DEF LeaderInv
<1>3. QED
  BY LeaderInitInv, <1>1, <1>2, PTL DEF LeaderSpec

\* A follower prints every line once and in order, or reports it as lost, as long
\* as the ring evicts none, no line comes between the two reads of an answer and
\* one handler run answers - for every size of the ring and of the two requests.
THEOREM EveryLineAccounted == Spec => []NothingMissed
<1>1. LogInv => NothingMissed
  BY DEF LogInv, AccountInv, Printed, NothingMissed
<1>2. QED
  BY <1>1, LogInvariant, PTL
=============================================================================
