----------------------------- MODULE UsageCache -----------------------------
(***************************************************************************)
(* Cache.Get of internal/usage for one provider, as the handlers of        *)
(* /usage/{provider} call it.  (Providers share nothing but the mutex.)    *)
(*                                                                         *)
(* A Get that finds no fresh entry either leads a flight - it registers a  *)
(* channel, fetches with the mutex released, stores the snapshot, sends    *)
(* its result on the channel and closes it - or waits on the channel of    *)
(* the flight it finds registered.  The channel holds one result.          *)
(*                                                                         *)
(* Flights are numbered, and the snapshot a flight fetched bears its       *)
(* number; 0 is the zero Snapshot.  The age of an entry is reduced to      *)
(* whether it is within the TTL.                                           *)
(***************************************************************************)
EXTENDS Naturals

CONSTANTS Handlers,    \* concurrent requests
          MaxFlights,  \* bound: flights
          None

ASSUME UsageAssumption ==
  /\ MaxFlights \in Nat
  /\ None \notin [snap : Nat, err : BOOLEAN]

VARIABLES
  entry,    \* snapshot of the cache entry, 0 if it has no value
  fresh,    \* the entry is within its TTL
  flight,   \* inFlights: the flight registered, 0 if there is none
  started,  \* flights so far
  chan,     \* chan[f]: the channel of flight f
  get,      \* get[h]: the Get of handler h, and the answer it gave
  served    \* history: the newest snapshot answered so far

vars == <<entry, fresh, flight, started, chan, get, served>>

-----------------------------------------------------------------------------

Flights == 1..MaxFlights

Result == [snap : Nat, err : BOOLEAN]
Zero == [snap |-> 0, err |-> FALSE]

Channel == [buffer : Result \cup {None}, closed : BOOLEAN]

Statuses == {"none", "fresh", "stale", "error"}
Points == {"idle", "fetch", "send", "close", "wait"}

Locals ==
  [pc     : Points,
   flight : Flights \cup {0},     \* the flight it leads or waits for
   old    : Nat,                  \* leader: e, the entry it found
   result : Result,               \* leader: what Fetch came to
   least  : Nat,                  \* history: served when it began
   status : Statuses,
   snap   : Nat]

Idle ==
  [pc |-> "idle", flight |-> 0, old |-> 0, result |-> Zero, least |-> 0,
   status |-> "none", snap |-> 0]

UsageTypeOK ==
  /\ entry \in Flights \cup {0}
  /\ fresh \in BOOLEAN
  /\ flight \in Flights \cup {0}
  /\ started \in Flights \cup {0}
  /\ chan \in [Flights -> Channel]
  /\ get \in [Handlers -> Locals]
  /\ served \in Nat
  /\ \A h \in Handlers : get[h].pc # "idle" => get[h].flight \in Flights

Init ==
  /\ entry = 0
  /\ fresh = FALSE
  /\ flight = 0
  /\ started = 0
  /\ chan = [f \in Flights |-> [buffer |-> None, closed |-> FALSE]]
  /\ get = [h \in Handlers |-> Idle]
  /\ served = 0

-----------------------------------------------------------------------------

At(h, pc) == get[h].pc = pc

\* handleUsage's answer to what Get returned: stale-with-error if there is a
\* snapshot, an error if there is none.
Status(result) ==
  IF ~result.err THEN "fresh" ELSE IF result.snap > 0 THEN "stale" ELSE "error"

Return(h, result, least) ==
  /\ get' = [get EXCEPT ![h] = [Idle EXCEPT !.status = Status(result), !.snap = result.snap,
                                            !.least = least]]
  /\ served' = IF result.snap > served THEN result.snap ELSE served

Hit(h) ==
  /\ At(h, "idle")
  /\ entry > 0 /\ fresh
  /\ Return(h, [snap |-> entry, err |-> FALSE], served)
  /\ UNCHANGED <<entry, fresh, flight, started, chan>>

\* The caller of a Get that does not hit, at pc, with a flight.
Enter(h, pc, f) ==
  get' = [get EXCEPT ![h] = [Idle EXCEPT !.pc = pc, !.flight = f, !.old = entry,
                                         !.least = served]]

\* Waiting on the channel of no flight (a nil channel).
JoinNone(h) ==
  /\ At(h, "idle")
  /\ ~(entry > 0 /\ fresh)
  /\ Enter(h, "wait", flight)
  /\ UNCHANGED <<entry, fresh, flight, started, chan, served>>

Join(h) ==
  /\ At(h, "idle")
  /\ ~(entry > 0 /\ fresh)
  /\ flight # 0
  /\ Enter(h, "wait", flight)
  /\ UNCHANGED <<entry, fresh, flight, started, chan, served>>

\* A flight begun although one is registered.
AlwaysFree == TRUE

Free == flight = 0

Lead(h) ==
  /\ At(h, "idle")
  /\ ~(entry > 0 /\ fresh)
  /\ Free
  /\ started < MaxFlights
  /\ started' = started + 1
  /\ flight' = started + 1
  /\ Enter(h, "fetch", started + 1)
  /\ UNCHANGED <<entry, fresh, chan, served>>

\* The snapshot a failed flight falls back to.
FallBack(h) == get[h].old

\* Fetch returns, at the latest when the request's context ends, and the result
\* is stored under the mutex.  A failure puts back the entry the leader found.
Land(h) ==
  /\ At(h, "fetch")
  /\ flight' = 0
  /\ \/ /\ entry' = get[h].flight
        /\ fresh' = TRUE
        /\ get' = [get EXCEPT ![h].pc = "send",
                              ![h].result = [snap |-> get[h].flight, err |-> FALSE]]
     \/ /\ entry' = FallBack(h)
        /\ UNCHANGED fresh
        /\ get' = [get EXCEPT ![h].pc = "send",
                              ![h].result = [snap |-> FallBack(h), err |-> TRUE]]
  /\ UNCHANGED <<started, chan, served>>

Send(h) ==
  /\ At(h, "send")
  /\ chan' = [chan EXCEPT ![get[h].flight].buffer = get[h].result]
  /\ get' = [get EXCEPT ![h].pc = "close"]
  /\ UNCHANGED <<entry, fresh, flight, started, served>>

\* The leader returns with the channel open.
LeaveOpen(h) ==
  /\ At(h, "close")
  /\ Return(h, get[h].result, get[h].least)
  /\ UNCHANGED <<entry, fresh, flight, started, chan>>

Close(h) ==
  /\ At(h, "close")
  /\ chan' = [chan EXCEPT ![get[h].flight].closed = TRUE]
  /\ Return(h, get[h].result, get[h].least)
  /\ UNCHANGED <<entry, fresh, flight, started>>

\* One waiter takes the result; the others find the channel closed and receive
\* the zero value.
Receive(h) ==
  /\ At(h, "wait")
  /\ LET c == chan[get[h].flight]
     IN  \/ /\ c.buffer # None
            /\ Return(h, c.buffer, get[h].least)
            /\ chan' = [chan EXCEPT ![get[h].flight].buffer = None]
         \/ /\ c.buffer = None
            /\ c.closed
            /\ Return(h, Zero, get[h].least)
            /\ UNCHANGED chan
  /\ UNCHANGED <<entry, fresh, flight, started>>

\* The waiter's request ends before the flight.
Cancel(h) ==
  /\ At(h, "wait")
  /\ Return(h, [snap |-> 0, err |-> TRUE], get[h].least)
  /\ UNCHANGED <<entry, fresh, flight, started, chan>>

Expire ==
  /\ entry > 0 /\ fresh
  /\ fresh' = FALSE
  /\ UNCHANGED <<entry, flight, started, chan, get, served>>

Progress(h) == Land(h) \/ Send(h) \/ Close(h) \/ Receive(h)

Next ==
  \/ \E h \in Handlers : Hit(h) \/ Join(h) \/ Lead(h) \/ Progress(h) \/ Cancel(h)
  \/ Expire

Spec == Init /\ [][Next]_vars

\* A fetch ends, since its context has a deadline, and goroutines are scheduled.
\* Nothing is assumed of the deadline of a waiter.
LiveSpec == Spec /\ \A h \in Handlers : WF_vars(Progress(h))

-----------------------------------------------------------------------------
(* Properties *)

\* One upstream request at a time, although the mutex is released during it.
SingleFlight ==
  \A g, h \in Handlers : At(g, "fetch") /\ At(h, "fetch") => g = h

\* The display never goes back: a request that began after another was answered
\* is not answered with an older snapshot - by the cache, by a flight it joined,
\* by the fall-back of a flight that failed (the leader's copy of the entry).
NeverGoesBack ==
  \A h \in Handlers :
    At(h, "idle") /\ get[h].snap > 0 => get[h].least <= get[h].snap

\* A waiter does not hang until its deadline when its flight has ended, also when
\* another waiter has taken the one result (close after send).
AllAnswered == \A h \in Handlers : ~At(h, "idle") ~> At(h, "idle")

\* handleUsage: 200 comes with a snapshot, a failure without one is an error.
AnswerHasSnapshot ==
  \A h \in Handlers : get[h].status \in {"fresh", "stale"} => get[h].snap > 0
=============================================================================
