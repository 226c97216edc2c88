-------------------------- MODULE UsageCacheProofs --------------------------
(***************************************************************************)
(* For any number of handlers and flights: one fetch at a time, and no     *)
(* request is answered with a snapshot older than one answered before it   *)
(* began.                                                                  *)
(*                                                                         *)
(* The mutex is released during a fetch, so what the leader read before it *)
(* must still hold when it lands: the flight registered is its own, and    *)
(* the entry is the one it found (FetcherOwns).  The entry then only       *)
(* grows, and a waiter, who joined while its flight was registered, began  *)
(* before the flight landed (ResultsNew).                                  *)
(***************************************************************************)
EXTENDS UsageCache, TLAPS

\* What a fetching leader found before it released the mutex still holds.
FetcherOwns ==
  \A h \in Handlers : At(h, "fetch") =>
    /\ get[h].flight = flight
    /\ get[h].old = entry

\* A snapshot bears the number of a flight begun before the one registered.
EntryOld ==
  /\ entry <= started
  /\ flight <= started
  /\ flight # 0 => entry < flight
  /\ served <= entry
  /\ \A h \in Handlers : get[h].least <= served

\* A registered flight has no result yet, and nor has one that has not begun.
NoResultYet ==
  /\ \A h \in Handlers :
       /\ ~At(h, "idle") => get[h].flight <= started
       /\ At(h, "send") => get[h].flight # flight
  /\ \A f \in Flights : f = flight \/ f > started => chan[f].buffer = None

\* A result is at least as new as anything answered before those it is for began.
NewFor(result, h) == result.snap > 0 => get[h].least <= result.snap

ResultsNew ==
  /\ \A h \in Handlers : At(h, "send") \/ At(h, "close") =>
       /\ get[h].result \in Result
       /\ get[h].result.snap <= entry
       /\ NewFor(get[h].result, h)
  /\ \A g, h \in Handlers :
       At(g, "send") /\ At(h, "wait") /\ get[g].flight = get[h].flight
         => NewFor(get[g].result, h)
  /\ \A f \in Flights : chan[f].buffer # None => chan[f].buffer.snap <= entry
  /\ \A h \in Handlers :
       At(h, "wait") /\ chan[get[h].flight].buffer # None
         => NewFor(chan[get[h].flight].buffer, h)

Inv == /\ UsageTypeOK /\ FetcherOwns /\ EntryOld /\ NoResultYet /\ ResultsNew
       /\ SingleFlight /\ NeverGoesBack

-----------------------------------------------------------------------------

\* What a handler's answer changes.
LEMMA ReturnFacts ==
  ASSUME Inv, NEW h \in Handlers, NEW r \in Result, NEW least \in Nat,
         Return(h, r, least)
  PROVE  /\ get' \in [Handlers -> Locals]
         /\ \A g \in Handlers : g # h => get'[g] = get[g]
         /\ get'[h].pc = "idle" /\ get'[h].snap = r.snap /\ get'[h].least = least
         /\ served' \in Nat /\ served <= served'
         /\ \A n \in Nat : served <= n /\ r.snap <= n => served' <= n
<1>1. get \in [Handlers -> Locals] /\ served \in Nat /\ r.snap \in Nat
  BY DEF Inv, UsageTypeOK, Result
<1>2. Status(r) \in Statuses
  BY DEF Status, Statuses
<1>3. [Idle EXCEPT !.status = Status(r), !.snap = r.snap, !.least = least] \in Locals
  BY <1>1, <1>2 DEF Idle, Locals, Points, Result, Zero
<1> QED BY <1>1, <1>3 DEF Return, Idle

\* An answer no newer than the entry and new enough for its handler keeps the
\* invariant, when the channels lose nothing but results.
LEMMA ReturnInv ==
  ASSUME Inv, NEW h \in Handlers, NEW r \in Result, NEW least \in Nat,
         Return(h, r, least), ~At(h, "fetch"),
         least <= served, r.snap <= entry, r.snap > 0 => least <= r.snap,
         UNCHANGED <<entry, fresh, flight, started>>,
         chan' \in [Flights -> Channel],
         \A f \in Flights : chan'[f].buffer \in {chan[f].buffer, None}
  PROVE  Inv'
<1>1. /\ get' \in [Handlers -> Locals]
      /\ \A g \in Handlers : g # h => get'[g] = get[g]
      /\ get'[h].pc = "idle" /\ get'[h].snap = r.snap /\ get'[h].least = least
      /\ served' \in Nat /\ served <= served' /\ served' <= entry
  <2>1. entry \in Nat /\ served <= entry
    BY DEF Inv, UsageTypeOK, EntryOld, Flights
  <2> QED BY <2>1, ReturnFacts
<1>2. UsageTypeOK'
  BY <1>1 DEF Inv, UsageTypeOK, At
<1>3. FetcherOwns' /\ SingleFlight'
  BY <1>1 DEF Inv, FetcherOwns, SingleFlight, At
<1>4. EntryOld'
  <2>1. \A g \in Handlers : get[g].least \in Nat
    BY DEF Inv, UsageTypeOK, Locals
  <2>2. served \in Nat
    BY DEF Inv, UsageTypeOK
  <2>3. \A g \in Handlers : get'[g].least <= served'
    BY <1>1, <2>1, <2>2 DEF Inv, EntryOld
  <2> QED BY <1>1, <2>3 DEF Inv, EntryOld
<1>5. NoResultYet'
  BY <1>1 DEF Inv, NoResultYet, At
<1>6. ResultsNew'
  <2>1. \A g \in Handlers : At(g, "wait") => get[g].flight \in Flights
    BY DEF Inv, UsageTypeOK, At
  <2> QED BY <1>1, <2>1 DEF Inv, ResultsNew, NewFor, At
<1>7. NeverGoesBack'
  BY <1>1 DEF Inv, NeverGoesBack, At
<1> QED BY <1>2, <1>3, <1>4, <1>5, <1>6, <1>7 DEF Inv

LEMMA HitInv == ASSUME Inv, NEW h \in Handlers, Hit(h) PROVE Inv'
<1> DEFINE r == [snap |-> entry, err |-> FALSE]
<1>1. /\ entry \in Nat /\ served \in Nat /\ served <= entry
      /\ chan \in [Flights -> Channel]
  BY DEF Inv, UsageTypeOK, EntryOld, Flights
<1>2. r \in Result /\ r.snap = entry
  BY <1>1 DEF Result
<1>3. Return(h, r, served) /\ ~At(h, "fetch") /\ UNCHANGED <<entry, fresh, flight, started, chan>>
  BY DEF Hit, At
<1> HIDE DEF r
<1> QED BY <1>1, <1>2, <1>3, ReturnInv

\* What a handler awaiting its flight, or leading one, began with.
LEMMA CallerFacts ==
  ASSUME Inv, NEW h \in Handlers, ~At(h, "idle")
  PROVE  /\ get[h].flight \in Flights
         /\ get[h].least \in Nat /\ get[h].least <= served
         /\ entry \in Nat /\ started \in Nat /\ flight \in Nat /\ served \in Nat
         /\ chan \in [Flights -> Channel]
  BY DEF Inv, UsageTypeOK, EntryOld, Locals, Flights, At

LEMMA CloseInv == ASSUME Inv, NEW h \in Handlers, Close(h) PROVE Inv'
<1> DEFINE r == get[h].result
           f == get[h].flight
<1>1. /\ At(h, "close") /\ Return(h, r, get[h].least)
      /\ chan' = [chan EXCEPT ![f].closed = TRUE]
      /\ UNCHANGED <<entry, fresh, flight, started>>
  BY DEF Close
<1>2. ~At(h, "idle") /\ ~At(h, "fetch")
  BY <1>1 DEF At
<1>3. /\ get[h].least \in Nat /\ get[h].least <= served
      /\ chan \in [Flights -> Channel] /\ f \in Flights
  BY <1>2, CallerFacts
<1>4. r \in Result /\ r.snap <= entry /\ (r.snap > 0 => get[h].least <= r.snap)
  BY <1>1 DEF Inv, ResultsNew, NewFor
<1>5. /\ chan' \in [Flights -> Channel]
      /\ \A g \in Flights : chan'[g].buffer = chan[g].buffer
  BY <1>1, <1>3 DEF Channel
<1> HIDE DEF r, f
<1> QED BY <1>1, <1>2, <1>3, <1>4, <1>5, ReturnInv

LEMMA ReceiveInv == ASSUME Inv, NEW h \in Handlers, Receive(h) PROVE Inv'
<1> DEFINE f == get[h].flight
           r == chan[f].buffer
<1>1. At(h, "wait") /\ UNCHANGED <<entry, fresh, flight, started>>
  BY DEF Receive
<1>2. ~At(h, "idle") /\ ~At(h, "fetch")
  BY <1>1 DEF At
<1>3. /\ get[h].least \in Nat /\ get[h].least <= served /\ entry \in Nat
      /\ chan \in [Flights -> Channel] /\ f \in Flights
  BY <1>2, CallerFacts
<1>4. CASE r # None
  <2>1. Return(h, r, get[h].least) /\ chan' = [chan EXCEPT ![f].buffer = None]
    BY <1>4 DEF Receive
  <2>2. r \in Result
    BY <1>3, <1>4 DEF Channel
  <2>3. r.snap <= entry /\ (r.snap > 0 => get[h].least <= r.snap)
    BY <1>1, <1>3, <1>4 DEF Inv, ResultsNew, NewFor
  <2>4. /\ chan' \in [Flights -> Channel]
        /\ \A g \in Flights : chan'[g].buffer \in {chan[g].buffer, None}
    BY <1>3, <2>1 DEF Channel
  <2> HIDE DEF r, f
  <2> QED BY <1>1, <1>2, <1>3, <2>1, <2>2, <2>3, <2>4, ReturnInv
<1>5. CASE r = None
  <2>1. Return(h, Zero, get[h].least) /\ UNCHANGED chan
    BY <1>5 DEF Receive
  <2>2. Zero \in Result /\ Zero.snap = 0
    BY DEF Zero, Result
  <2> QED BY <1>1, <1>2, <1>3, <2>1, <2>2, ReturnInv
<1> QED BY <1>4, <1>5

LEMMA CancelInv == ASSUME Inv, NEW h \in Handlers, Cancel(h) PROVE Inv'
<1> DEFINE r == [snap |-> 0, err |-> TRUE]
<1>1. /\ At(h, "wait") /\ Return(h, r, get[h].least)
      /\ UNCHANGED <<entry, fresh, flight, started, chan>>
  BY DEF Cancel
<1>2. ~At(h, "idle") /\ ~At(h, "fetch")
  BY <1>1 DEF At
<1>3. /\ get[h].least \in Nat /\ get[h].least <= served /\ entry \in Nat
      /\ chan \in [Flights -> Channel]
  BY <1>2, CallerFacts
<1>4. r \in Result /\ r.snap = 0
  BY DEF Result
<1> HIDE DEF r
<1> QED BY <1>1, <1>2, <1>3, <1>4, ReturnInv

-----------------------------------------------------------------------------
(* A flight *)

\* What a handler that finds no fresh entry changes.
LEMMA EnterFacts ==
  ASSUME Inv, NEW h \in Handlers, NEW pc \in {"wait", "fetch"}, NEW f \in Flights,
         Enter(h, pc, f)
  PROVE  /\ get' \in [Handlers -> Locals]
         /\ \A g \in Handlers : g # h => get'[g] = get[g]
         /\ get'[h].pc = pc /\ get'[h].flight = f
         /\ get'[h].old = entry /\ get'[h].least = served
<1>1. get \in [Handlers -> Locals] /\ served \in Nat /\ entry \in Nat
  BY DEF Inv, UsageTypeOK, Flights
<1>2. [Idle EXCEPT !.pc = pc, !.flight = f, !.old = entry, !.least = served] \in Locals
  BY <1>1 DEF Idle, Locals, Points, Result, Zero, Statuses
<1> QED BY <1>1, <1>2 DEF Enter, Idle

LEMMA JoinInv == ASSUME Inv, NEW h \in Handlers, Join(h) PROVE Inv'
<1>1. /\ At(h, "idle") /\ flight # 0 /\ Enter(h, "wait", flight)
      /\ UNCHANGED <<entry, fresh, flight, started, chan, served>>
  BY DEF Join
<1>2. flight \in Flights /\ flight \in Nat /\ started \in Nat /\ served \in Nat
  BY <1>1 DEF Inv, UsageTypeOK, Flights
<1>3. /\ get' \in [Handlers -> Locals]
      /\ \A g \in Handlers : g # h => get'[g] = get[g]
      /\ get'[h].pc = "wait" /\ get'[h].flight = flight
      /\ get'[h].old = entry /\ get'[h].least = served
  BY <1>1, <1>2, EnterFacts
<1>4. UsageTypeOK'
  BY <1>1, <1>2, <1>3 DEF Inv, UsageTypeOK, At
<1>5. FetcherOwns' /\ SingleFlight'
  BY <1>1, <1>3 DEF Inv, FetcherOwns, SingleFlight, At
<1>6. EntryOld'
  BY <1>1, <1>2, <1>3 DEF Inv, EntryOld
<1>7. NoResultYet'
  BY <1>1, <1>2, <1>3 DEF Inv, NoResultYet, EntryOld, At
<1>8. ResultsNew'
  <2>1. \A g \in Handlers : g # h /\ At(g, "send") => get[g].flight # flight
    BY DEF Inv, NoResultYet
  <2>2. chan[flight].buffer = None
    BY <1>2 DEF Inv, NoResultYet
  <2> QED BY <1>1, <1>3, <2>1, <2>2 DEF Inv, ResultsNew, NewFor, At
<1>9. NeverGoesBack'
  BY <1>3 DEF Inv, NeverGoesBack, At
<1> QED BY <1>4, <1>5, <1>6, <1>7, <1>8, <1>9 DEF Inv

LEMMA LeadInv == ASSUME Inv, NEW h \in Handlers, Lead(h) PROVE Inv'
<1> DEFINE f == started + 1
<1>1. /\ At(h, "idle") /\ flight = 0 /\ started < MaxFlights
      /\ started' = f /\ flight' = f /\ Enter(h, "fetch", f)
      /\ UNCHANGED <<entry, fresh, chan, served>>
  BY DEF Lead, Free
<1>2. /\ started \in Nat /\ entry \in Nat /\ served \in Nat /\ f \in Flights
      /\ entry <= started
  BY <1>1, UsageAssumption DEF Inv, UsageTypeOK, Flights, EntryOld
<1>3. /\ get' \in [Handlers -> Locals]
      /\ \A g \in Handlers : g # h => get'[g] = get[g]
      /\ get'[h].pc = "fetch" /\ get'[h].flight = f
      /\ get'[h].old = entry /\ get'[h].least = served
  BY <1>1, <1>2, EnterFacts
<1>4. UsageTypeOK'
  BY <1>1, <1>2, <1>3 DEF Inv, UsageTypeOK, At
<1>5. FetcherOwns' /\ SingleFlight'
  <2>1. \A g \in Handlers : ~At(g, "fetch")
    BY <1>1 DEF Inv, FetcherOwns, UsageTypeOK, Flights, At
  <2> QED BY <1>1, <1>3, <2>1 DEF FetcherOwns, SingleFlight, At
<1>6. EntryOld'
  BY <1>1, <1>2, <1>3 DEF Inv, EntryOld
<1>7. NoResultYet'
  <2>1. \A g \in Handlers : ~At(g, "idle") =>
          get[g].flight \in Nat /\ get[g].flight <= started
    BY DEF Inv, NoResultYet, UsageTypeOK, Flights, At
  <2>2. \A i \in Flights : i >= f => chan[i].buffer = None
    BY <1>2 DEF Inv, NoResultYet, Flights
  <2>3. \A g \in Handlers :
          /\ ~At(g, "idle")' => get'[g].flight <= f
          /\ At(g, "send")' => get'[g].flight # f
    BY <1>1, <1>2, <1>3, <2>1 DEF At
  <2>4. \A i \in Flights : i = f \/ i > f => i >= f
    BY <1>2 DEF Flights
  <2> QED BY <1>1, <2>2, <2>3, <2>4 DEF NoResultYet
<1>8. ResultsNew'
  BY <1>1, <1>3 DEF Inv, ResultsNew, NewFor, At
<1>9. NeverGoesBack'
  BY <1>3 DEF Inv, NeverGoesBack, At
<1> QED BY <1>4, <1>5, <1>6, <1>7, <1>8, <1>9 DEF Inv

LEMMA SendInv == ASSUME Inv, NEW h \in Handlers, Send(h) PROVE Inv'
<1> DEFINE f == get[h].flight
           r == get[h].result
<1>1. /\ At(h, "send") /\ chan' = [chan EXCEPT ![f].buffer = r]
      /\ get' = [get EXCEPT ![h].pc = "close"]
      /\ UNCHANGED <<entry, fresh, flight, started, served>>
  BY DEF Send
<1>2. /\ f \in Flights /\ chan \in [Flights -> Channel]
      /\ f \in Nat /\ started \in Nat /\ f <= started /\ f # flight
      /\ r \in Result /\ r.snap <= entry
  BY <1>1, CallerFacts DEF Inv, NoResultYet, ResultsNew, Flights, At
<1>3. /\ get' \in [Handlers -> Locals]
      /\ \A g \in Handlers : g # h => get'[g] = get[g]
      /\ get'[h].pc = "close" /\ get'[h].flight = f /\ get'[h].result = r
      /\ get'[h].least = get[h].least
  BY <1>1 DEF Inv, UsageTypeOK, Locals, Points
<1>4. /\ chan' \in [Flights -> Channel] /\ chan'[f].buffer = r
      /\ \A i \in Flights : i # f => chan'[i] = chan[i]
  BY <1>1, <1>2 DEF Channel
<1>5. UsageTypeOK'
  BY <1>1, <1>2, <1>3, <1>4 DEF Inv, UsageTypeOK, At
<1>6. FetcherOwns' /\ SingleFlight'
  BY <1>1, <1>3 DEF Inv, FetcherOwns, SingleFlight, At
<1>7. EntryOld'
  BY <1>1, <1>3 DEF Inv, EntryOld
<1>8. NoResultYet'
  <2>1. \A i \in Flights : i = flight \/ i > started => i # f
    BY <1>2 DEF Flights
  <2> QED BY <1>1, <1>2, <1>3, <1>4, <2>1 DEF Inv, NoResultYet, At
<1>9. ResultsNew'
  <2>1. \A g \in Handlers : At(g, "send") \/ At(g, "close") =>
          /\ get[g].result \in Result
          /\ get[g].result.snap <= entry
          /\ NewFor(get[g].result, g)
    BY DEF Inv, ResultsNew
  <2>2. \A g \in Handlers : (At(g, "send") \/ At(g, "close"))' =>
          /\ get'[g].result \in Result
          /\ get'[g].result.snap <= entry
          /\ NewFor(get[g].result, g)'
    BY <1>1, <1>3, <2>1 DEF NewFor, At
  <2>3. \A g, i \in Handlers :
          (At(g, "send") /\ At(i, "wait") /\ get[g].flight = get[i].flight)'
            => NewFor(get[g].result, i)'
    BY <1>3 DEF Inv, ResultsNew, NewFor, At
  <2>4. \A i \in Flights : chan'[i].buffer # None => chan'[i].buffer.snap <= entry
    BY <1>2, <1>4 DEF Inv, ResultsNew
  <2>5. \A g \in Handlers :
          At(g, "wait")' /\ chan'[get'[g].flight].buffer # None
            => NewFor(chan[get[g].flight].buffer, g)'
    <3> SUFFICES ASSUME NEW g \in Handlers, At(g, "wait")',
                        chan'[get'[g].flight].buffer # None
                 PROVE  NewFor(chan[get[g].flight].buffer, g)'
      OBVIOUS
    <3>1. At(g, "wait") /\ get'[g] = get[g] /\ get[g].flight \in Flights
      BY <1>3 DEF Inv, UsageTypeOK, At
    <3>2. CASE get[g].flight = f
      BY <1>1, <1>4, <3>1, <3>2 DEF Inv, ResultsNew, NewFor
    <3>3. CASE get[g].flight # f
      BY <1>4, <3>1, <3>3 DEF Inv, ResultsNew, NewFor
    <3> QED BY <3>2, <3>3
  <2> QED BY <1>1, <2>2, <2>3, <2>4, <2>5 DEF ResultsNew
<1>10. NeverGoesBack'
  BY <1>3 DEF Inv, NeverGoesBack, At
<1> QED BY <1>5, <1>6, <1>7, <1>8, <1>9, <1>10 DEF Inv

\* The leader stores what its fetch came to; nobody else is fetching, so the
\* entry goes from the one it found to its own, or stays.
LEMMA LandInv == ASSUME Inv, NEW h \in Handlers, Land(h) PROVE Inv'
<1> DEFINE f == get[h].flight
           r == get'[h].result
<1>1. /\ At(h, "fetch") /\ flight' = 0 /\ UNCHANGED <<started, chan, served>>
  BY DEF Land
<1>2. /\ f \in Flights /\ f = flight /\ get[h].old = entry /\ f \in Nat
      /\ entry \in Nat /\ served \in Nat /\ started \in Nat /\ entry < f /\ f <= started
      /\ served <= entry
  BY <1>1, CallerFacts DEF Inv, FetcherOwns, EntryOld, Flights, At
<1>3. /\ entry' \in {f, entry} /\ fresh' \in BOOLEAN
      /\ get' \in [Handlers -> Locals]
      /\ \A g \in Handlers : g # h => get'[g] = get[g]
      /\ get'[h].pc = "send" /\ get'[h].flight = f /\ get'[h].least = get[h].least
      /\ r \in Result /\ r.snap = entry'
  <2>1. get \in [Handlers -> Locals] /\ fresh \in BOOLEAN
    BY DEF Inv, UsageTypeOK
  <2>2. CASE /\ entry' = f /\ fresh' = TRUE
             /\ get' = [get EXCEPT ![h].pc = "send",
                                   ![h].result = [snap |-> f, err |-> FALSE]]
    <3>1. [snap |-> f, err |-> FALSE] \in Result
      BY <1>2 DEF Result
    <3> QED BY <2>1, <2>2, <3>1 DEF Locals, Points
  <2>3. CASE /\ entry' = FallBack(h) /\ UNCHANGED fresh
             /\ get' = [get EXCEPT ![h].pc = "send",
                                   ![h].result = [snap |-> FallBack(h), err |-> TRUE]]
    <3>1. FallBack(h) = entry
      BY <1>2 DEF FallBack
    <3>2. [snap |-> FallBack(h), err |-> TRUE] \in Result
      BY <1>2, <3>1 DEF Result
    <3> QED BY <2>1, <2>3, <3>1, <3>2 DEF Locals, Points
  <2> QED BY <2>2, <2>3 DEF Land
<1>4. entry <= entry' /\ entry' <= started /\ entry' \in Nat
  BY <1>2, <1>3
<1>5. UsageTypeOK'
  <2>1. entry' \in Flights \cup {0}
    BY <1>2, <1>3 DEF Inv, UsageTypeOK
  <2> QED BY <1>1, <1>2, <1>3, <2>1 DEF Inv, UsageTypeOK, At
<1>6. FetcherOwns' /\ SingleFlight'
  <2>1. \A g \in Handlers : g # h => ~At(g, "fetch")
    BY <1>1 DEF Inv, SingleFlight
  <2> QED BY <1>3, <2>1 DEF FetcherOwns, SingleFlight, At
<1>7. EntryOld'
  BY <1>1, <1>2, <1>3, <1>4 DEF Inv, EntryOld
<1>8. NoResultYet'
  <2>1. \A g \in Handlers : (~At(g, "idle"))' =>
          get'[g].flight \in Flights /\ get'[g].flight <= started
    BY <1>2, <1>3 DEF Inv, NoResultYet, UsageTypeOK, At
  <2>2. \A i \in Flights : i # 0
    BY DEF Flights
  <2>3. \A g \in Handlers : At(g, "send")' => get'[g].flight # flight'
    BY <1>1, <2>1, <2>2 DEF At
  <2>4. \A i \in Flights : i = flight' \/ i > started' => chan'[i].buffer = None
    BY <1>1, <2>2 DEF Inv, NoResultYet
  <2> QED BY <1>1, <2>1, <2>3, <2>4 DEF NoResultYet
<1>9. ResultsNew'
  <2>1. \A g \in Handlers : get[g].least \in Nat /\ get[g].least <= r.snap
    <3>1. \A g \in Handlers : get[g].least \in Nat /\ get[g].least <= served
      BY DEF Inv, UsageTypeOK, EntryOld, Locals
    <3> QED BY <1>2, <1>3, <1>4, <3>1
  <2>2. \A g \in Handlers : get'[g].least = get[g].least
    BY <1>3
  <2>3. \A g \in Handlers : (At(g, "send") \/ At(g, "close"))' =>
          /\ get'[g].result \in Result
          /\ get'[g].result.snap <= entry'
          /\ NewFor(get[g].result, g)'
    <3> SUFFICES ASSUME NEW g \in Handlers, (At(g, "send") \/ At(g, "close"))'
                 PROVE  /\ get'[g].result \in Result
                        /\ get'[g].result.snap <= entry'
                        /\ NewFor(get[g].result, g)'
      OBVIOUS
    <3>1. CASE g = h
      BY <1>3, <1>4, <2>1, <2>2, <3>1 DEF NewFor
    <3>2. CASE g # h
      <4>1. /\ get'[g] = get[g] /\ get[g].result \in Result /\ get[g].result.snap <= entry
            /\ NewFor(get[g].result, g)
        BY <1>3, <3>2 DEF Inv, ResultsNew, At
      <4> QED BY <1>2, <1>4, <4>1 DEF NewFor, Result
    <3> QED BY <3>1, <3>2
  <2>4. \A g, i \in Handlers :
          (At(g, "send") /\ At(i, "wait") /\ get[g].flight = get[i].flight)'
            => NewFor(get[g].result, i)'
    <3> SUFFICES ASSUME NEW g \in Handlers, NEW i \in Handlers,
                        (At(g, "send") /\ At(i, "wait") /\ get[g].flight = get[i].flight)'
                 PROVE  NewFor(get[g].result, i)'
      OBVIOUS
    <3>1. CASE g = h
      BY <2>1, <2>2, <3>1 DEF NewFor
    <3>2. CASE g # h
      BY <1>3, <3>2 DEF Inv, ResultsNew, NewFor, At
    <3> QED BY <3>1, <3>2
  <2>5. \A i \in Flights : chan'[i].buffer # None => chan'[i].buffer.snap <= entry'
    <3> SUFFICES ASSUME NEW i \in Flights, chan[i].buffer # None
                 PROVE  chan[i].buffer.snap <= entry'
      BY <1>1
    <3>1. chan[i].buffer \in Result /\ chan[i].buffer.snap <= entry
      BY DEF Inv, ResultsNew, UsageTypeOK, Channel
    <3> QED BY <1>2, <1>4, <3>1 DEF Result
  <2>6. \A g \in Handlers :
          At(g, "wait")' /\ chan'[get'[g].flight].buffer # None
            => NewFor(chan[get[g].flight].buffer, g)'
    BY <1>1, <1>3 DEF Inv, ResultsNew, NewFor, At
  <2> QED BY <2>3, <2>4, <2>5, <2>6 DEF ResultsNew
<1>10. NeverGoesBack'
  BY <1>3 DEF Inv, NeverGoesBack, At
<1> QED BY <1>5, <1>6, <1>7, <1>8, <1>9, <1>10 DEF Inv

-----------------------------------------------------------------------------
(* Induction *)

LEMMA InitInv == Init => Inv
<1> SUFFICES ASSUME Init PROVE Inv
  OBVIOUS
<1>1. UsageTypeOK
  <2>1. Idle \in Locals
    BY DEF Idle, Locals, Points, Result, Zero, Statuses
  <2>2. [buffer |-> None, closed |-> FALSE] \in Channel
    BY DEF Channel
  <2> QED BY <2>1, <2>2 DEF Init, UsageTypeOK, Idle
<1>2. FetcherOwns /\ SingleFlight /\ NeverGoesBack
  BY DEF Init, FetcherOwns, SingleFlight, NeverGoesBack, At, Idle
<1>3. EntryOld
  BY DEF Init, EntryOld, Idle
<1>4. NoResultYet /\ ResultsNew
  BY DEF Init, NoResultYet, ResultsNew, At, Idle
<1> QED BY <1>1, <1>2, <1>3, <1>4 DEF Inv

LEMMA NextInv == Inv /\ [Next]_vars => Inv'
<1> SUFFICES ASSUME Inv, [Next]_vars PROVE Inv'
  OBVIOUS
<1>1. ASSUME NEW h \in Handlers, Hit(h) PROVE Inv'
  BY <1>1, HitInv
<1>2. ASSUME NEW h \in Handlers, Join(h) PROVE Inv'
  BY <1>2, JoinInv
<1>3. ASSUME NEW h \in Handlers, Lead(h) PROVE Inv'
  BY <1>3, LeadInv
<1>4. ASSUME NEW h \in Handlers, Progress(h) PROVE Inv'
  BY <1>4, LandInv, SendInv, CloseInv, ReceiveInv DEF Progress
<1>5. ASSUME NEW h \in Handlers, Cancel(h) PROVE Inv'
  BY <1>5, CancelInv
<1>6. CASE Expire
  <2>1. fresh' \in BOOLEAN /\ UNCHANGED <<entry, flight, started, chan, get, served>>
    BY <1>6 DEF Expire
  <2>2. (UsageTypeOK /\ FetcherOwns /\ EntryOld)'
    BY <2>1 DEF Inv, UsageTypeOK, FetcherOwns, EntryOld, At
  <2>3. (NoResultYet /\ ResultsNew)'
    BY <2>1 DEF Inv, NoResultYet, ResultsNew, NewFor, At
  <2>4. (SingleFlight /\ NeverGoesBack)'
    BY <2>1 DEF Inv, SingleFlight, NeverGoesBack, At
  <2> QED BY <2>2, <2>3, <2>4 DEF Inv
<1>7. CASE UNCHANGED vars
  <2>1. UNCHANGED <<entry, fresh, flight, started, chan, get, served>>
    BY <1>7 DEF vars
  <2>2. (UsageTypeOK /\ FetcherOwns /\ EntryOld)'
    BY <2>1 DEF Inv, UsageTypeOK, FetcherOwns, EntryOld, At
  <2>3. (NoResultYet /\ ResultsNew)'
    BY <2>1 DEF Inv, NoResultYet, ResultsNew, NewFor, At
  <2>4. (SingleFlight /\ NeverGoesBack)'
    BY <2>1 DEF Inv, SingleFlight, NeverGoesBack, At
  <2> QED BY <2>2, <2>3, <2>4 DEF Inv
<1> QED BY <1>1, <1>2, <1>3, <1>4, <1>5, <1>6, <1>7 DEF Next

-----------------------------------------------------------------------------

\* One fetch at a time: between the test of inFlights and the registration the
\* mutex is held, and only the flight's leader takes its registration out.
THEOREM OneFetchAtATime == Spec => []SingleFlight
<1>1. Inv => SingleFlight
  BY DEF Inv
<1> QED BY InitInv, NextInv, <1>1, PTL DEF Spec

\* No request is answered with a snapshot older than one answered before it
\* began, whether by the cache, by the flight it led or by one it joined.
THEOREM AnswersNeverGoBack == Spec => []NeverGoesBack
<1>1. Inv => NeverGoesBack
  BY DEF Inv
<1> QED BY InitInv, NextInv, <1>1, PTL DEF Spec

\* Entry, flights, channels and requests of Cache.Get keep their types; in
\* particular a caller that has not returned leads or has joined a flight.
THEOREM UsageTypes == Spec => []UsageTypeOK
<1>1. Inv => UsageTypeOK
  BY DEF Inv
<1>2. QED
  BY InitInv, NextInv, <1>1, PTL DEF Spec
=============================================================================
