-------------------------- MODULE NonceAuthProofs --------------------------
(***************************************************************************)
(* For any messages, handlers, skew, TTL, lag and drift that meet          *)
(* NonceAuthAssumption: a broker accepts a request at most once, and uses  *)
(* a nonce up only by accepting a request.                                 *)
(*                                                                         *)
(* What is inductive is an account of time (Timely) and, for every         *)
(* accepted message, that its nonce is either still in the cache or older  *)
(* than the TTL (Remembered).  A second acceptance would need a nonce      *)
(* older than the TTL with a timestamp still in the window, and            *)
(* NonceAuthAssumption leaves no room for both.                            *)
(***************************************************************************)
EXTENDS NonceAuth, TLAPS

\* The clock reading of a request being verified.
Timely ==
  \A h \in Handlers : req[h].busy =>
    /\ req[h].now.mono <= mono
    /\ mono <= req[h].now.mono + Lag
    /\ req[h].now.mono <= req[h].now.wall
    /\ req[h].now.wall <= req[h].now.mono + Drift

\* An accepted message was in the window, and is remembered for the TTL.
Remembered ==
  \A m \in Messages : accepted[m] # None =>
    /\ 2 * m.ts <= accepted[m] + Drift + 2 * Skew
    /\ \/ accepted[m] + 2 * TTL < mono
       \/ seen[m.nonce] # None /\ accepted[m] <= seen[m.nonce]

\* Nonces in the cache are those of accepted messages.
Earned ==
  \A n \in Nonces : seen[n] # None => \E m \in Messages : m.nonce = n /\ accepted[m] # None

Inv == NonceTypeOK /\ Timely /\ Remembered /\ Earned /\ NonceNotBurnt

-----------------------------------------------------------------------------

\* A message in the window at wall has a timestamp within the skew, in half seconds.
LEMMA WindowBounds ==
  ASSUME NEW m \in Messages, NEW wall \in Nat, InWindow(m, wall)
  PROVE  wall <= 2 * m.ts + 2 * Skew + 1 /\ 2 * m.ts <= wall + 2 * Skew
  BY NonceAuthAssumption DEF InWindow, Unix

LEMMA NonceOf == ASSUME NEW m \in Messages PROVE m.nonce \in Nonces
  BY DEF Nonces

\* What CheckAndAdd finds after reaping.
LEMMA ReapedFacts ==
  ASSUME NonceTypeOK, NEW now \in Nat
  PROVE  /\ Reaped(now) \in [Nonces -> Nat \cup {None}]
         /\ \A n \in Nonces :
              /\ Reaped(now)[n] # None => Reaped(now)[n] = seen[n]
              /\ Reaped(now)[n] = None /\ seen[n] # None => seen[n] + 2 * TTL < now
  BY NonceAuthAssumption DEF NonceTypeOK, Reaped, Expired

\* A message accepted before and forgotten by now has left the window.
LEMMA Forgotten ==
  ASSUME Inv, NEW h \in Handlers, req[h].busy, NEW m \in Messages, req[h].msg = m,
         InWindow(m, req[h].now.wall), Reaped(req[h].now.mono)[m.nonce] = None
  PROVE  accepted[m] = None
<1> SUFFICES ASSUME accepted[m] # None PROVE FALSE
  OBVIOUS
<1> DEFINE now == req[h].now
<1>1. /\ now.mono \in Nat /\ now.wall \in Nat /\ mono \in Nat
      /\ accepted[m] \in Nat /\ m.nonce \in Nonces
      /\ seen[m.nonce] # None => seen[m.nonce] \in Nat
  BY NonceOf DEF Inv, NonceTypeOK, Request, Reading
<1>2. /\ now.mono <= mono /\ mono <= now.mono + Lag /\ now.mono <= now.wall
  BY DEF Inv, Timely
<1>3. now.wall <= 2 * m.ts + 2 * Skew + 1
  BY <1>1, WindowBounds
<1>4. 2 * m.ts <= accepted[m] + Drift + 2 * Skew
  BY DEF Inv, Remembered
<1>5. accepted[m] + 2 * TTL < mono
  <2>1. CASE seen[m.nonce] # None /\ accepted[m] <= seen[m.nonce]
    <3>1. seen[m.nonce] + 2 * TTL < now.mono
      BY <1>1, <2>1, ReapedFacts DEF Inv
    <3> QED BY <1>1, <1>2, <2>1, <3>1, NonceAuthAssumption
  <2> QED BY <2>1 DEF Inv, Remembered
<1> QED BY <1>1, <1>2, <1>3, <1>4, <1>5, NonceAuthAssumption

-----------------------------------------------------------------------------
(* Induction *)

LEMMA InitInv == Init => Inv
<1> SUFFICES ASSUME Init PROVE Inv
  OBVIOUS
<1>1. NonceTypeOK
  BY NonceAuthAssumption DEF Init, NonceTypeOK, Request, NoRequest, Reading, Answers
<1>2. Timely /\ NonceNotBurnt
  BY DEF Init, Timely, NonceNotBurnt, RefusedOnlyIfAccepted, NoRequest
<1>3. Remembered /\ Earned
  BY DEF Init, Remembered, Earned
<1> QED BY <1>1, <1>2, <1>3 DEF Inv

\* A handler's answer leaves the other requests alone and keeps types.
LEMMA FinishFacts ==
  ASSUME NonceTypeOK, NEW h \in Handlers, req[h].busy,
         NEW answer \in Answers, Finish(h, answer)
  PROVE  /\ req' \in [Handlers -> Request]
         /\ \A i \in Handlers : i # h => req'[i] = req[i]
         /\ ~req'[h].busy
         /\ req'[h].answer = answer
         /\ answer = "replay" => req'[h].msg = req[h].msg
<1>1. req[h].msg \in Messages
  BY DEF NonceTypeOK
<1>2. [NoRequest EXCEPT !.answer = answer,
                        !.msg = IF answer = "replay" THEN req[h].msg ELSE None] \in Request
  BY <1>1 DEF NoRequest, Request, Reading
<1> QED BY <1>2 DEF Finish, NonceTypeOK, NoRequest

LEMMA CheckAndAddInv ==
  ASSUME Inv, NEW h \in Handlers, CheckAndAdd(h)
  PROVE  Inv'
<1> DEFINE m == req[h].msg
           now == req[h].now.mono
           left == Reaped(now)
<1>1. /\ req[h].busy /\ InWindow(m, req[h].now.wall) /\ UNCHANGED <<mono, ahead>>
  BY DEF CheckAndAdd
<1>2. /\ m \in Messages /\ m.nonce \in Nonces
      /\ now \in Nat /\ req[h].now.wall \in Nat /\ mono \in Nat
  BY <1>1, NonceOf DEF Inv, NonceTypeOK, Request, Reading
<1>3. /\ left \in [Nonces -> Nat \cup {None}]
      /\ \A n \in Nonces :
           /\ left[n] # None => left[n] = seen[n]
           /\ left[n] = None /\ seen[n] # None => seen[n] + 2 * TTL < now
  BY <1>2, ReapedFacts DEF Inv
<1>4. now <= mono /\ req[h].now.wall <= now + Drift
  BY <1>1 DEF Inv, Timely
<1>5. CASE left[m.nonce] # None
  <2>1. seen' = left /\ Finish(h, "replay") /\ UNCHANGED accepted
    BY <1>5 DEF CheckAndAdd
  <2>2. /\ req' \in [Handlers -> Request]
        /\ \A i \in Handlers : i # h => req'[i] = req[i]
        /\ ~req'[h].busy /\ req'[h].answer = "replay" /\ req'[h].msg = m
    BY <1>1, <2>1, FinishFacts DEF Inv, Answers
  <2>3. NonceTypeOK'
    BY <1>1, <1>2, <1>3, <2>1, <2>2 DEF Inv, NonceTypeOK
  <2>4. Timely'
    BY <1>1, <2>2 DEF Inv, Timely
  <2>5. Remembered'
    <3> SUFFICES ASSUME NEW k \in Messages, accepted[k] # None,
                        ~(accepted[k] + 2 * TTL < mono)
                 PROVE  left[k.nonce] # None /\ accepted[k] <= left[k.nonce]
      BY <1>1, <2>1 DEF Inv, Remembered
    <3>1. k.nonce \in Nonces /\ accepted[k] \in Nat
      BY NonceOf DEF Inv, NonceTypeOK
    <3>2. seen[k.nonce] # None /\ accepted[k] <= seen[k.nonce] /\ seen[k.nonce] \in Nat
      BY <3>1 DEF Inv, Remembered, NonceTypeOK
    <3> QED BY <1>2, <1>3, <1>4, <3>1, <3>2, NonceAuthAssumption
  <2>6. Earned'
    BY <1>3, <2>1 DEF Inv, Earned
  <2>7. NonceNotBurnt'
    <3> SUFFICES ASSUME m \notin Probes PROVE accepted[m] # None
      BY <2>1, <2>2 DEF Inv, NonceNotBurnt, RefusedOnlyIfAccepted
    <3>1. PICK k \in Messages : k.nonce = m.nonce /\ accepted[k] # None
      BY <1>2, <1>3, <1>5 DEF Inv, Earned
    <3> QED BY <1>2, <3>1, NonceAuthAssumption
  <2> QED BY <2>3, <2>4, <2>5, <2>6, <2>7 DEF Inv
<1>6. CASE left[m.nonce] = None
  <2>1. /\ seen' = [left EXCEPT ![m.nonce] = now]
        /\ Finish(h, "accepted")
        /\ accepted' = [accepted EXCEPT ![m] = now]
    BY <1>6 DEF CheckAndAdd
  <2>2. /\ req' \in [Handlers -> Request]
        /\ \A i \in Handlers : i # h => req'[i] = req[i]
        /\ ~req'[h].busy /\ req'[h].answer = "accepted"
    BY <1>1, <2>1, FinishFacts DEF Inv, Answers
  <2>3. NonceTypeOK'
    BY <1>1, <1>2, <1>3, <2>1, <2>2 DEF Inv, NonceTypeOK
  <2>4. Timely'
    BY <1>1, <2>2 DEF Inv, Timely
  <2>a. /\ accepted'[m] = now /\ seen'[m.nonce] = now /\ now # None
        /\ \A k \in Messages : k # m => accepted'[k] = accepted[k]
        /\ \A n \in Nonces : n # m.nonce => seen'[n] = left[n]
    BY <1>2, <1>3, <2>1, NonceAuthAssumption DEF Inv, NonceTypeOK
  <2>5. Remembered'
    <3> SUFFICES ASSUME NEW k \in Messages, accepted'[k] # None
                 PROVE  /\ 2 * k.ts <= accepted'[k] + Drift + 2 * Skew
                        /\ \/ accepted'[k] + 2 * TTL < mono
                           \/ seen'[k.nonce] # None /\ accepted'[k] <= seen'[k.nonce]
      BY <1>1 DEF Remembered
    <3>0. k.nonce \in Nonces
      BY NonceOf
    <3>1. CASE k = m
      <4>1. 2 * m.ts <= req[h].now.wall + 2 * Skew
        BY <1>1, <1>2, WindowBounds
      <4> QED BY <1>2, <1>4, <2>a, <3>1, <4>1, NonceAuthAssumption
    <3>2. CASE k # m
      <4>1. accepted'[k] = accepted[k] /\ accepted[k] # None /\ accepted[k] \in Nat
        BY <2>a, <3>2 DEF Inv, NonceTypeOK
      <4>2. 2 * k.ts <= accepted[k] + Drift + 2 * Skew
        BY <4>1 DEF Inv, Remembered
      <4>3. SUFFICES ASSUME ~(accepted[k] + 2 * TTL < mono)
                     PROVE  seen'[k.nonce] # None /\ accepted[k] <= seen'[k.nonce]
        BY <4>1, <4>2
      <4>4. seen[k.nonce] # None /\ accepted[k] <= seen[k.nonce] /\ seen[k.nonce] \in Nat
        BY <3>0, <4>1, <4>3 DEF Inv, Remembered, NonceTypeOK
      <4>5. left[k.nonce] # None
        BY <1>2, <1>3, <1>4, <3>0, <4>1, <4>3, <4>4, NonceAuthAssumption
      <4> QED BY <1>3, <1>6, <2>a, <3>0, <4>4, <4>5
    <3> QED BY <3>1, <3>2
  <2>6. Earned'
    <3> SUFFICES ASSUME NEW n \in Nonces, seen'[n] # None
                 PROVE  \E k \in Messages : k.nonce = n /\ accepted'[k] # None
      BY DEF Earned
    <3>1. CASE n = m.nonce
      BY <1>2, <2>a, <3>1
    <3>2. CASE n # m.nonce
      <4>1. PICK k \in Messages : k.nonce = n /\ accepted[k] # None
        BY <1>3, <2>a, <3>2 DEF Inv, Earned
      <4> QED BY <2>a, <3>2, <4>1
    <3> QED BY <3>1, <3>2
  <2>7. NonceNotBurnt'
    BY <2>2, <2>a DEF Inv, NonceNotBurnt, RefusedOnlyIfAccepted, NonceTypeOK
  <2> QED BY <2>3, <2>4, <2>5, <2>6, <2>7 DEF Inv
<1> QED BY <1>5, <1>6

LEMMA RejectInv ==
  ASSUME Inv, NEW h \in Handlers, Reject(h)
  PROVE  Inv'
<1>1. req[h].busy /\ Finish(h, "rejected") /\ UNCHANGED <<mono, ahead, seen, accepted>>
  BY DEF Reject
<1>2. /\ req' \in [Handlers -> Request]
      /\ \A i \in Handlers : i # h => req'[i] = req[i]
      /\ ~req'[h].busy /\ req'[h].answer = "rejected"
  BY <1>1, FinishFacts DEF Inv, Answers
<1>3. NonceTypeOK'
  BY <1>1, <1>2 DEF Inv, NonceTypeOK
<1>4. Timely' /\ NonceNotBurnt'
  BY <1>1, <1>2 DEF Inv, Timely, NonceNotBurnt, RefusedOnlyIfAccepted
<1>5. Remembered' /\ Earned'
  BY <1>1 DEF Inv, Remembered, Earned
<1> QED BY <1>3, <1>4, <1>5 DEF Inv

LEMMA ReceiveInv ==
  ASSUME Inv, NEW h \in Handlers, NEW m \in Messages, Receive(h, m)
  PROVE  Inv'
<1> DEFINE new == [busy |-> TRUE, msg |-> m, answer |-> "none",
                   now |-> [mono |-> mono, wall |-> mono + ahead]]
<1>1. req' = [req EXCEPT ![h] = new] /\ UNCHANGED <<mono, ahead, seen, accepted>>
  BY DEF Receive
<1>2. mono \in Nat /\ ahead \in Nat /\ ahead <= Drift /\ Lag \in Nat
  BY NonceAuthAssumption DEF Inv, NonceTypeOK
<1>3. new \in Request
  BY <1>2 DEF Request, Reading, Answers
<1>4. /\ req' \in [Handlers -> Request]
      /\ req'[h] = new
      /\ \A i \in Handlers : i # h => req'[i] = req[i]
  BY <1>1, <1>3 DEF Inv, NonceTypeOK
<1>5. NonceTypeOK'
  BY <1>1, <1>4 DEF Inv, NonceTypeOK
<1>6. Timely'
  <2> SUFFICES ASSUME NEW i \in Handlers, req'[i].busy
               PROVE  /\ req'[i].now.mono <= mono
                      /\ mono <= req'[i].now.mono + Lag
                      /\ req'[i].now.mono <= req'[i].now.wall
                      /\ req'[i].now.wall <= req'[i].now.mono + Drift
    BY <1>1 DEF Timely
  <2>1. CASE i = h
    <3>1. req'[i].now.mono = mono /\ req'[i].now.wall = mono + ahead
      BY <1>4, <2>1
    <3> QED BY <1>2, <3>1, NonceAuthAssumption
  <2>2. CASE i # h
    BY <1>4, <2>2 DEF Inv, Timely
  <2> QED BY <2>1, <2>2
<1>7. NonceNotBurnt'
  BY <1>1, <1>4 DEF Inv, NonceNotBurnt, RefusedOnlyIfAccepted
<1>8. Remembered' /\ Earned'
  BY <1>1 DEF Inv, Remembered, Earned
<1> QED BY <1>5, <1>6, <1>7, <1>8 DEF Inv

LEMMA TickInv == ASSUME Inv, Tick PROVE Inv'
<1>1. /\ mono' = mono + 1 /\ UNCHANGED <<ahead, seen, accepted, req>>
      /\ \A h \in Handlers : req[h].busy => mono < req[h].now.mono + Lag
  BY DEF Tick
<1>2. mono \in Nat /\ Lag \in Nat
  BY NonceAuthAssumption DEF Inv, NonceTypeOK
<1>3. NonceTypeOK'
  BY <1>1, <1>2 DEF Inv, NonceTypeOK
<1>4. Timely'
  <2> SUFFICES ASSUME NEW h \in Handlers, req[h].busy
               PROVE  /\ req[h].now.mono <= mono + 1
                      /\ mono + 1 <= req[h].now.mono + Lag
                      /\ req[h].now.mono <= req[h].now.wall
                      /\ req[h].now.wall <= req[h].now.mono + Drift
    BY <1>1 DEF Timely
  <2>1. req[h].now.mono \in Nat
    BY DEF Inv, NonceTypeOK, Request, Reading
  <2> QED BY <1>1, <1>2, <2>1 DEF Inv, Timely
<1>5. Remembered'
  <2> SUFFICES ASSUME NEW m \in Messages, accepted[m] # None,
                      accepted[m] + 2 * TTL < mono
               PROVE  accepted[m] + 2 * TTL < mono + 1
    BY <1>1 DEF Inv, Remembered
  <2>1. accepted[m] \in Nat
    BY DEF Inv, NonceTypeOK
  <2> QED BY <1>2, <2>1, NonceAuthAssumption
<1>6. Earned' /\ NonceNotBurnt'
  BY <1>1 DEF Inv, Earned, NonceNotBurnt, RefusedOnlyIfAccepted
<1> QED BY <1>3, <1>4, <1>5, <1>6 DEF Inv

LEMMA SetClockInv == ASSUME Inv, SetClock PROVE Inv'
  BY DEF Inv, SetClock, NonceTypeOK, Timely, Remembered, Earned, NonceNotBurnt,
         RefusedOnlyIfAccepted

LEMMA HandoverInv == ASSUME Inv, Handover PROVE Inv'
<1>1. /\ seen' = [n \in Nonces |-> None] /\ accepted' = [m \in Messages |-> None]
      /\ req' = [h \in Handlers |-> NoRequest] /\ UNCHANGED <<mono, ahead>>
  BY DEF Handover
<1>2. NonceTypeOK'
  BY <1>1 DEF Inv, NonceTypeOK, Request, NoRequest, Reading, Answers
<1>3. Timely' /\ NonceNotBurnt'
  BY <1>1 DEF Timely, NonceNotBurnt, RefusedOnlyIfAccepted, NoRequest
<1>4. Remembered' /\ Earned'
  BY <1>1 DEF Remembered, Earned
<1> QED BY <1>2, <1>3, <1>4 DEF Inv

LEMMA StepInv == Inv /\ [Next]_vars => Inv'
<1> SUFFICES ASSUME Inv, [Next]_vars PROVE Inv'
  OBVIOUS
<1>1. CASE UNCHANGED vars
  BY <1>1 DEF Inv, vars, NonceTypeOK, Timely, Remembered, Earned, NonceNotBurnt,
              RefusedOnlyIfAccepted
<1> QED BY <1>1, CheckAndAddInv, RejectInv, ReceiveInv, TickInv, SetClockInv, HandoverInv
        DEF Next

-----------------------------------------------------------------------------
(* Theorems *)

\* Nonces are used up by acceptances only (VerifyMulti consumes the nonce after a
\* key has matched), for every instance; types hold.
THEOREM NoncesEarned == Spec => [](NonceTypeOK /\ NonceNotBurnt)
<1>1. Inv => NonceTypeOK /\ NonceNotBurnt
  BY DEF Inv
<1> QED BY <1>1, InitInv, StepInv, PTL DEF Spec

\* A broker accepts a request at most once if the TTL outlasts the window, the
\* lag and the drift (CheckAndAdd and reap).
THEOREM AcceptedAtMostOnce == Spec => AtMostOnce
<1>1. Inv /\ [Next]_vars
        => \A h \in Handlers, m \in Messages : Accepts(h, m) => accepted[m] = None
  <2> SUFFICES ASSUME Inv, [Next]_vars, NEW h \in Handlers, NEW m \in Messages,
                      Accepts(h, m)
               PROVE  accepted[m] = None
    OBVIOUS
  <2>1. /\ req[h].busy /\ req[h].msg = m
        /\ ~req'[h].busy /\ req'[h].answer = "accepted"
    BY DEF Accepts
  <2>2. ASSUME NEW i \in Handlers, CheckAndAdd(i) PROVE accepted[m] = None
    <3>1. CASE i = h
      <4>1. InWindow(m, req[h].now.wall)
        BY <2>1, <2>2, <3>1 DEF CheckAndAdd
      <4>2. Reaped(req[h].now.mono)[m.nonce] = None
        <5> SUFFICES ASSUME Reaped(req[h].now.mono)[m.nonce] # None PROVE FALSE
          OBVIOUS
        <5>1. Finish(h, "replay")
          BY <2>1, <2>2, <3>1 DEF CheckAndAdd
        <5> QED BY <2>1, <5>1, FinishFacts DEF Inv, Answers
      <4> QED BY <2>1, <4>1, <4>2, Forgotten
    <3>2. CASE i # h
      <4>1. \E answer \in Answers : Finish(i, answer)
        BY <2>2 DEF CheckAndAdd, Answers
      <4> QED BY <2>1, <2>2, <3>2, <4>1, FinishFacts DEF Inv, CheckAndAdd
    <3> QED BY <3>1, <3>2
  <2>3. ASSUME NEW i \in Handlers, Reject(i) PROVE FALSE
    <3>1. req[i].busy /\ Finish(i, "rejected")
      BY <2>3 DEF Reject
    <3> QED BY <2>1, <3>1, FinishFacts DEF Inv, Answers
  <2>4. ASSUME NEW i \in Handlers, NEW k \in Messages, Receive(i, k) PROVE FALSE
    BY <2>1, <2>4 DEF Receive, Inv, NonceTypeOK
  <2>5. CASE Handover
    BY <2>1, <2>5 DEF Handover, NoRequest
  <2>6. CASE Tick \/ SetClock \/ UNCHANGED vars
    BY <2>1, <2>6 DEF Tick, SetClock, vars
  <2> QED BY <2>2, <2>3, <2>4, <2>5, <2>6 DEF Next
<1> QED BY <1>1, InitInv, StepInv, PTL DEF Spec, AtMostOnce

\* The cache, the requests and the clock readings keep their types; in particular a
\* handler that VerifyMulti has not returned to has a message and no answer yet.
THEOREM NonceTypes == Spec => []NonceTypeOK
<1>1. QED
  BY NoncesEarned, PTL
=============================================================================
