----------------------------- MODULE NonceAuth -----------------------------
(***************************************************************************)
(* Verify, VerifyMulti and NonceCache of internal/auth, over real time.    *)
(*                                                                         *)
(* A request carries the second it was signed in and a nonce.  The broker  *)
(* takes it if that second is within the skew of its own clock, a key on   *)
(* record verifies the signature, and the nonce is not in the cache.  It   *)
(* reads the clock before the signature is checked and the cache's mutex   *)
(* is taken, so requests may reach the cache in another order than they    *)
(* read the clock.                                                         *)
(*                                                                         *)
(* Go's time.Now has two readings: the skew is measured on the wall clock, *)
(* which may be set, the age of a nonce on the monotonic one.              *)
(*                                                                         *)
(* Time is in half seconds: now.Unix() drops the half, the age of a nonce  *)
(* does not.                                                               *)
(***************************************************************************)
EXTENDS Integers

CONSTANTS Messages,  \* signed requests that may arrive, any number of times
          Probes,    \* those of the status command and the health check
          Handlers,  \* concurrent requests
          Skew,      \* max_timestamp_skew_seconds
          TTL,       \* nonce_cache_ttl_seconds
          Lag,       \* half seconds a handler may take from the clock to the cache
          Drift,     \* half seconds the wall clock may be set back by
          MaxTime,   \* bound: half seconds until the clock stops
          None

Nonces == {m.nonce : m \in Messages}

\* The broker never checks that the TTL outlasts the window in which a timestamp
\* is accepted; the defaults (60 and 300 seconds) do.  Devices and tools other
\* than the probes draw their nonces at random.
ASSUME NonceAuthAssumption ==
  /\ \A m \in Messages : m = [nonce |-> m.nonce, ts |-> m.ts] /\ m.ts \in Nat
  /\ Probes \subseteq Messages
  /\ \A m, n \in Messages : m.nonce = n.nonce => m = n \/ {m, n} \subseteq Probes
  /\ Skew \in Nat /\ TTL \in Nat /\ Lag \in Nat /\ Drift \in Nat /\ MaxTime \in Nat
  /\ 2 * TTL >= 4 * Skew + 1 + Lag + Drift
  /\ None \notin Nat

VARIABLES
  mono,      \* the monotonic clock
  ahead,     \* how far the wall clock is ahead of it
  seen,      \* NonceCache.seen: when a nonce was added, None if it is not there
  accepted,  \* history: when this cache's broker last accepted a message, or None
  req        \* req[h]: the request being verified, and the answer

vars == <<mono, ahead, seen, accepted, req>>

-----------------------------------------------------------------------------

Reading == [mono : Nat, wall : Nat]

Answers == {"none", "accepted", "rejected", "replay"}

Request == [busy : BOOLEAN, msg : Messages \cup {None}, now : Reading, answer : Answers]

NoRequest ==
  [busy |-> FALSE, msg |-> None, now |-> [mono |-> 0, wall |-> 0], answer |-> "none"]

NonceTypeOK ==
  /\ mono \in Nat
  /\ ahead \in 0..Drift
  /\ seen \in [Nonces -> Nat \cup {None}]
  /\ accepted \in [Messages -> Nat \cup {None}]
  /\ req \in [Handlers -> Request]
  /\ \A h \in Handlers :
       /\ req[h].busy \/ req[h].answer = "replay" => req[h].msg \in Messages
       /\ req[h].busy => req[h].answer = "none"

Init ==
  /\ mono = 0
  /\ ahead \in 0..Drift
  /\ seen = [n \in Nonces |-> None]
  /\ accepted = [m \in Messages |-> None]
  /\ req = [h \in Handlers |-> NoRequest]

-----------------------------------------------------------------------------
(* Verification *)

Unix(t) == t \div 2

\* |now.Unix() - ts| <= maxSkew, as int64: both are far from its limits.
InWindow(m, wall) == Unix(wall) <= m.ts + Skew /\ m.ts <= Unix(wall) + Skew

\* A nonce as old as the cutoff reaped with the older ones.
ExpiredAtCutoff(t, now) == t <= now - 2 * TTL

\* reap: strictly before the cutoff.
Expired(t, now) == t < now - 2 * TTL

Reaped(now) ==
  [n \in Nonces |-> IF seen[n] # None /\ Expired(seen[n], now) THEN None ELSE seen[n]]

\* A message arrives, perhaps not for the first time, and its handler reads the
\* clock in the call of Verify or VerifyMulti.
Receive(h, m) ==
  /\ ~req[h].busy
  /\ req' = [req EXCEPT ![h] = [busy |-> TRUE, msg |-> m, answer |-> "none",
                                now |-> [mono |-> mono, wall |-> mono + ahead]]]
  /\ UNCHANGED <<mono, ahead, seen, accepted>>

\* An answer without a return.
FinishAndGoOn(h, answer) == req' = [req EXCEPT ![h].answer = answer]

\* The answer; the replayed message is kept for the properties.
Finish(h, answer) ==
  req' = [req EXCEPT ![h] = [NoRequest EXCEPT !.answer = answer,
                               !.msg = IF answer = "replay" THEN req[h].msg ELSE None]]

\* The nonce entered before a key has verified the signature.
RejectBurningNonce(h) ==
  /\ req[h].busy
  /\ Finish(h, "rejected")
  /\ seen' = IF InWindow(req[h].msg, req[h].now.wall)
             THEN [Reaped(req[h].now.mono) EXCEPT ![req[h].msg.nonce] = req[h].now.mono]
             ELSE seen
  /\ UNCHANGED <<mono, ahead, accepted>>

\* Out of the window, or no key on record verifies the signature: the cache is
\* not touched.
Reject(h) ==
  /\ req[h].busy
  /\ Finish(h, "rejected")
  /\ UNCHANGED <<mono, ahead, seen, accepted>>

\* A key on record has verified the signature: CheckAndAdd, under the mutex.
CheckAndAdd(h) ==
  /\ req[h].busy
  /\ InWindow(req[h].msg, req[h].now.wall)
  /\ LET m == req[h].msg
         now == req[h].now.mono
         left == Reaped(now)
     IN  IF left[m.nonce] # None
         THEN /\ seen' = left
              /\ Finish(h, "replay")
              /\ UNCHANGED accepted
         ELSE /\ seen' = [left EXCEPT ![m.nonce] = now]
              /\ Finish(h, "accepted")
              /\ accepted' = [accepted EXCEPT ![m] = now]
  /\ UNCHANGED <<mono, ahead>>

-----------------------------------------------------------------------------
(* The environment *)

\* No handler is held up for longer than Lag between the clock and the cache.
Tick ==
  /\ mono < MaxTime
  /\ \A h \in Handlers : req[h].busy => mono < req[h].now.mono + Lag
  /\ mono' = mono + 1
  /\ UNCHANGED <<ahead, seen, accepted, req>>

\* The wall clock is set.
SetClock ==
  /\ ahead' \in 0..Drift
  /\ UNCHANGED <<mono, seen, accepted, req>>

\* Serve makes a new cache: a restart, or a follower takes the port over.
Handover ==
  /\ seen' = [n \in Nonces |-> None]
  /\ accepted' = [m \in Messages |-> None]
  /\ req' = [h \in Handlers |-> NoRequest]
  /\ UNCHANGED <<mono, ahead>>

Next ==
  \/ \E h \in Handlers : Reject(h) \/ CheckAndAdd(h) \/ \E m \in Messages : Receive(h, m)
  \/ Tick
  \/ SetClock
  \/ Handover

Spec == Init /\ [][Next]_vars

-----------------------------------------------------------------------------
(* Properties *)

\* A request is accepted at most once by a broker, however often it arrives and
\* however handlers overtake each other on their way to the cache: its nonce is
\* forgotten only when its timestamp has left the window (CheckAndAdd, reap).
Accepts(h, m) ==
  req[h].busy /\ req[h].msg = m /\ ~req'[h].busy /\ req'[h].answer = "accepted"

AtMostOnce ==
  [][\A h \in Handlers, m \in Messages : Accepts(h, m) => accepted[m] = None]_vars

\* A request refused as a replay has been accepted before: neither a signature
\* that did not verify nor anyone else's request uses its nonce up (VerifyMulti's
\* comment).
RefusedOnlyIfAccepted(messages) ==
  \A h \in Handlers :
    req[h].answer = "replay" /\ req[h].msg \in messages => accepted[req[h].msg] # None

NonceNotBurnt == RefusedOnlyIfAccepted(Messages \ Probes)

\* The same for the probes: runStatus and the health check take a 401 for a key
\* that does not match.
ProbeAnswered == RefusedOnlyIfAccepted(Probes)
=============================================================================
