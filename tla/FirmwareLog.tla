---------------------------- MODULE FirmwareLog ----------------------------
(***************************************************************************)
(* The firmware log, on top of the processes of Leader: tailers write the  *)
(* lines they read from the tty into the ring buffer of their handler run; *)
(* the broker's /firmware-logs handler reads the buffer; `cwm-mcp --logs`  *)
(* polls the broker and prints what it takes to be new.                    *)
(*                                                                         *)
(* The lines of a buffer are numbered from 1: line i is the i-th written.  *)
(***************************************************************************)
EXTENDS Leader, Sequences

CONSTANTS Capacity,  \* lines the ring keeps
          Backlog,   \* lines asked for first (--logs-tail)
          Want,      \* lines asked for by every later poll
          MaxEvents  \* bound: faults, registrations and lines

ASSUME FirmwareLogAssumption ==
  /\ Capacity \in Nat \ {0}
  /\ Backlog \in Nat \ {0}
  /\ Want \in Nat \ {0}
  /\ MaxEvents \in Nat
  /\ None \notin Nat

VARIABLES
  lines,    \* lines read from the tty
  written,  \* written[e]: lines written so far to the buffer of handler run e
  fetch,    \* the poll under way: whose buffer was read, and when
  mark,     \* runLogs' highWater, None until the backlog is printed
  account   \* history: what the follower printed of one buffer

logVars == <<lines, written, fetch, mark, account>>
vars == <<leaderVars, logVars>>

-----------------------------------------------------------------------------

Least(m, n) == IF m < n THEN m ELSE n

\* Tail(limit) of a buffer to which n lines were written.
LastLines(n, limit) ==
  LET k == Least(limit, Least(Capacity, n))
  IN  [i \in 1..k |-> n - k + i]

\* A ring that never evicts.
Unevicted(n) == n

\* The length of an answer.
Answered(n) == Least(Want, n)

\* Len of it.
Retained(n) == Least(Capacity, n)

NoFetch == [run |-> 0, read |-> 0]

\* An account of the lines of a run that were printed after those that were
\* skipped, and of how many were reported as lost.  It is closed when a line is
\* evicted, a line is written between the two reads of an answer, or an answer
\* comes from another run.
Account == [run : Runs, skipped : Nat, printed : Seq(Nat), lost : Nat]
Closed == [run |-> 0]

LogTypeOK ==
  /\ LeaderTypeOK
  /\ lines \in Nat
  /\ written \in [Runs -> 0..lines]
  /\ fetch \in [run : Runs \cup {0}, read : Nat]
  /\ fetch.run # 0 => fetch.read <= written[fetch.run]
  /\ mark \in 0..Capacity \cup {None}
  /\ account \in Account \cup {Closed}

Init ==
  /\ LeaderInit
  /\ lines = 0
  /\ written = [e \in Runs |-> 0]
  /\ fetch = NoFetch
  /\ mark = None
  /\ account = Closed

-----------------------------------------------------------------------------

\* The device prints a line and one of those who read the tty gets it, a tailer
\* that was cancelled but not yet woken included.  (Whether a tailer has the
\* tty open is left out: one that has not reads no line.)
ReadLine(t) ==
  /\ lines' = lines + 1
  /\ written' = [written EXCEPT ![t.run] = @ + 1]
  /\ account' = IF t.run = account.run /\ written[t.run] >= Capacity
                THEN Closed ELSE account
  /\ UNCHANGED <<leaderVars, fetch, mark>>

\* A poll: handleFirmwareLogs calls fwLogs.Tail(limit) and later fwLogs.Len(),
\* each under the lock.  It may run after the listener closed: while Shutdown
\* drains, or, as nobody shuts down a server that failed, on a kept connection
\* for as long as the process lives.  (Connections are not told apart.)
TailLines(e) ==
  /\ fetch.run = 0
  /\ owner[e] # None
  /\ fetch' = [run |-> e, read |-> written[e]]
  /\ UNCHANGED <<leaderVars, lines, written, mark, account>>

\* The request or its answer is lost, or the process dies: the follower polls
\* again, or exits if this was its first request.
FetchFails ==
  /\ fetch.run # 0
  /\ fetch' = NoFetch
  /\ UNCHANGED <<leaderVars, lines, written, mark, account>>

Raced == written[fetch.run] # fetch.read
Moved == fetch.run # account.run

PrintBacklog(total, got) ==
  /\ mark = None
  /\ mark' = total
  /\ account' = IF Raced \/ fetch.read > Capacity THEN Closed
                ELSE [run |-> fetch.run, skipped |-> fetch.read - Len(got),
                      printed |-> got, lost |-> 0]

\* No more than the high-water mark: nothing is new.
PrintNothing(total) ==
  /\ mark # None /\ total <= mark
  /\ account' = IF Raced \/ Moved THEN Closed ELSE account
  /\ UNCHANGED mark

\* A follower that counts what it printed.
MarkByPrinted(total, got) == mark + Least(total - mark, Len(got))

NewMark(total, got) == total

\* As many lines as the total grew by; those missing are reported as lost.
PrintNew(total, got) ==
  /\ mark # None /\ total > mark
  /\ mark' = NewMark(total, got)
  /\ LET shown == Least(total - mark, Len(got))
     IN  account' = IF Raced \/ Moved THEN Closed
                    ELSE [account EXCEPT
                            !.printed = @ \o SubSeq(got, Len(got) - shown + 1, Len(got)),
                            !.lost = @ + (total - mark - shown)]

\* The total, and with it the answer; nothing happens between that matters.
PrintAnswer ==
  /\ fetch.run # 0 /\ owner[fetch.run] # None
  /\ LET total == Retained(written[fetch.run])
         got == LastLines(fetch.read, IF mark = None THEN Backlog ELSE Want)
     IN  PrintBacklog(total, got) \/ PrintNothing(total) \/ PrintNew(total, got)
  /\ fetch' = NoFetch
  /\ UNCHANGED <<leaderVars, lines, written>>

Bounded == faults' + Cardinality(registered') + lines' <= MaxEvents

Next ==
  \/ LeaderNext /\ UNCHANGED logVars /\ Bounded
  \/ \E t \in tailers : ReadLine(t) /\ Bounded
  \/ \E e \in Runs : TailLines(e)
  \/ PrintAnswer \/ FetchFails

Spec == Init /\ [][Next]_vars

(***************************************************************************)
(* Fairness: that of the processes; the follower ticks, a poll ends, and   *)
(* not every answer of a broker that stays is lost.                        *)
(***************************************************************************)
LiveSpec ==
  /\ Spec
  /\ LeaderFairness
  /\ WF_vars(\E e \in Runs : TailLines(e))
  /\ WF_vars(PrintAnswer \/ FetchFails)
  /\ SF_vars(PrintAnswer)

-----------------------------------------------------------------------------
(* Properties *)

Increasing(s) == \A i, j \in 1..Len(s) : i < j => s[i] < s[j]

\* runLogs' comment: every line is printed once, in order, or reported as lost -
\* unless the ring evicts a line, a line comes between the two reads of an
\* answer, or another run answers: then the account is closed.
NothingMissed ==
  account # Closed =>
    /\ Len(account.printed) + account.lost = mark - account.skipped
    /\ Increasing(account.printed)
    /\ \A i \in 1..Len(account.printed) :
         account.printed[i] \in (account.skipped + 1)..mark

\* A follower of a broker that stays catches up, whatever answers are lost.
Behind ==
  /\ account # Closed
  /\ owner[account.run] # None
  /\ mark < written[account.run]

FollowerCatchesUp == Behind ~> ~Behind
=============================================================================
