--------------------------- MODULE RequestLifecycle ---------------------------
(***************************************************************************)
(* The life of an HTTP exchange in internal/server: admission by the       *)
(* composite rate limiter, authentication, the timeout middleware and the  *)
(* goroutine it starts for the rest of the chain, the metrics gauge, the   *)
(* release of the permit, and the graceful shutdown that closes the        *)
(* limiter before it drains the connections.                               *)
(*                                                                         *)
(* Two goroutines work on one exchange: the one net/http runs for the      *)
(* connection (conn) and the one timeoutMiddleware starts (work).  When    *)
(* the deadline passes, conn leaves and work stays behind.                 *)
(*                                                                         *)
(* Time is abstract: a deadline, a timer or a client that disconnects may  *)
(* strike at any moment.  The tool itself is a step of unknown length.     *)
(* OPTIONS and unsupported methods are answered before the limiter and     *)
(* keep no state; they do not appear.                                      *)
(***************************************************************************)
EXTENDS Integers, FiniteSets

CONSTANTS
  Requests,       \* exchanges that may be under way at once
  MaxConcurrent,  \* config.MaxConcurrentRequests: slots of the semaphore
  Burst           \* capacity of the token bucket

ASSUME LifecycleAssumption ==
  /\ IsFiniteSet(Requests)
  /\ MaxConcurrent \in Nat \ {0}
  /\ Burst \in Nat \ {0}

VARIABLES
  conn,      \* where the connection's goroutine is
  work,      \* where the goroutine started by timeoutMiddleware is
  exempt,    \* exchanges for /health or /metrics: they skip the limiter
  sem,       \* len(ConcurrencyLimiter.semaphore)
  current,   \* ConcurrencyLimiter.current
  tokens,    \* TokenBucketLimiter.tokens, whole tokens only
  gauge,     \* MetricsCollector.currentConcurrent
  phase      \* of HTTPServer.Shutdown

vars == <<conn, work, exempt, sem, current, tokens, gauge, phase>>

(***************************************************************************)
(* Locations of conn.  "token" and "sleep" are the loop of                 *)
(* TokenBucketLimiter.Wait, "slot" the select of ConcurrencyLimiter.       *)
(* Acquire, "enter" the gap before current++, "auth" authMiddleware,       *)
(* "serve" the select of timeoutMiddleware.  "inline" (with the metrics    *)
(* frame) and "inlineBare" (without) are conn running the handler itself   *)
(* after giving up.  "leave" and "return" are the halves of Release.    *)
(***************************************************************************)
Conn == {"idle", "token", "sleep", "slot", "enter", "auth", "serve",
         "inline", "inlineBare", "leave", "return"}

(***************************************************************************)
(* Locations of work.  "metrics" is inside metricsMiddleware before the    *)
(* handler, "handler" in the handler below it, "bare" in a handler reached *)
(* without the metrics frame.                                              *)
(***************************************************************************)
Work == {"none", "spawned", "metrics", "handler", "bare", "done"}

TypeOK ==
  /\ conn \in [Requests -> Conn]
  /\ work \in [Requests -> Work]
  /\ exempt \in SUBSET Requests
  /\ sem \in 0..MaxConcurrent
  /\ current \in Nat
  /\ tokens \in 0..Burst
  /\ gauge \in Int
  /\ phase \in {"up", "limiterClosed", "draining", "down"}

Init ==
  /\ conn = [r \in Requests |-> "idle"]
  /\ work = [r \in Requests |-> "none"]
  /\ exempt = {}
  /\ sem = 0
  /\ current = 0
  /\ tokens = Burst
  /\ gauge = 0
  /\ phase = "up"

\* TokenBucketLimiter.closed: set by the first step of Shutdown.
closed == phase # "up"

Move(r, from, to) ==
  /\ conn[r] = from
  /\ conn' = [conn EXCEPT ![r] = to]

Spawned(r, from, to) ==
  /\ work[r] = from
  /\ work' = [work EXCEPT ![r] = to]

-----------------------------------------------------------------------------
(* Admission: rateLimitMiddleware and CompositeRateLimiter.Acquire.        *)

\* A request reaches rateLimitMiddleware; /health and /metrics pass it by.
\* A slot of Requests is reused once the goroutine of its last use is gone.
Arrive(r) ==
  /\ phase \in {"up", "limiterClosed"}
  /\ work[r] \in {"none", "done"}
  /\ work' = [work EXCEPT ![r] = "none"]
  /\ \/ Move(r, "idle", "token") /\ exempt' = exempt \ {r}
     \/ Move(r, "idle", "auth")  /\ exempt' = exempt \cup {r}
  /\ UNCHANGED <<sem, current, tokens, gauge, phase>>

\* One turn of TokenBucketLimiter.Wait on an open bucket: refill by whatever
\* time has passed, then take a token or go to sleep.
WaitToken(r) ==
  /\ ~closed
  /\ \E refilled \in tokens..Burst :
       \/ /\ refilled >= 1
          /\ Move(r, "token", "slot")
          /\ tokens' = refilled - 1
       \/ /\ refilled = 0
          /\ Move(r, "token", "sleep")
          /\ tokens' = refilled
  /\ UNCHANGED <<work, exempt, sem, current, gauge, phase>>

\* Mutant: a closed bucket is waited for like an empty one.
RefuseClosedRetries(r) ==
  /\ closed
  /\ Move(r, "token", "sleep")
  /\ UNCHANGED <<work, exempt, sem, current, tokens, gauge, phase>>

\* The same turn on a closed bucket: 429.
RefuseClosed(r) ==
  /\ closed
  /\ Move(r, "token", "idle")
  /\ UNCHANGED <<work, exempt, sem, current, tokens, gauge, phase>>

\* time.After in Wait fires: next turn of the loop.
WakeUp(r) ==
  /\ Move(r, "sleep", "token")
  /\ UNCHANGED <<work, exempt, sem, current, tokens, gauge, phase>>

\* Mutant: one slot too many.
TakeSlotOverfull(r) ==
  /\ sem <= MaxConcurrent
  /\ Move(r, "slot", "enter")
  /\ sem' = sem + 1
  /\ UNCHANGED <<work, exempt, current, tokens, gauge, phase>>

\* ConcurrencyLimiter.Acquire: the send on the buffered channel goes through.
TakeSlot(r) ==
  /\ sem < MaxConcurrent
  /\ Move(r, "slot", "enter")
  /\ sem' = sem + 1
  /\ UNCHANGED <<work, exempt, current, tokens, gauge, phase>>

\* The client disconnects while the request waits for a token or for a slot:
\* Acquire returns ctx.Err() and the middleware answers 429 to nobody.
LeaveQueue(r) ==
  /\ Move(r, "sleep", "idle") \/ Move(r, "slot", "idle")
  /\ UNCHANGED <<work, exempt, sem, current, tokens, gauge, phase>>

CountIn(r) ==
  /\ Move(r, "enter", "auth")
  /\ current' = current + 1
  /\ UNCHANGED <<work, exempt, sem, tokens, gauge, phase>>

-----------------------------------------------------------------------------
(* authMiddleware and the deferred Release.                                *)

\* Mutant: a 401 returns without the release.
DenyWithoutRelease(r) ==
  /\ Move(r, "auth", "idle")
  /\ UNCHANGED <<work, exempt, sem, current, tokens, gauge, phase>>

\* 401: the chain is aborted; the deferred Release of the limiter still runs.
Deny(r) ==
  /\ Move(r, "auth", IF r \in exempt THEN "idle" ELSE "leave")
  /\ UNCHANGED <<work, exempt, sem, current, tokens, gauge, phase>>

\* Release, first half: current is decremented unless it is already 0.
CountOut(r) ==
  /\ Move(r, "leave", "return")
  /\ current' = IF current > 0 THEN current - 1 ELSE current
  /\ UNCHANGED <<work, exempt, sem, tokens, gauge, phase>>

\* Release, second half: receive from the semaphore unless it is empty.
ReturnSlot(r) ==
  /\ Move(r, "return", "idle")
  /\ sem' = IF sem > 0 THEN sem - 1 ELSE sem
  /\ UNCHANGED <<work, exempt, current, tokens, gauge, phase>>

-----------------------------------------------------------------------------
(* timeoutMiddleware.                                                      *)

\* Where conn goes when timeoutMiddleware returns to the chain.
After(r) == IF r \in exempt THEN "idle" ELSE "leave"

\* The rest of the chain is handed to a goroutine of its own.
Spawn(r) ==
  /\ Move(r, "auth", "serve")
  /\ work' = [work EXCEPT ![r] = "spawned"]
  /\ UNCHANGED <<exempt, sem, current, tokens, gauge, phase>>

\* case <-done
Finished(r) ==
  /\ work[r] = "done"
  /\ Move(r, "serve", After(r))
  /\ UNCHANGED <<work, exempt, sem, current, tokens, gauge, phase>>

\* Mutant: the deadline waits for the handler.
GiveUpWhenDone(r) ==
  /\ work[r] = "done"
  /\ Move(r, "serve", After(r))
  /\ UNCHANGED <<work, exempt, sem, current, tokens, gauge, phase>>

\* case <-ctx.Done(): the deadline (504 and Abort) or a disconnect (neither).
\* conn goes on to release its permit whatever work is doing.  On its way out
\* gin's Next loop below conn reads the handler index again: without an Abort,
\* or when the Abort is lost to an increment work makes at the same time (the
\* index has no lock), and while work has not reached the handler, conn finds
\* metricsMiddleware or the handler next in line and runs it itself.
GiveUp(r) ==
  /\ \/ Move(r, "serve", After(r)) /\ UNCHANGED gauge
     \/ /\ work[r] \in {"spawned", "metrics"}
        /\ \/ Move(r, "serve", "inline") /\ gauge' = gauge + 1
           \/ Move(r, "serve", "inlineBare") /\ UNCHANGED gauge
  /\ UNCHANGED <<work, exempt, sem, current, tokens, phase>>

\* The handler conn runs itself returns; its context is already cancelled.
InlineReturn(r) ==
  /\ \/ Move(r, "inline", After(r)) /\ gauge' = gauge - 1
     \/ Move(r, "inlineBare", After(r)) /\ UNCHANGED gauge
  /\ UNCHANGED <<work, exempt, sem, current, tokens, phase>>

-----------------------------------------------------------------------------
(* The goroutine that runs metricsMiddleware and the handler.              *)

\* conn has stopped waiting, and may have moved or aborted the chain's index.
ConnGaveUp(r) == conn[r] # "serve"

\* metricsMiddleware: IncrementConcurrent.
Enter(r) ==
  /\ Spawned(r, "spawned", "metrics")
  /\ gauge' = gauge + 1
  /\ UNCHANGED <<conn, exempt, sem, current, tokens, phase>>

\* c.Next() reaches the handler, usually below metricsMiddleware.
Dispatch(r) ==
  /\ \/ Spawned(r, "metrics", "handler")
     \/ ConnGaveUp(r) /\ Spawned(r, "spawned", "bare")
  /\ UNCHANGED <<conn, exempt, sem, current, tokens, gauge, phase>>

\* Mutant: the decrement is not deferred, an aborted chain does not reach it.
SkipKeepsGauge(r) ==
  /\ ConnGaveUp(r)
  /\ \/ Spawned(r, "spawned", "done")
     \/ Spawned(r, "metrics", "done")
  /\ UNCHANGED <<conn, exempt, sem, current, tokens, gauge, phase>>

\* The index is past the chain (Abort, or conn took the handler): work ends
\* without running the tool.  Once the chain has returned, gin may reset the
\* Context for another exchange, whose handlers gin's Next loop in work may then
\* go on to run or to skip; Skip and Return collapse this to the end of work.
Skip(r) ==
  /\ ConnGaveUp(r)
  /\ \/ Spawned(r, "spawned", "done") /\ UNCHANGED gauge
     \/ Spawned(r, "metrics", "done") /\ gauge' = gauge - 1
  /\ UNCHANGED <<conn, exempt, sem, current, tokens, phase>>

\* The handler returns, RecordRequest and the deferred DecrementConcurrent
\* run, done is closed.
Return(r) ==
  /\ \/ Spawned(r, "handler", "done") /\ gauge' = gauge - 1
     \/ Spawned(r, "bare", "done") /\ UNCHANGED gauge
  /\ UNCHANGED <<conn, exempt, sem, current, tokens, phase>>

-----------------------------------------------------------------------------
(* HTTPServer.Shutdown.                                                    *)

\* shutdownOnce: the limiter is closed first ...
CloseLimiter ==
  /\ phase = "up"
  /\ phase' = "limiterClosed"
  /\ UNCHANGED <<conn, work, exempt, sem, current, tokens, gauge>>

\* ... then http.Server.Shutdown closes the listener ...
StopListening ==
  /\ phase = "limiterClosed"
  /\ phase' = "draining"
  /\ UNCHANGED <<conn, work, exempt, sem, current, tokens, gauge>>

\* ... and returns when every connection is idle, or when ctx has expired.
ShutdownReturns ==
  /\ phase = "draining"
  /\ phase' = "down"
  /\ UNCHANGED <<conn, work, exempt, sem, current, tokens, gauge>>

\* Everything has come to rest after Shutdown.
Terminated ==
  /\ phase = "down"
  /\ \A r \in Requests : conn[r] = "idle" /\ work[r] \in {"none", "done"}
  /\ UNCHANGED vars

-----------------------------------------------------------------------------
Next ==
  \/ \E r \in Requests :
       \/ Arrive(r)
       \/ WaitToken(r) \/ RefuseClosed(r) \/ WakeUp(r)
       \/ TakeSlot(r) \/ LeaveQueue(r) \/ CountIn(r)
       \/ Deny(r) \/ Spawn(r)
       \/ Finished(r) \/ GiveUp(r) \/ InlineReturn(r)
       \/ CountOut(r) \/ ReturnSlot(r)
       \/ Enter(r) \/ Dispatch(r) \/ Skip(r) \/ Return(r)
  \/ CloseLimiter \/ StopListening \/ ShutdownReturns
  \/ Terminated

(***************************************************************************)
(* Fairness.  A goroutine that can run does run, a timer that is due does  *)
(* fire (WakeUp, GiveUp), and a handler conn runs itself returns because *)
(* its context is cancelled already.  Blocked senders of a Go channel are  *)
(* queued first in first out, which makes TakeSlot strongly fair.  Nothing *)
(* is assumed of clients, nor of a tool running in work: it may never end. *)
(***************************************************************************)
ConnFairness(r) ==
  /\ WF_vars(WaitToken(r)) /\ WF_vars(RefuseClosed(r)) /\ WF_vars(WakeUp(r))
  /\ SF_vars(TakeSlot(r)) /\ WF_vars(CountIn(r))
  /\ WF_vars(Deny(r) \/ Spawn(r))
  /\ WF_vars(GiveUp(r)) /\ WF_vars(InlineReturn(r))
  /\ WF_vars(CountOut(r)) /\ WF_vars(ReturnSlot(r))

Spec == Init /\ [][Next]_vars

FairSpec ==
  /\ Spec
  /\ \A r \in Requests : ConnFairness(r)
  /\ WF_vars(StopListening)

-----------------------------------------------------------------------------
(* Properties.                                                             *)

Limited == Requests \ exempt

\* Between the send to the semaphore and the receive from it.
Holding == {"enter", "auth", "serve", "inline", "inlineBare", "leave", "return"}

\* Between current++ and current--.
Counting == {"auth", "serve", "inline", "inlineBare", "leave"}

SlotHolders == {r \in Limited : conn[r] \in Holding}
Counted     == {r \in Limited : conn[r] \in Counting}

\* The limiter's two books, the channel and the counter, each agree with the
\* connections at all times, although they are written in separate steps and
\* Release guards both against going below zero: no permit is lost on any way
\* out of the chain (401, 504, disconnect, normal end) and none is returned
\* twice.
PermitAccounting ==
  /\ sem = Cardinality(SlotHolders)
  /\ current = Cardinality(Counted)

\* At most MaxConcurrent limited requests are between Acquire and Release.
AdmittedWithinLimit == Cardinality(SlotHolders) <= MaxConcurrent

\* The metricsMiddleware frames on the stack of a work and of a conn.
MeteredWork == {r \in Requests : work[r] \in {"metrics", "handler"}}
MeteredConn == {r \in Requests : conn[r] = "inline"}

\* kubectl_mcp_concurrent_requests counts each goroutine inside
\* metricsMiddleware once, the ones their connection has abandoned included:
\* every way out of the middleware runs its deferred decrement.
GaugeExact == gauge = Cardinality(MeteredWork) + Cardinality(MeteredConn)

\* What makes the two properties above inductive: an exchange that skips the
\* limiter is never at one of the limiter's steps, and timeoutMiddleware
\* starts its goroutine where none is running.
PathsDisjoint ==
  \A r \in Requests :
    /\ r \in exempt =>
         conn[r] \in {"idle", "auth", "serve", "inline", "inlineBare"}
    /\ conn[r] \in {"token", "sleep", "slot", "enter", "auth"} =>
         work[r] = "none"

IInv == TypeOK /\ PathsDisjoint /\ PermitAccounting /\ GaugeExact

\* A request waiting for a slot gets one or gives up, even if every running
\* tool hangs for ever: the deadline of those ahead frees their slots.  The
\* requests are interchangeable: one of them stands for all.
SlotObtained ==
  LET r == CHOOSE q \in Requests : TRUE IN conn[r] = "slot" ~> conn[r] # "slot"

\* Once the listener is closed every connection comes to rest: waiters are
\* refused by the closed bucket, the others end by their deadline.
Drains == phase = "draining" ~> \A r \in Requests : conn[r] = "idle"
=============================================================================
