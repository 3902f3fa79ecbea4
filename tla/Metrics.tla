-------------------------------- MODULE Metrics --------------------------------
(***************************************************************************)
(* MetricsCollector of internal/audit/metrics.go: the counters that the    *)
(* goroutines of requests update, one atomic operation after the other,    *)
(* while GET /metrics reads them one after the other.                      *)
(*                                                                         *)
(* A worker is the goroutine of one request below metricsMiddleware.  A    *)
(* latency counts as one unit.  The counters of the tools and of the       *)
(* errors are written and read under a mutex each, and the cache counters  *)
(* are single increments: they are left out, and so is the Prometheus      *)
(* text.  Reset is called by nothing in the server.                        *)
(***************************************************************************)
EXTENDS Integers, Sequences, FiniteSets

CONSTANT Workers  \* goroutines that record

ASSUME MetricsAssumption == IsFiniteSet(Workers)

Counters == {"total", "succeeded", "failed", "latencySum", "latencyCount",
             "current", "max"}

VARIABLES
  counter,  \* the atomic counters
  worker,   \* what each worker is doing: [at, current, max, ok]
  shot,     \* the snapshot being read: how far, and what was read
  highest   \* history: the greatest value of currentConcurrent

metricsVars == <<counter, worker, shot, highest>>

IdleWorker == [at |-> "idle", current |-> 0, max |-> 0, ok |-> FALSE]
Working == [IdleWorker EXCEPT !.at = "work"]

\* Mutant: GetSnapshot reads the outcomes before the total.
OutcomesFirst == <<"succeeded", "failed", "total", "latencyCount", "latencySum">>

\* GetSnapshot: what is read, in this order.  The gauge and its maximum,
\* read after "failed", are single numbers nothing else in the snapshot is
\* related to, and are left out.
ReadOrder == <<"total", "succeeded", "failed", "latencyCount", "latencySum">>

Unread == [i |-> 0, value |-> [c \in Counters |-> 0], before |-> 0]

MetricsInit ==
  /\ counter = [c \in Counters |-> 0]
  /\ worker = [w \in Workers |-> IdleWorker]
  /\ shot = Unread
  /\ highest = 0

-----------------------------------------------------------------------------
(* A worker.                                                               *)

WorkerGoes(w, from, new) ==
  /\ worker[w].at = from
  /\ worker' = [worker EXCEPT ![w] = new]

Adds(w, from, to, c) ==
  /\ WorkerGoes(w, from, [worker[w] EXCEPT !.at = to])
  /\ counter' = [counter EXCEPT ![c] = @ + 1]
  /\ UNCHANGED <<shot, highest>>

\* IncrementConcurrent: the addition ...
Increment(w) ==
  /\ WorkerGoes(w, "idle", [IdleWorker EXCEPT !.at = "load", !.current = counter["current"] + 1])
  /\ counter' = [counter EXCEPT !["current"] = @ + 1]
  /\ highest' = IF counter'["current"] > highest THEN counter'["current"] ELSE highest
  /\ UNCHANGED shot

\* ... and the loop that raises the maximum: load, and leave if it is enough,
LoadMax(w) ==
  /\ WorkerGoes(w, "load", IF worker[w].current <= counter["max"] THEN Working
       ELSE [worker[w] EXCEPT !.at = "swap", !.max = counter["max"]])
  /\ UNCHANGED <<counter, shot, highest>>

\* Mutant: a store where the code compares and swaps.
StoreMax(w) ==
  /\ WorkerGoes(w, "swap", Working)
  /\ counter' = [counter EXCEPT !["max"] = worker[w].current]
  /\ UNCHANGED <<shot, highest>>

\* or compare and swap, and try again if the maximum has changed.
SwapMax(w) ==
  /\ IF counter["max"] = worker[w].max
     THEN /\ WorkerGoes(w, "swap", Working)
          /\ counter' = [counter EXCEPT !["max"] = worker[w].current]
     ELSE /\ WorkerGoes(w, "swap", [worker[w] EXCEPT !.at = "load"])
          /\ UNCHANGED counter
  /\ UNCHANGED <<shot, highest>>

\* RecordRequest.
CountTotal(w) == Adds(w, "total", "outcome", "total")
CountOutcome(w) ==
  /\ WorkerGoes(w, "outcome", [IdleWorker EXCEPT !.at = "sum"])
  /\ counter' = [counter EXCEPT ![IF worker[w].ok THEN "succeeded" ELSE "failed"] = @ + 1]
  /\ UNCHANGED <<shot, highest>>
AddLatency(w) == Adds(w, "sum", "count", "latencySum")
CountLatency(w) == Adds(w, "count", "decrement", "latencyCount")

\* DecrementConcurrent.
Decrement(w) ==
  /\ WorkerGoes(w, "decrement", [IdleWorker EXCEPT !.at = "gone"])
  /\ counter' = [counter EXCEPT !["current"] = @ - 1]
  /\ UNCHANGED <<shot, highest>>

-----------------------------------------------------------------------------
(* GET /metrics.                                                           *)

\* Workers that have counted in the total and not yet all the rest.
Recording == {w \in Workers : worker[w].at \in {"outcome", "sum", "count"}}

\* One load of GetSnapshot.  before is history: how many workers were
\* recording at the start.
Read ==
  LET i == shot.i + 1
  IN  /\ shot.i < Len(ReadOrder)
      /\ shot' = [shot EXCEPT !.i = i, !.value[ReadOrder[i]] = counter[ReadOrder[i]],
                    !.before = IF i = 1 THEN Cardinality(Recording) ELSE @]
      /\ UNCHANGED <<counter, worker, highest>>

\* PrometheusHandler has written the snapshot out.
Render ==
  /\ shot.i = Len(ReadOrder)
  /\ shot' = Unread
  /\ UNCHANGED <<counter, worker, highest>>

\* The worker's own steps, but for Increment and for the work between "work"
\* and "total", which belong to the handler.
MetricsStep(w) ==
  \/ LoadMax(w) \/ SwapMax(w)
  \/ CountTotal(w) \/ CountOutcome(w) \/ AddLatency(w) \/ CountLatency(w)
  \/ Decrement(w)

-----------------------------------------------------------------------------
(* Properties.                                                             *)

WorkerTypes ==
  worker \in [Workers ->
    [at : {"idle", "load", "swap", "work", "total", "outcome",
           "sum", "count", "decrement", "gone"},
     current : Nat, max : Nat, ok : BOOLEAN]]

\* The counters never go below zero.
MetricsTypes ==
  /\ counter \in [Counters -> Nat]
  /\ WorkerTypes
  /\ highest \in Nat

\* The loop of IncrementConcurrent loses no maximum, however the loads and
\* the swaps of several goroutines interleave (metrics.go:143): when nobody
\* is in it, maxConcurrent is the greatest number of requests there ever was.
MaxExact ==
  (\A w \in Workers : worker[w].at \notin {"load", "swap"})
  => counter["max"] = highest

\* Whoever reads a whole snapshot (metrics.go:179): the outcomes of the
\* requests miss at most those that were being recorded when the total was
\* read, and the average latency is never computed from more requests than
\* latencies.
SnapshotConsistent ==
  shot.i = Len(ReadOrder) =>
    /\ shot.value["succeeded"] + shot.value["failed"] + shot.before >= shot.value["total"]
    /\ shot.value["latencySum"] >= shot.value["latencyCount"]
-----------------------------------------------------------------------------
(* The inductive forms of MaxExact and SnapshotConsistent.                 *)

WorkersAt(places) == {w \in Workers : worker[w].at \in places}

Inside == {"load", "swap", "work", "total", "outcome", "sum", "count", "decrement"}

ShotTypes ==
  shot \in [i : 0 .. Len(ReadOrder), value : [Counters -> Nat], before : Nat]

\* The gauge and the counters of the requests agree with where the workers are.
CountersAgree ==
  /\ counter["current"] = Cardinality(WorkersAt(Inside))
  /\ counter["total"] =
       counter["succeeded"] + counter["failed"] + Cardinality(WorkersAt({"outcome"}))
  /\ counter["latencySum"] = counter["latencyCount"] + Cardinality(WorkersAt({"count"}))

\* The maximum is the highest there was, or somebody is raising it to that.
MaxKept ==
  /\ counter["current"] <= highest
  /\ counter["max"] <= highest
  /\ \A w \in WorkersAt({"load", "swap"}) : worker[w].current <= highest
  /\ \A w \in WorkersAt({"swap"}) : worker[w].max < worker[w].current
  /\ \/ counter["max"] = highest
     \/ \E w \in WorkersAt({"load", "swap"}) : worker[w].current = highest

\* What the snapshot has of counter c, the n-th it reads, or will have at least.
SoFar(c, n) == IF shot.i >= n THEN shot.value[c] ELSE counter[c]

ShotKept ==
  /\ shot.i >= 1 =>
       shot.value["total"] <= SoFar("succeeded", 2) + SoFar("failed", 3) + shot.before
  /\ shot.i >= 4 => shot.value["latencyCount"] <= SoFar("latencySum", 5)

MetricsInv == MetricsTypes /\ ShotTypes /\ CountersAgree /\ MaxKept /\ ShotKept
=============================================================================
