--------------------------- MODULE Application_proofs ---------------------------
(***************************************************************************)
(* The collector and the life of the process, proved for any number of     *)
(* requests and any sources of the configuration.  The inductive invariant *)
(* is IInv of Application, of which MetricsInv is the collector's part.    *)
(***************************************************************************)
EXTENDS Application, FiniteSetTheorems, TLAPS

-----------------------------------------------------------------------------
(* The collector.                                                          *)

\* Where a worker can be.
Places == Inside \cup {"idle", "gone"}

\* A set of workers is finite.
LEMMA WorkersCounted ==
  ASSUME NEW S \in SUBSET Workers PROVE IsFiniteSet(S) /\ Cardinality(S) \in Nat
BY MetricsAssumption, FS_Subset, FS_CardinalityType DEF MetricsAssumption

\* A worker that goes from one place to another joins those at some places,
\* leaves them, or changes nothing.
LEMMA WorkerMoves ==
  ASSUME WorkerTypes, NEW w \in Workers, NEW new,
         worker' = [worker EXCEPT ![w] = new], NEW P
  PROVE  /\ Cardinality(WorkersAt(P)) \in Nat
         /\ (new.at \in P <=> worker[w].at \in P) =>
              Cardinality(WorkersAt(P)') = Cardinality(WorkersAt(P))
         /\ new.at \in P /\ worker[w].at \notin P =>
              Cardinality(WorkersAt(P)') = Cardinality(WorkersAt(P)) + 1
         /\ new.at \notin P /\ worker[w].at \in P =>
              Cardinality(WorkersAt(P)') = Cardinality(WorkersAt(P)) - 1
<1>1. /\ \A v \in Workers \ {w} : worker'[v] = worker[v]
      /\ worker'[w] = new
  BY DEF WorkerTypes
<1>2. IsFiniteSet(WorkersAt(P)) /\ Cardinality(WorkersAt(P)) \in Nat
  BY WorkersCounted DEF WorkersAt
<1>3. w \in WorkersAt(P) <=> worker[w].at \in P
  BY DEF WorkersAt
<1>4. /\ new.at \in P => WorkersAt(P)' = WorkersAt(P) \cup {w}
      /\ new.at \notin P => WorkersAt(P)' = WorkersAt(P) \ {w}
  BY <1>1 DEF WorkersAt
<1>5. /\ w \in WorkersAt(P) => WorkersAt(P) \cup {w} = WorkersAt(P)
      /\ w \notin WorkersAt(P) => WorkersAt(P) \ {w} = WorkersAt(P)
  OBVIOUS
<1>6. /\ w \notin WorkersAt(P) =>
           Cardinality(WorkersAt(P) \cup {w}) = Cardinality(WorkersAt(P)) + 1
      /\ w \in WorkersAt(P) =>
           Cardinality(WorkersAt(P) \ {w}) = Cardinality(WorkersAt(P)) - 1
  BY <1>2, FS_AddElement, FS_RemoveElement
<1> QED
  BY <1>2, <1>3, <1>4, <1>5, <1>6

\* What the step of a worker does to the three sets that are counted.
LEMMA CountsMove ==
  ASSUME WorkerTypes, NEW w \in Workers, NEW new, worker' = [worker EXCEPT ![w] = new]
  PROVE  \A P \in {Inside, {"outcome"}, {"count"}} :
           /\ Cardinality(WorkersAt(P)) \in Nat
           /\ Cardinality(WorkersAt(P)') = Cardinality(WorkersAt(P))
                + (IF new.at \in P THEN 1 ELSE 0) - (IF worker[w].at \in P THEN 1 ELSE 0)
<1> SUFFICES ASSUME NEW P \in {Inside, {"outcome"}, {"count"}}
    PROVE  /\ Cardinality(WorkersAt(P)) \in Nat
           /\ Cardinality(WorkersAt(P)') = Cardinality(WorkersAt(P))
                + (IF new.at \in P THEN 1 ELSE 0) - (IF worker[w].at \in P THEN 1 ELSE 0)
  OBVIOUS
<1>1. /\ Cardinality(WorkersAt(P)) \in Nat
      /\ (new.at \in P <=> worker[w].at \in P) =>
           Cardinality(WorkersAt(P)') = Cardinality(WorkersAt(P))
      /\ new.at \in P /\ worker[w].at \notin P =>
           Cardinality(WorkersAt(P)') = Cardinality(WorkersAt(P)) + 1
      /\ new.at \notin P /\ worker[w].at \in P =>
           Cardinality(WorkersAt(P)') = Cardinality(WorkersAt(P)) - 1
  BY WorkerMoves
<1> QED
  BY <1>1

\* The collector at the start.
LEMMA MetricsInitInv == MetricsInit => MetricsInv
<1> SUFFICES ASSUME MetricsInit PROVE MetricsInv
  OBVIOUS
<1>1. MetricsTypes /\ ShotTypes /\ shot.i = 0
  BY DEF MetricsInit, MetricsTypes, WorkerTypes, IdleWorker, ShotTypes, Unread, Counters, ReadOrder
<1>2. \A P : "idle" \notin P => WorkersAt(P) = {}
  BY DEF MetricsInit, WorkersAt, IdleWorker
<1>3. /\ WorkersAt(Inside) = {} /\ WorkersAt({"outcome"}) = {} /\ WorkersAt({"count"}) = {}
      /\ WorkersAt({"load", "swap"}) = {} /\ WorkersAt({"swap"}) = {}
  BY <1>2 DEF Inside
<1>4. \A c \in Counters : counter[c] = 0
  BY DEF MetricsInit
<1>5. CountersAgree /\ MaxKept
  BY <1>3, <1>4, FS_EmptySet DEF CountersAgree, MaxKept, MetricsInit, Counters
<1> QED
  BY <1>1, <1>5 DEF MetricsInv, ShotKept

\* Nothing of the collector changes.
LEMMA MetricsStutter == ASSUME MetricsInv, UNCHANGED metricsVars PROVE MetricsInv'
BY DEF MetricsInv, metricsVars, MetricsTypes, WorkerTypes, ShotTypes, CountersAgree, MaxKept,
       ShotKept, SoFar, WorkersAt

\* A worker that is not in the loop of the maximum, and does not go there.
LEMMA MaxUntouched ==
  ASSUME MetricsTypes, MaxKept, NEW w \in Workers, NEW new,
         worker' = [worker EXCEPT ![w] = new],
         worker[w].at \notin {"load", "swap"}, new.at \notin {"load", "swap"},
         counter'["max"] = counter["max"], highest' = highest,
         counter'["current"] \in Nat, counter'["current"] <= counter["current"]
  PROVE  MaxKept'
<1>1. WorkersAt({"load", "swap"})' = WorkersAt({"load", "swap"})
      /\ WorkersAt({"swap"})' = WorkersAt({"swap"})
      /\ w \notin WorkersAt({"load", "swap"}) /\ w \notin WorkersAt({"swap"})
  BY DEF WorkersAt, MetricsTypes, WorkerTypes
<1>2. \A v \in Workers \ {w} : worker'[v] = worker[v]
  BY DEF MetricsTypes, WorkerTypes
<1>3. WorkersAt({"load", "swap"}) \subseteq Workers /\ WorkersAt({"swap"}) \subseteq Workers
  BY DEF WorkersAt
<1>4. counter["current"] \in Nat /\ highest \in Nat
  BY DEF MetricsTypes, Counters
<1> QED
  BY <1>1, <1>2, <1>3, <1>4 DEF MaxKept

\* Counters that grow do not disturb a snapshot.
LEMMA ShotUntouched ==
  ASSUME ShotTypes, ShotKept, UNCHANGED shot, MetricsTypes, MetricsTypes',
         \A c \in {"succeeded", "failed", "latencySum"} : counter'[c] >= counter[c]
  PROVE  ShotKept'
<1>1. /\ shot.i \in Nat /\ shot.before \in Nat
      /\ \A c \in Counters : shot.value[c] \in Nat /\ counter[c] \in Nat /\ counter'[c] \in Nat
  BY DEF ShotTypes, MetricsTypes, ReadOrder
<1>2. SoFar("succeeded", 2)' >= SoFar("succeeded", 2) /\ SoFar("failed", 3)' >= SoFar("failed", 3)
      /\ SoFar("latencySum", 5)' >= SoFar("latencySum", 5)
  BY <1>1 DEF SoFar, Counters
<1>3. /\ SoFar("succeeded", 2) \in Nat /\ SoFar("failed", 3) \in Nat /\ SoFar("latencySum", 5) \in Nat
      /\ SoFar("succeeded", 2)' \in Nat /\ SoFar("failed", 3)' \in Nat
      /\ SoFar("latencySum", 5)' \in Nat
      /\ shot.value["total"] \in Nat /\ shot.value["latencyCount"] \in Nat
  BY <1>1 DEF SoFar, Counters
<1> QED
  BY <1>1, <1>2, <1>3 DEF ShotKept

\* A worker's record stays one when it gets another place.
LEMMA Moved ==
  ASSUME WorkerTypes, NEW w \in Workers, NEW at \in Places
  PROVE  /\ [worker[w] EXCEPT !.at = at] \in
              [at : Places, current : Nat, max : Nat, ok : BOOLEAN]
         /\ [IdleWorker EXCEPT !.at = at] \in
              [at : Places, current : Nat, max : Nat, ok : BOOLEAN]
         /\ [worker[w] EXCEPT !.at = at].at = at /\ [IdleWorker EXCEPT !.at = at].at = at
BY DEF WorkerTypes, Places, Inside, IdleWorker

\* The types, when one worker and one counter change.
LEMMA TypesMove ==
  ASSUME MetricsTypes, NEW w \in Workers,
         NEW new \in [at : Places, current : Nat, max : Nat, ok : BOOLEAN],
         worker' = [worker EXCEPT ![w] = new], NEW c \in Counters, NEW n \in Nat,
         counter' = [counter EXCEPT ![c] = n], highest' \in Nat
  PROVE  MetricsTypes'
BY DEF MetricsTypes, WorkerTypes, Places, Inside

\* One counter of RecordRequest goes up by one, as its worker goes on.
LEMMA RecordCounts ==
  ASSUME MetricsInv, NEW w \in Workers,
         NEW new \in [at : Places, current : Nat, max : Nat, ok : BOOLEAN],
         worker' = [worker EXCEPT ![w] = new], NEW c \in Counters,
         counter' = [counter EXCEPT ![c] = counter[c] + 1], UNCHANGED <<shot, highest>>,
         \/ c = "total" /\ worker[w].at = "total" /\ new.at = "outcome"
         \/ c \in {"succeeded", "failed"} /\ worker[w].at = "outcome" /\ new.at = "sum"
         \/ c = "latencySum" /\ worker[w].at = "sum" /\ new.at = "count"
         \/ c = "latencyCount" /\ worker[w].at = "count" /\ new.at = "decrement"
  PROVE  MetricsInv'
<1>0. MetricsTypes /\ WorkerTypes /\ MaxKept /\ ShotTypes /\ ShotKept /\ CountersAgree
  BY DEF MetricsInv, MetricsTypes
<1>1. /\ counter \in [Counters -> Nat] /\ highest \in Nat /\ highest' \in Nat
      /\ \A x \in Counters : counter[x] \in Nat
  BY <1>0 DEF MetricsTypes
<1>2. counter[c] + 1 \in Nat
  BY <1>1
<1>3. MetricsTypes'
  BY <1>0, <1>1, <1>2, TypesMove
<1>4. /\ \A x \in Counters \ {c} : counter'[x] = counter[x]
      /\ counter'[c] = counter[c] + 1
  BY <1>1
<1>5. \A P \in {Inside, {"outcome"}, {"count"}} :
        /\ Cardinality(WorkersAt(P)) \in Nat
        /\ Cardinality(WorkersAt(P)') = Cardinality(WorkersAt(P))
             + (IF new.at \in P THEN 1 ELSE 0) - (IF worker[w].at \in P THEN 1 ELSE 0)
  BY <1>0, CountsMove
<1>6. /\ Cardinality(WorkersAt(Inside)') = Cardinality(WorkersAt(Inside))
      /\ Cardinality(WorkersAt({"outcome"})') = Cardinality(WorkersAt({"outcome"}))
           + (IF new.at = "outcome" THEN 1 ELSE 0) - (IF worker[w].at = "outcome" THEN 1 ELSE 0)
      /\ Cardinality(WorkersAt({"count"})') = Cardinality(WorkersAt({"count"}))
           + (IF new.at = "count" THEN 1 ELSE 0) - (IF worker[w].at = "count" THEN 1 ELSE 0)
      /\ Cardinality(WorkersAt(Inside)) \in Nat
      /\ Cardinality(WorkersAt({"outcome"})) \in Nat /\ Cardinality(WorkersAt({"count"})) \in Nat
  BY <1>5 DEF Inside
<1>7. CountersAgree'
  BY <1>0, <1>1, <1>4, <1>6 DEF CountersAgree, Counters
<1>8. /\ worker[w].at \notin {"load", "swap"} /\ new.at \notin {"load", "swap"}
      /\ counter'["max"] = counter["max"] /\ highest' = highest
      /\ counter'["current"] \in Nat /\ counter'["current"] <= counter["current"]
  BY <1>1, <1>4 DEF Counters
<1>9. MaxKept'
  BY <1>0, <1>8, MaxUntouched
<1>10. \A x \in {"succeeded", "failed", "latencySum"} : counter'[x] >= counter[x]
  BY <1>1, <1>4 DEF Counters
<1>11. ShotKept' /\ ShotTypes'
  BY <1>0, <1>3, <1>10, ShotUntouched DEF ShotTypes
<1> QED
  BY <1>3, <1>7, <1>9, <1>11 DEF MetricsInv

\* RecordRequest.
LEMMA RecordKeeps ==
  ASSUME MetricsInv, NEW w \in Workers,
         CountTotal(w) \/ CountOutcome(w) \/ AddLatency(w) \/ CountLatency(w)
  PROVE  MetricsInv'
<1>0. WorkerTypes
  BY DEF MetricsInv, MetricsTypes
<1>1. CASE CountTotal(w)
  <2> DEFINE new == [worker[w] EXCEPT !.at = "outcome"]
  <2>1. new \in [at : Places, current : Nat, max : Nat, ok : BOOLEAN] /\ new.at = "outcome"
    BY <1>0, Moved DEF Places, Inside
  <2>2. /\ worker[w].at = "total" /\ worker' = [worker EXCEPT ![w] = new]
        /\ counter' = [counter EXCEPT !["total"] = counter["total"] + 1]
        /\ UNCHANGED <<shot, highest>> /\ "total" \in Counters
    BY <1>1 DEF CountTotal, Adds, WorkerGoes, Counters
  <2> HIDE DEF new
  <2> QED
    BY <2>1, <2>2, RecordCounts
<1>2. CASE CountOutcome(w)
  <2> DEFINE new == [IdleWorker EXCEPT !.at = "sum"]
             c == IF worker[w].ok THEN "succeeded" ELSE "failed"
  <2>1. new \in [at : Places, current : Nat, max : Nat, ok : BOOLEAN] /\ new.at = "sum"
    BY <1>0, Moved DEF Places, Inside
  <2>2. /\ worker[w].at = "outcome" /\ worker' = [worker EXCEPT ![w] = new]
        /\ counter' = [counter EXCEPT ![c] = counter[c] + 1]
        /\ UNCHANGED <<shot, highest>>
    BY <1>2 DEF CountOutcome, WorkerGoes
  <2>3. c \in Counters /\ c \in {"succeeded", "failed"}
    BY DEF Counters
  <2> HIDE DEF new, c
  <2> QED
    BY <2>1, <2>2, <2>3, RecordCounts
<1>3. CASE AddLatency(w)
  <2> DEFINE new == [worker[w] EXCEPT !.at = "count"]
  <2>1. new \in [at : Places, current : Nat, max : Nat, ok : BOOLEAN] /\ new.at = "count"
    BY <1>0, Moved DEF Places, Inside
  <2>2. /\ worker[w].at = "sum" /\ worker' = [worker EXCEPT ![w] = new]
        /\ counter' = [counter EXCEPT !["latencySum"] = counter["latencySum"] + 1]
        /\ UNCHANGED <<shot, highest>> /\ "latencySum" \in Counters
    BY <1>3 DEF AddLatency, Adds, WorkerGoes, Counters
  <2> HIDE DEF new
  <2> QED
    BY <2>1, <2>2, RecordCounts
<1>4. CASE CountLatency(w)
  <2> DEFINE new == [worker[w] EXCEPT !.at = "decrement"]
  <2>1. new \in [at : Places, current : Nat, max : Nat, ok : BOOLEAN] /\ new.at = "decrement"
    BY <1>0, Moved DEF Places, Inside
  <2>2. /\ worker[w].at = "count" /\ worker' = [worker EXCEPT ![w] = new]
        /\ counter' = [counter EXCEPT !["latencyCount"] = counter["latencyCount"] + 1]
        /\ UNCHANGED <<shot, highest>> /\ "latencyCount" \in Counters
    BY <1>4 DEF CountLatency, Adds, WorkerGoes, Counters
  <2> HIDE DEF new
  <2> QED
    BY <2>1, <2>2, RecordCounts
<1> QED
  BY <1>1, <1>2, <1>3, <1>4

\* A worker that moves from one place inside to another one inside, without
\* counting: the loop of the maximum, and the work.
LEMMA AgreeMove ==
  ASSUME MetricsTypes, CountersAgree, NEW w \in Workers, NEW new,
         worker' = [worker EXCEPT ![w] = new],
         worker[w].at \in Inside \ {"outcome", "count"}, new.at \in Inside \ {"outcome", "count"},
         \A c \in Counters \ {"max"} : counter'[c] = counter[c]
  PROVE  CountersAgree'
<1>1. \A P \in {Inside, {"outcome"}, {"count"}} :
        /\ Cardinality(WorkersAt(P)) \in Nat
        /\ Cardinality(WorkersAt(P)') = Cardinality(WorkersAt(P))
             + (IF new.at \in P THEN 1 ELSE 0) - (IF worker[w].at \in P THEN 1 ELSE 0)
  BY CountsMove DEF MetricsTypes
<1>2. \A P \in {Inside, {"outcome"}, {"count"}} : new.at \in P <=> worker[w].at \in P
  OBVIOUS
<1>3. \A P \in {Inside, {"outcome"}, {"count"}} :
        Cardinality(WorkersAt(P)') = Cardinality(WorkersAt(P))
  <2> SUFFICES ASSUME NEW P \in {Inside, {"outcome"}, {"count"}}
      PROVE  Cardinality(WorkersAt(P)') = Cardinality(WorkersAt(P))
    OBVIOUS
  <2>1. new.at \in P <=> worker[w].at \in P
    BY <1>2
  <2>2. /\ Cardinality(WorkersAt(P)) \in Nat
        /\ Cardinality(WorkersAt(P)') = Cardinality(WorkersAt(P))
             + (IF new.at \in P THEN 1 ELSE 0) - (IF worker[w].at \in P THEN 1 ELSE 0)
    BY <1>1
  <2> QED
    BY <2>1, <2>2
<1> QED
  BY <1>3 DEF CountersAgree, Counters

\* DecrementConcurrent.  The gauge is positive, as the worker is inside.
LEMMA DecrementKeeps == ASSUME MetricsInv, NEW w \in Workers, Decrement(w) PROVE MetricsInv'
<1> DEFINE new == [IdleWorker EXCEPT !.at = "gone"]
<1>0. MetricsTypes /\ WorkerTypes /\ MaxKept /\ ShotTypes /\ ShotKept /\ CountersAgree
  BY DEF MetricsInv, MetricsTypes
<1>1. new \in [at : Places, current : Nat, max : Nat, ok : BOOLEAN] /\ new.at = "gone"
  BY <1>0, Moved DEF Places, Inside
<1>2. /\ worker[w].at = "decrement" /\ worker' = [worker EXCEPT ![w] = new]
      /\ counter' = [counter EXCEPT !["current"] = counter["current"] - 1]
      /\ shot' = shot /\ highest' = highest
  BY DEF Decrement, WorkerGoes
<1> HIDE DEF new
<1>3. /\ counter \in [Counters -> Nat] /\ highest \in Nat /\ highest' \in Nat
      /\ \A x \in Counters : counter[x] \in Nat
  BY <1>0, <1>2 DEF MetricsTypes
<1>4. \A P \in {Inside, {"outcome"}, {"count"}} :
        /\ Cardinality(WorkersAt(P)) \in Nat /\ Cardinality(WorkersAt(P)') \in Nat
        /\ Cardinality(WorkersAt(P)') = Cardinality(WorkersAt(P))
             + (IF new.at \in P THEN 1 ELSE 0) - (IF worker[w].at \in P THEN 1 ELSE 0)
  BY <1>0, <1>2, CountsMove, WorkersCounted DEF WorkersAt
<1>5. /\ Cardinality(WorkersAt(Inside)') = Cardinality(WorkersAt(Inside)) - 1
      /\ Cardinality(WorkersAt(Inside)') \in Nat /\ Cardinality(WorkersAt(Inside)) \in Nat
      /\ Cardinality(WorkersAt({"outcome"})') = Cardinality(WorkersAt({"outcome"}))
      /\ Cardinality(WorkersAt({"count"})') = Cardinality(WorkersAt({"count"}))
  BY <1>1, <1>2, <1>4 DEF Inside
<1>6. counter["current"] - 1 \in Nat /\ "current" \in Counters
  BY <1>0, <1>5 DEF CountersAgree, Counters
<1>7. MetricsTypes'
  BY <1>0, <1>1, <1>2, <1>3, <1>6, TypesMove
<1>8. /\ \A x \in Counters \ {"current"} : counter'[x] = counter[x]
      /\ counter'["current"] = counter["current"] - 1
  BY <1>2, <1>3, <1>6
<1>9. CountersAgree'
  BY <1>0, <1>3, <1>5, <1>8 DEF CountersAgree, Counters
<1>10. /\ worker[w].at \notin {"load", "swap"} /\ new.at \notin {"load", "swap"}
       /\ counter'["max"] = counter["max"]
       /\ counter'["current"] \in Nat /\ counter'["current"] <= counter["current"]
  BY <1>1, <1>2, <1>3, <1>6, <1>8 DEF Counters
<1>11. MaxKept'
  BY <1>0, <1>2, <1>10, MaxUntouched
<1>12. \A x \in {"succeeded", "failed", "latencySum"} : counter'[x] >= counter[x]
  BY <1>3, <1>8 DEF Counters
<1>13. ShotKept' /\ ShotTypes'
  BY <1>0, <1>2, <1>7, <1>12, ShotUntouched DEF ShotTypes
<1> QED
  BY <1>7, <1>9, <1>11, <1>13 DEF MetricsInv

\* A worker that goes through the loop of the maximum counts nothing.
LEMMA LoopKeeps ==
  ASSUME MetricsInv, NEW w \in Workers,
         NEW new \in [at : Places, current : Nat, max : Nat, ok : BOOLEAN],
         worker' = [worker EXCEPT ![w] = new], NEW n \in Nat,
         counter' = [counter EXCEPT !["max"] = n], UNCHANGED <<shot, highest>>,
         worker[w].at \in {"load", "swap"}, new.at \in {"load", "swap", "work"}
  PROVE  MetricsTypes' /\ CountersAgree' /\ ShotKept' /\ ShotTypes'
<1>0. MetricsTypes /\ ShotTypes /\ ShotKept /\ CountersAgree
  BY DEF MetricsInv
<1>1. /\ "max" \in Counters /\ highest' \in Nat
      /\ \A x \in Counters : counter[x] \in Nat
      /\ \A x \in Counters \ {"max"} : counter'[x] = counter[x]
  BY <1>0 DEF MetricsTypes, Counters
<1>2. MetricsTypes'
  BY <1>0, <1>1, TypesMove
<1>3. worker[w].at \in Inside \ {"outcome", "count"} /\ new.at \in Inside \ {"outcome", "count"}
  BY DEF Inside
<1>4. CountersAgree'
  BY <1>0, <1>1, <1>3, AgreeMove
<1>5. \A x \in {"succeeded", "failed", "latencySum"} : counter'[x] >= counter[x]
  BY <1>1 DEF Counters
<1>6. ShotKept' /\ ShotTypes'
  BY <1>0, <1>2, <1>5, ShotUntouched DEF ShotTypes
<1> QED
  BY <1>2, <1>4, <1>6

\* The load: whoever leaves the loop has seen a maximum that is enough.
LEMMA LoadMaxKeeps == ASSUME MetricsInv, NEW w \in Workers, LoadMax(w) PROVE MetricsInv'
<1> DEFINE new == IF worker[w].current <= counter["max"] THEN Working
                  ELSE [worker[w] EXCEPT !.at = "swap", !.max = counter["max"]]
<1>0. MetricsTypes /\ WorkerTypes /\ MaxKept
  BY DEF MetricsInv, MetricsTypes
<1>1. /\ worker[w].at = "load" /\ worker' = [worker EXCEPT ![w] = new]
      /\ UNCHANGED <<counter, shot, highest>>
  BY DEF LoadMax, WorkerGoes
<1>2. /\ counter \in [Counters -> Nat] /\ counter["max"] \in Nat /\ highest \in Nat
      /\ worker[w] \in [at : Places, current : Nat, max : Nat, ok : BOOLEAN]
  BY <1>0 DEF MetricsTypes, WorkerTypes, Counters, Places, Inside
<1>3. /\ new \in [at : Places, current : Nat, max : Nat, ok : BOOLEAN]
      /\ worker[w].current <= counter["max"] => new.at = "work"
      /\ ~(worker[w].current <= counter["max"]) =>
           new.at = "swap" /\ new.current = worker[w].current /\ new.max = counter["max"]
  BY <1>2 DEF Working, IdleWorker, Places, Inside
<1> HIDE DEF new
<1>4. counter' = [counter EXCEPT !["max"] = counter["max"]]
  BY <1>1, <1>2
<1>5. new.at \in {"load", "swap", "work"}
  BY <1>3
<1>6. MetricsTypes' /\ CountersAgree' /\ ShotKept' /\ ShotTypes'
  BY <1>1, <1>2, <1>3, <1>4, <1>5, LoopKeeps
<1>7. /\ \A v \in Workers \ {w} : worker'[v] = worker[v]
      /\ worker'[w] = new
      /\ \A v \in Workers : worker[v].current \in Nat /\ worker[v].max \in Nat
  BY <1>0, <1>1 DEF WorkerTypes
<1>8. MaxKept'
  <2>1. /\ \A v \in WorkersAt({"load", "swap"})' : worker'[v].current <= highest
        /\ \A v \in WorkersAt({"swap"})' : worker'[v].max < worker'[v].current
    BY <1>0, <1>1, <1>2, <1>3, <1>7 DEF WorkersAt, MaxKept
  <2>2. \/ counter["max"] = highest
        \/ \E v \in WorkersAt({"load", "swap"})' : worker'[v].current = highest
    <3>1. CASE counter["max"] = highest
      BY <3>1
    <3>2. ASSUME NEW v \in WorkersAt({"load", "swap"}), worker[v].current = highest, v # w
          PROVE  v \in WorkersAt({"load", "swap"})' /\ worker'[v].current = highest
      BY <3>2, <1>7 DEF WorkersAt
    <3>3. CASE worker[w].current = highest
      <4>1. CASE worker[w].current <= counter["max"]
        BY <4>1, <3>3, <1>0, <1>2 DEF MaxKept
      <4>2. CASE ~(worker[w].current <= counter["max"])
        BY <4>2, <3>3, <1>3, <1>7 DEF WorkersAt
      <4> QED
        BY <4>1, <4>2
    <3> QED
      BY <3>1, <3>2, <3>3, <1>0 DEF MaxKept
  <2> QED
    BY <2>1, <2>2, <1>0, <1>1 DEF MaxKept
<1> QED
  BY <1>6, <1>8 DEF MetricsInv

\* The compare and swap: a swap that succeeds replaces a smaller maximum.
LEMMA SwapMaxKeeps == ASSUME MetricsInv, NEW w \in Workers, SwapMax(w) PROVE MetricsInv'
<1> DEFINE new == IF counter["max"] = worker[w].max THEN Working
                  ELSE [worker[w] EXCEPT !.at = "load"]
           n == IF counter["max"] = worker[w].max THEN worker[w].current ELSE counter["max"]
<1>0. MetricsTypes /\ WorkerTypes /\ MaxKept
  BY DEF MetricsInv, MetricsTypes
<1>2. /\ counter \in [Counters -> Nat] /\ counter["max"] \in Nat /\ highest \in Nat
      /\ counter["current"] \in Nat
      /\ worker[w] \in [at : Places, current : Nat, max : Nat, ok : BOOLEAN]
  BY <1>0 DEF MetricsTypes, WorkerTypes, Counters, Places, Inside
<1>1. /\ worker[w].at = "swap" /\ worker' = [worker EXCEPT ![w] = new]
      /\ counter' = [counter EXCEPT !["max"] = n]
      /\ UNCHANGED <<shot, highest>>
  BY <1>2 DEF SwapMax, WorkerGoes
<1>3. /\ new \in [at : Places, current : Nat, max : Nat, ok : BOOLEAN] /\ n \in Nat
      /\ counter["max"] = worker[w].max => new.at = "work" /\ n = worker[w].current
      /\ counter["max"] # worker[w].max =>
           new.at = "load" /\ new.current = worker[w].current /\ n = counter["max"]
  BY <1>2 DEF Working, IdleWorker, Places, Inside
<1> HIDE DEF new, n
<1>5. new.at \in {"load", "swap", "work"} /\ worker[w].at \in {"load", "swap"}
  BY <1>1, <1>3
<1>6. MetricsTypes' /\ CountersAgree' /\ ShotKept' /\ ShotTypes'
  BY <1>1, <1>3, <1>5, LoopKeeps
<1>7. /\ \A v \in Workers \ {w} : worker'[v] = worker[v]
      /\ worker'[w] = new
      /\ \A v \in Workers : worker[v].current \in Nat /\ worker[v].max \in Nat
      /\ counter'["max"] = n /\ counter'["current"] = counter["current"]
  BY <1>0, <1>1, <1>2 DEF WorkerTypes, Counters
<1>8. w \in WorkersAt({"load", "swap"}) /\ w \in WorkersAt({"swap"})
  BY <1>1 DEF WorkersAt
<1>9. /\ worker[w].current <= highest /\ worker[w].max < worker[w].current
      /\ worker[w].current \in Nat /\ worker[w].max \in Nat
  BY <1>0, <1>7, <1>8 DEF MaxKept
<1>10. MaxKept'
  <2>1. /\ \A v \in WorkersAt({"load", "swap"})' : worker'[v].current <= highest
        /\ \A v \in WorkersAt({"swap"})' : worker'[v].max < worker'[v].current
    BY <1>0, <1>1, <1>2, <1>3, <1>7 DEF WorkersAt, MaxKept
  <2>2. n <= highest
    BY <1>0, <1>3, <1>9 DEF MaxKept
  <2>3. \/ n = highest
        \/ \E v \in WorkersAt({"load", "swap"})' : worker'[v].current = highest
    <3>2. ASSUME NEW v \in WorkersAt({"load", "swap"}), worker[v].current = highest, v # w
          PROVE  v \in WorkersAt({"load", "swap"})' /\ worker'[v].current = highest
      BY <3>2, <1>7 DEF WorkersAt
    <3>3. CASE counter["max"] = worker[w].max
      <4>1. counter["max"] # highest
        BY <3>3, <1>2, <1>9
      <4> QED
        BY <4>1, <3>2, <3>3, <1>0, <1>3 DEF MaxKept
    <3>4. CASE counter["max"] # worker[w].max
      <4>1. w \in WorkersAt({"load", "swap"})' /\ worker'[w].current = worker[w].current
        BY <3>4, <1>3, <1>7 DEF WorkersAt
      <4> QED
        BY <4>1, <3>2, <3>4, <1>0, <1>3 DEF MaxKept
    <3> QED
      BY <3>3, <3>4
  <2> QED
    BY <2>1, <2>2, <2>3, <1>0, <1>1, <1>7 DEF MaxKept
<1> QED
  BY <1>6, <1>10 DEF MetricsInv

\* IncrementConcurrent: whoever makes the gauge the highest there was takes
\* that value into the loop.
LEMMA IncrementKeeps == ASSUME MetricsInv, NEW w \in Workers, Increment(w) PROVE MetricsInv'
<1> DEFINE n == counter["current"] + 1
           new == [IdleWorker EXCEPT !.at = "load", !.current = n]
<1>0. MetricsTypes /\ WorkerTypes /\ MaxKept /\ ShotTypes /\ ShotKept /\ CountersAgree
  BY DEF MetricsInv, MetricsTypes
<1>1. /\ counter \in [Counters -> Nat] /\ counter["current"] \in Nat /\ n \in Nat
      /\ counter["max"] \in Nat /\ highest \in Nat /\ "current" \in Counters
      /\ \A x \in Counters : counter[x] \in Nat
  BY <1>0 DEF MetricsTypes, Counters
<1>2. /\ worker[w].at = "idle" /\ worker' = [worker EXCEPT ![w] = new]
      /\ counter' = [counter EXCEPT !["current"] = n] /\ shot' = shot
      /\ highest' = IF counter'["current"] > highest THEN counter'["current"] ELSE highest
  BY DEF Increment, WorkerGoes
<1>3. /\ new \in [at : Places, current : Nat, max : Nat, ok : BOOLEAN]
      /\ new.at = "load" /\ new.current = n
  BY <1>1 DEF IdleWorker, Places, Inside
<1>n. n = counter["current"] + 1
  OBVIOUS
<1> HIDE DEF new, n
<1>4. /\ \A x \in Counters \ {"current"} : counter'[x] = counter[x]
      /\ counter'["current"] = n /\ counter'["max"] = counter["max"]
  BY <1>1, <1>2 DEF Counters
<1>5. highest' \in Nat /\ n <= highest' /\ highest <= highest'
      /\ (highest' = n \/ highest' = highest)
  BY <1>1, <1>2, <1>4
<1>6. MetricsTypes'
  BY <1>0, <1>1, <1>2, <1>3, <1>5, TypesMove
<1>7. \A P \in {Inside, {"outcome"}, {"count"}} :
        /\ Cardinality(WorkersAt(P)) \in Nat
        /\ Cardinality(WorkersAt(P)') = Cardinality(WorkersAt(P))
             + (IF new.at \in P THEN 1 ELSE 0) - (IF worker[w].at \in P THEN 1 ELSE 0)
  BY <1>0, <1>2, CountsMove
<1>8. /\ Cardinality(WorkersAt(Inside)') = Cardinality(WorkersAt(Inside)) + 1
      /\ Cardinality(WorkersAt({"outcome"})') = Cardinality(WorkersAt({"outcome"}))
      /\ Cardinality(WorkersAt({"count"})') = Cardinality(WorkersAt({"count"}))
  BY <1>2, <1>3, <1>7 DEF Inside
<1>9. CountersAgree'
  BY <1>0, <1>4, <1>8, <1>n DEF CountersAgree, Counters
<1>10. \A x \in {"succeeded", "failed", "latencySum"} : counter'[x] >= counter[x]
  BY <1>1, <1>4 DEF Counters
<1>11. ShotKept' /\ ShotTypes'
  BY <1>0, <1>2, <1>6, <1>10, ShotUntouched DEF ShotTypes
<1>12. /\ \A v \in Workers \ {w} : worker'[v] = worker[v]
       /\ worker'[w] = new
       /\ \A v \in Workers : worker[v].current \in Nat /\ worker[v].max \in Nat
  BY <1>0, <1>2 DEF WorkerTypes
<1>13. MaxKept'
  <2>1. \A v \in WorkersAt({"load", "swap"})' : worker'[v].current <= highest'
    <3> SUFFICES ASSUME NEW v \in Workers, worker'[v].at \in {"load", "swap"}
        PROVE  worker'[v].current <= highest'
      BY DEF WorkersAt
    <3>1. CASE v = w
      BY <3>1, <1>3, <1>5, <1>12
    <3>2. CASE v # w
      <4>1. worker[v].current <= highest /\ worker'[v] = worker[v] /\ worker[v].current \in Nat
        BY <3>2, <1>0, <1>12 DEF WorkersAt, MaxKept
      <4> QED
        BY <4>1, <1>1, <1>5
    <3> QED
      BY <3>1, <3>2
  <2>2. \A v \in WorkersAt({"swap"})' : worker'[v].max < worker'[v].current
    BY <1>0, <1>3, <1>12 DEF WorkersAt, MaxKept
  <2>3. counter'["max"] <= highest'
    BY <1>0, <1>1, <1>4, <1>5 DEF MaxKept
  <2>4. \/ counter'["max"] = highest'
        \/ \E v \in WorkersAt({"load", "swap"})' : worker'[v].current = highest'
    <3>1. CASE highest' = n
      BY <3>1, <1>3, <1>12 DEF WorkersAt
    <3>2. CASE highest' = highest
      <4>1. \A v \in WorkersAt({"load", "swap"}) :
              v \in WorkersAt({"load", "swap"})' /\ worker'[v] = worker[v]
        BY <1>2, <1>12 DEF WorkersAt
      <4> QED
        BY <4>1, <3>2, <1>0, <1>4 DEF MaxKept
    <3> QED
      BY <3>1, <3>2, <1>5
  <2> QED
    BY <2>1, <2>2, <2>3, <2>4, <1>4, <1>5 DEF MaxKept
<1> QED
  BY <1>6, <1>9, <1>11, <1>13 DEF MetricsInv

\* The worker comes back from the chain with its outcome.
LEMMA WorkKeeps ==
  ASSUME MetricsInv, NEW w \in Workers, NEW ok \in BOOLEAN,
         WorkerGoes(w, "work", [worker[w] EXCEPT !.at = "total", !.ok = ok]),
         UNCHANGED <<counter, shot, highest>>
  PROVE  MetricsInv'
<1> DEFINE new == [worker[w] EXCEPT !.at = "total", !.ok = ok]
<1>0. MetricsTypes /\ WorkerTypes /\ MaxKept /\ ShotTypes /\ ShotKept /\ CountersAgree
  BY DEF MetricsInv, MetricsTypes
<1>1. /\ worker[w].at = "work" /\ worker' = [worker EXCEPT ![w] = new]
      /\ counter' = counter /\ shot' = shot /\ highest' = highest
  BY DEF WorkerGoes
<1>2. /\ new.at = "total" /\ new \in [at : Places, current : Nat, max : Nat, ok : BOOLEAN]
  BY <1>0 DEF WorkerTypes, Places, Inside
<1> HIDE DEF new
<1>3. /\ "max" \in Counters /\ counter["max"] \in Nat /\ highest' \in Nat
      /\ counter["current"] \in Nat /\ counter' = [counter EXCEPT !["max"] = counter["max"]]
      /\ \A x \in Counters : counter[x] \in Nat
  BY <1>0, <1>1 DEF MetricsTypes, Counters
<1>4. MetricsTypes'
  BY <1>0, <1>1, <1>2, <1>3, TypesMove
<1>5. worker[w].at \in Inside \ {"outcome", "count"} /\ new.at \in Inside \ {"outcome", "count"}
  BY <1>1, <1>2 DEF Inside
<1>6. CountersAgree'
  BY <1>0, <1>1, <1>5, AgreeMove
<1>7. /\ worker[w].at \notin {"load", "swap"} /\ new.at \notin {"load", "swap"}
      /\ counter'["max"] = counter["max"]
      /\ counter'["current"] \in Nat /\ counter'["current"] <= counter["current"]
  BY <1>1, <1>2, <1>3
<1>8. MaxKept'
  BY <1>0, <1>1, <1>7, MaxUntouched
<1>9. ShotKept' /\ ShotTypes'
  BY <1>0, <1>1 DEF ShotKept, SoFar, ShotTypes
<1> QED
  BY <1>4, <1>6, <1>8, <1>9 DEF MetricsInv

\* A load of the snapshot.  What it will have of a later counter is at least
\* what that counter is now, and the total is ahead of the outcomes by no more
\* workers than are recording.
LEMMA ReadKeeps == ASSUME MetricsInv, Read PROVE MetricsInv'
<1>0. MetricsTypes /\ WorkerTypes /\ MaxKept /\ ShotTypes /\ ShotKept /\ CountersAgree
  BY DEF MetricsInv, MetricsTypes
<1> DEFINE c == ReadOrder[shot.i + 1]
<1>1. /\ shot.i \in 0 .. 4 /\ counter' = counter /\ worker' = worker /\ highest' = highest
      /\ shot' = [shot EXCEPT !.i = shot.i + 1, !.value[c] = counter[c],
                    !.before = IF shot.i + 1 = 1 THEN Cardinality(Recording) ELSE shot.before]
  BY <1>0 DEF Read, ShotTypes, ReadOrder
<1>2. /\ shot.i = 0 => c = "total"
      /\ shot.i = 1 => c = "succeeded"
      /\ shot.i = 2 => c = "failed"
      /\ shot.i = 3 => c = "latencyCount"
      /\ shot.i = 4 => c = "latencySum"
      /\ c \in Counters
  BY <1>1 DEF ReadOrder, Counters
<1> HIDE DEF c
<1>3. /\ Cardinality(Recording) \in Nat /\ Cardinality(WorkersAt({"outcome"})) \in Nat
      /\ Cardinality(WorkersAt({"count"})) \in Nat
      /\ Cardinality(WorkersAt({"outcome"})) <= Cardinality(Recording)
  <2>1. /\ IsFiniteSet(Recording) /\ Cardinality(Recording) \in Nat
        /\ Cardinality(WorkersAt({"outcome"})) \in Nat /\ Cardinality(WorkersAt({"count"})) \in Nat
    BY WorkersCounted DEF Recording, WorkersAt
  <2>2. WorkersAt({"outcome"}) \subseteq Recording
    BY DEF Recording, WorkersAt
  <2> QED
    BY <2>1, <2>2, FS_Subset
<1>4. /\ shot'.i = shot.i + 1 /\ shot'.value[c] = counter[c]
      /\ \A x \in Counters \ {c} : shot'.value[x] = shot.value[x]
      /\ shot'.before = IF shot.i = 0 THEN Cardinality(Recording) ELSE shot.before
      /\ shot'.before \in Nat
      /\ \A x \in Counters : counter[x] \in Nat /\ shot.value[x] \in Nat
  BY <1>0, <1>1, <1>2, <1>3 DEF ShotTypes, MetricsTypes
<1>5. ShotTypes'
  <2>1. shot.i + 1 \in 0 .. 5 /\ counter[c] \in Nat /\ Len(ReadOrder) = 5
    BY <1>1, <1>2, <1>4 DEF ReadOrder
  <2>2. (IF shot.i + 1 = 1 THEN Cardinality(Recording) ELSE shot.before) \in Nat
    BY <1>0, <1>3 DEF ShotTypes
  <2> QED
    BY <1>0, <1>1, <2>1, <2>2 DEF ShotTypes
<1>6. /\ counter["total"] <= counter["succeeded"] + counter["failed"] + Cardinality(Recording)
      /\ counter["latencyCount"] <= counter["latencySum"]
  BY <1>0, <1>3, <1>4 DEF CountersAgree, Counters
<1>7. ShotKept'
  <2>0. shot.before \in Nat
    BY <1>0 DEF ShotTypes
  <2>1. CASE shot.i = 0
    BY <2>0, <2>1, <1>0, <1>1, <1>2, <1>3, <1>4, <1>6 DEF ShotKept, SoFar, Counters
  <2>2. CASE shot.i = 1
    BY <2>0, <2>2, <1>0, <1>1, <1>2, <1>3, <1>4, <1>6 DEF ShotKept, SoFar, Counters
  <2>3. CASE shot.i = 2
    BY <2>0, <2>3, <1>0, <1>1, <1>2, <1>3, <1>4, <1>6 DEF ShotKept, SoFar, Counters
  <2>4. CASE shot.i = 3
    BY <2>0, <2>4, <1>0, <1>1, <1>2, <1>3, <1>4, <1>6 DEF ShotKept, SoFar, Counters
  <2>5. CASE shot.i = 4
    BY <2>0, <2>5, <1>0, <1>1, <1>2, <1>3, <1>4, <1>6 DEF ShotKept, SoFar, Counters
  <2> QED
    BY <2>1, <2>2, <2>3, <2>4, <2>5, <1>1
<1>8. MetricsTypes' /\ CountersAgree' /\ MaxKept'
  BY <1>0, <1>1 DEF MetricsTypes, WorkerTypes, CountersAgree, MaxKept, WorkersAt
<1> QED
  BY <1>5, <1>7, <1>8 DEF MetricsInv

\* A snapshot that is written out, or given up.
LEMMA RenderKeeps ==
  ASSUME MetricsInv, shot' = Unread, UNCHANGED <<counter, worker, highest>> PROVE MetricsInv'
<1>1. ShotTypes' /\ ShotKept'
  BY DEF Unread, ShotTypes, ShotKept, ReadOrder
<1>2. MetricsTypes' /\ CountersAgree' /\ MaxKept'
  BY DEF MetricsInv, MetricsTypes, WorkerTypes, CountersAgree, MaxKept, WorkersAt
<1> QED
  BY <1>1, <1>2 DEF MetricsInv

\* What the invariant is for.
LEMMA MetricsPromises == MetricsInv => MaxExact /\ SnapshotConsistent
<1> SUFFICES ASSUME MetricsInv PROVE MaxExact /\ SnapshotConsistent
  OBVIOUS
<1>1. MaxExact
  BY DEF MetricsInv, MaxKept, MaxExact, WorkersAt
<1>2. ASSUME shot.i = Len(ReadOrder)
      PROVE  /\ shot.value["succeeded"] + shot.value["failed"] + shot.before >= shot.value["total"]
             /\ shot.value["latencySum"] >= shot.value["latencyCount"]
  <2>1. /\ shot.i = 5 /\ shot.before \in Nat /\ \A c \in Counters : shot.value[c] \in Nat
    BY <1>2 DEF MetricsInv, ShotTypes, ReadOrder
  <2> QED
    BY <2>1 DEF MetricsInv, ShotKept, SoFar, Counters
<1> QED
  BY <1>1, <1>2 DEF SnapshotConsistent

-----------------------------------------------------------------------------
(* The life of the process.                                                *)

\* IInv without the collector.
AppTypes ==
  /\ main \in [at : {"config", "audit", "manager", "warm", "server", "run", "drain",
                     "closeManager", "closeAudit", "closed", "exited"},
               code : {-1, 0, 1}]
  /\ Up \/ main.code = 0 => Validate(config)
  /\ http \in {"unset", "set", "listening", "closed"}
  /\ failed \in BOOLEAN /\ signal \in BOOLEAN /\ leftover \in BOOLEAN
  /\ file \in {"none", "open", "closed"}
  /\ conn \in [Workers -> {"idle", "open", "closed"}]
  /\ indexing \in [Workers -> {"none", "held", "got"}]
  /\ lost \subseteq Workers \X {"tool", "http"} \X BOOLEAN
  /\ excuse \subseteq {"early", "timeout"}

AppInv ==
  /\ AppTypes
  /\ ConfigKept /\ CodeKept /\ DrainKept /\ FileKept /\ WorkersKept
  /\ AuditComplete /\ CleanExit

LEMMA Parts == IInv <=> MetricsInv /\ AppInv
BY DEF IInv, AppInv, AppTypes, TypeOK, MetricsInv

LEMMA Whole == ASSUME MetricsInv', AppInv' PROVE IInv'
BY DEF IInv, AppInv, AppTypes, TypeOK, MetricsInv

LEMMA InitInv == Init => IInv
<1> SUFFICES ASSUME Init PROVE IInv
  OBVIOUS
<1>1. MetricsInv
  BY MetricsInitInv DEF Init
<1>2. AppTypes
  <2>1. main = [at |-> "config", code |-> -1]
    BY DEF Init
  <2>2. main \in [at : {"config", "audit", "manager", "warm", "server", "run", "drain",
                     "closeManager", "closeAudit", "closed", "exited"},
               code : {-1, 0, 1}]
    BY <2>1
  <2>3. ~(Up \/ main.code = 0)
    BY <2>1 DEF Up
  <2>4. conn \in [Workers -> {"idle", "open", "closed"}]
    BY DEF Init
  <2>6. indexing \in [Workers -> {"none", "held", "got"}]
    BY DEF Init
  <2>5. /\ http \in {"unset", "set", "listening", "closed"}
        /\ failed \in BOOLEAN /\ signal \in BOOLEAN /\ leftover \in BOOLEAN
        /\ file \in {"none", "open", "closed"}
        /\ lost \subseteq Workers \X {"tool", "http"} \X BOOLEAN
        /\ excuse \subseteq {"early", "timeout"}
    BY DEF Init
  <2> QED
    BY <2>2, <2>3, <2>4, <2>5, <2>6 DEF AppTypes
<1>3. ConfigKept /\ CodeKept /\ DrainKept /\ FileKept /\ AuditComplete /\ CleanExit
  BY DEF Init, ConfigKept, CodeKept, DrainKept, FileKept, AuditComplete, CleanExit
<1>4. WorkersKept
  BY DEF Init, MetricsInit, IdleWorker, WorkersKept
<1> QED
  BY <1>1, <1>2, <1>3, <1>4, Parts DEF AppInv

\* The steps of the main goroutine, of the server's and of the signal, but
\* for the one that takes the signal: the collector does not move.
LEMMA MainKeeps ==
  ASSUME IInv, UNCHANGED metricsVars,
         \/ Initialize \/ Publish \/ Listen \/ ServerFails \/ Signal
         \/ TakeError \/ Drain \/ DrainTimeout \/ CloseManager \/ CloseAudit \/ Exit
  PROVE  AppInv'
<1>0. AppInv /\ worker' = worker
  BY Parts DEF metricsVars
<1>1. CASE LoadConfig
  BY <1>0, <1>1 DEF LoadConfig, MainGoes, Exits, AppInv, AppTypes, ConfigKept, CodeKept, DrainKept, FileKept, WorkersKept,
         AuditComplete, CleanExit, Up
<1>2. CASE InitAudit
  <2>a. /\ MainGoes("audit", "manager") \/ Exits("audit", 1)
        /\ file' \in {"none", "open", file}
        /\ UNCHANGED <<config, http, failed, signal, indexing, leftover, conn, lost, excuse>>
    BY <1>2 DEF InitAudit
  <2>1. /\ main.at = "audit" /\ main'.at \in {"manager", "exited"}
        /\ main'.at = "exited" => main'.code = 1
        /\ main'.at = "manager" => main'.code = main.code
        /\ UNCHANGED <<config, http, failed, signal, indexing, leftover, conn, lost, excuse>>
        /\ file' # "closed" \/ file' = file
    BY <1>0, <2>a DEF MainGoes, Exits, AppInv, AppTypes
  <2>2. AppTypes'
    BY <1>0, <2>a DEF MainGoes, Exits, AppInv, AppTypes, Up, CodeKept, ConfigKept
  <2>3. ConfigKept' /\ CodeKept' /\ DrainKept' /\ FileKept' /\ WorkersKept' /\ AuditComplete'
    BY <1>0, <2>1 DEF AppInv, AppTypes, ConfigKept, CodeKept, DrainKept, FileKept, WorkersKept, AuditComplete
  <2>4. CleanExit'
    BY <1>0, <2>1 DEF AppInv, CodeKept, CleanExit
  <2> QED
    BY <2>2, <2>3, <2>4 DEF AppInv
<1>3. CASE InitManager
  BY <1>0, <1>3 DEF InitManager, MainGoes, Exits, AppInv, AppTypes, ConfigKept, CodeKept, DrainKept, FileKept, WorkersKept,
         AuditComplete, CleanExit, Up
<1>4. CASE WarmUp
  BY <1>0, <1>4 DEF WarmUp, MainGoes, AppInv, AppTypes, ConfigKept, CodeKept, DrainKept, FileKept, WorkersKept,
         AuditComplete, CleanExit, Up
<1>5. CASE InitServer
  BY <1>0, <1>5 DEF InitServer, MainGoes, AppInv, AppTypes, ConfigKept, CodeKept, DrainKept, FileKept, WorkersKept,
         AuditComplete, CleanExit, Up
<1>6. CASE Publish
  BY <1>0, <1>6 DEF Publish, ServerStep, AppInv, AppTypes, ConfigKept, CodeKept, DrainKept, FileKept, WorkersKept,
         AuditComplete, CleanExit, Up
<1>7. CASE Listen
  BY <1>0, <1>7 DEF Listen, ServerStep, AppInv, AppTypes, ConfigKept, CodeKept, DrainKept, FileKept, WorkersKept,
         AuditComplete, CleanExit, Up
<1>8. CASE ServerFails
  BY <1>0, <1>8 DEF ServerFails, ServerStep, AppInv, AppTypes, ConfigKept, CodeKept, DrainKept, FileKept, WorkersKept,
         AuditComplete, CleanExit, Up
<1>9. CASE Signal
  BY <1>0, <1>9 DEF Signal, AppInv, AppTypes, ConfigKept, CodeKept, DrainKept, FileKept, WorkersKept,
         AuditComplete, CleanExit, Up
<1>10. CASE TakeError
  BY <1>0, <1>10 DEF TakeError, Exits, AppInv, AppTypes, ConfigKept, CodeKept, DrainKept, FileKept, WorkersKept,
         AuditComplete, CleanExit, Up
<1>11. CASE Drain
  BY <1>0, <1>11 DEF Drain, MainGoes, AppInv, AppTypes, ConfigKept, CodeKept, DrainKept, FileKept, WorkersKept,
         AuditComplete, CleanExit, Up
<1>12. CASE DrainTimeout
  BY <1>0, <1>12 DEF DrainTimeout, AppInv, AppTypes, ConfigKept, CodeKept, DrainKept, FileKept, WorkersKept,
         AuditComplete, CleanExit, Up
<1>13. CASE CloseManager
  BY <1>0, <1>13 DEF CloseManager, MainGoes, AppInv, AppTypes, ConfigKept, CodeKept, DrainKept, FileKept, WorkersKept,
         AuditComplete, CleanExit, Up
<1>14. CASE CloseAudit
  BY <1>0, <1>14 DEF CloseAudit, MainGoes, AppInv, AppTypes, ConfigKept, CodeKept, DrainKept, FileKept, WorkersKept,
         AuditComplete, CleanExit, Up
<1>15. CASE Exit
  BY <1>0, <1>15 DEF Exit, Exits, AppInv, AppTypes, ConfigKept, CodeKept, DrainKept, FileKept, WorkersKept,
         AuditComplete, CleanExit, Up
<1> QED
  BY <1>1, <1>2, <1>3, <1>4, <1>5, <1>6, <1>7, <1>8, <1>9, <1>10, <1>11, <1>12, <1>13, <1>14, <1>15 DEF Initialize

\* While the process is up there is no exit code 0.
LEMMA StillUp ==
  ASSUME AppInv, Up, UNCHANGED <<main, config>> PROVE CleanExit' /\ ConfigKept' /\ Up'
BY DEF AppInv, AppTypes, CodeKept, Up, CleanExit, ConfigKept

\* A worker with a connection goes on.
LEMMA WorkerGoesOn ==
  ASSUME MetricsTypes, WorkersKept, NEW w \in Workers, NEW new,
         worker' = [worker EXCEPT ![w] = new], new.at # "idle", conn[w] # "idle",
         UNCHANGED conn, leftover' => leftover \/ worker[w].at # "idle",
         \A v \in Workers : indexing'[v] # "none" => v # w /\ indexing[v] # "none"
  PROVE  WorkersKept'
BY DEF MetricsTypes, WorkerTypes, WorkersKept

\* The steps of a worker that only move the collector.
LEMMA CollectorKeeps ==
  ASSUME IInv, NEW w \in Workers, NEW new, worker' = [worker EXCEPT ![w] = new],
         worker[w].at # "work", new.at # "idle", conn[w] # "idle", UNCHANGED appVars, Up
  PROVE  AppInv'
<1>0. AppInv /\ MetricsTypes
  BY Parts DEF MetricsInv
<1>1. WorkersKept'
  <2>1. \A v \in Workers : indexing'[v] # "none" => v # w /\ indexing[v] # "none"
    BY <1>0 DEF AppInv, WorkersKept, appVars
  <2> QED
    BY <1>0, <2>1, WorkerGoesOn DEF AppInv, appVars
<1>2. CleanExit' /\ ConfigKept'
  BY <1>0, StillUp DEF appVars
<1> QED
  BY <1>0, <1>1, <1>2 DEF AppInv, AppTypes, appVars, CodeKept, DrainKept, FileKept, AuditComplete, Up

LEMMA EnterKeeps == ASSUME IInv, NEW w \in Workers, Enter(w) PROVE IInv'
<1>0. MetricsInv'
  BY IncrementKeeps, Parts DEF Enter
<1> DEFINE new == [IdleWorker EXCEPT !.at = "load", !.current = counter["current"] + 1]
<1>1. /\ worker' = [worker EXCEPT ![w] = new] /\ new.at # "idle"
      /\ worker[w].at # "work" /\ conn[w] # "idle" /\ UNCHANGED appVars /\ Up
  BY DEF Enter, Increment, WorkerGoes, IdleWorker
<1> HIDE DEF new
<1>2. AppInv'
  BY <1>1, CollectorKeeps
<1> QED
  BY <1>0, <1>2, Whole

\* What every step of MetricsStep does to its worker.
LEMMA StepMoves ==
  ASSUME MetricsTypes, NEW w \in Workers, MetricsStep(w)
  PROVE  /\ worker[w].at # "idle" /\ worker[w].at # "work"
         /\ \E new : worker' = [worker EXCEPT ![w] = new] /\ new.at # "idle"
<1>0. worker[w] \in [at : Places, current : Nat, max : Nat, ok : BOOLEAN]
  BY DEF MetricsTypes, WorkerTypes, Places, Inside
<1>1. \A at \in Places : [worker[w] EXCEPT !.at = at].at = at /\ [IdleWorker EXCEPT !.at = at].at = at
  BY Moved DEF MetricsTypes
<1>2. CASE LoadMax(w)
  <2>1. Working.at # "idle" /\ [worker[w] EXCEPT !.at = "swap", !.max = counter["max"]].at # "idle"
    BY <1>0 DEF Working, IdleWorker
  <2> QED
    BY <2>1, <1>2 DEF LoadMax, WorkerGoes
<1>3. CASE SwapMax(w)
  BY <1>0, <1>3 DEF SwapMax, WorkerGoes, Working, IdleWorker
<1>4. CASE CountTotal(w)
  BY <1>1, <1>4 DEF CountTotal, Adds, WorkerGoes, Places, Inside
<1>5. CASE CountOutcome(w)
  BY <1>1, <1>5 DEF CountOutcome, WorkerGoes, Places, Inside
<1>6. CASE AddLatency(w)
  BY <1>1, <1>6 DEF AddLatency, Adds, WorkerGoes, Places, Inside
<1>7. CASE CountLatency(w)
  BY <1>1, <1>7 DEF CountLatency, Adds, WorkerGoes, Places, Inside
<1>8. CASE Decrement(w)
  BY <1>1, <1>8 DEF Decrement, WorkerGoes, Places, Inside
<1> QED
  BY <1>2, <1>3, <1>4, <1>5, <1>6, <1>7, <1>8 DEF MetricsStep

LEMMA RecordStepKeeps == ASSUME IInv, NEW w \in Workers, Record(w) PROVE IInv'
<1>0. MetricsInv /\ MetricsTypes /\ AppInv
  BY Parts DEF MetricsInv
<1>1. MetricsStep(w) /\ Up /\ UNCHANGED appVars
  BY DEF Record
<1>2. MetricsInv'
  BY <1>0, <1>1, LoadMaxKeeps, SwapMaxKeeps, RecordKeeps, DecrementKeeps DEF MetricsStep
<1>3. PICK new : worker' = [worker EXCEPT ![w] = new] /\ new.at # "idle"
  BY <1>0, <1>1, StepMoves
<1>4. conn[w] # "idle" /\ worker[w].at # "work"
  BY <1>0, <1>1, StepMoves DEF AppInv, WorkersKept
<1>5. AppInv'
  BY <1>1, <1>3, <1>4, CollectorKeeps
<1> QED
  BY <1>2, <1>5, Whole

\* A record that is not written is for a file that is closed, or below the level.
LEMMA Unwritten ==
  ASSUME AppInv, Up, NEW ok \in BOOLEAN, ~Written(config.logLevel, file, ok)
  PROVE  file = "closed" \/ (ok /\ config.logLevel \in {"warn", "error"})
<1>1. Validate(config)
  BY DEF AppInv, AppTypes
<1>2. config.logLevel \in {"debug", "info", "warn", "error"}
  BY <1>1 DEF Validate
<1> QED
  BY <1>2 DEF Written, LevelsOfSuccess

\* A tool asks for an indexer, and gets one: nothing else moves but the loop
\* that may be left.
LEMMA IndexKeeps == ASSUME IInv, NEW w \in Workers, AskIndexer(w) \/ GetIndexer(w) PROVE IInv'
<1>0. MetricsInv /\ AppInv
  BY Parts
<1>1. UNCHANGED metricsVars
  BY DEF AskIndexer, GetIndexer
<1>2. MetricsInv' /\ worker' = worker
  BY <1>0, <1>1, MetricsStutter DEF metricsVars
<1>3. /\ Up /\ UNCHANGED <<main, config, http, failed, signal, file, conn, lost, excuse>>
      /\ worker[w].at = "work"
      /\ leftover' \in {leftover, TRUE}
      /\ indexing' = [indexing EXCEPT ![w] = "held"] \/ indexing' = [indexing EXCEPT ![w] = "got"]
  BY <1>0 DEF AskIndexer, GetIndexer, AppInv, WorkersKept
<1>4. CleanExit' /\ ConfigKept' /\ Up'
  <2>1. CleanExit' /\ Up'
    BY <1>0, <1>3, StillUp
  <2> QED
    BY <2>1, <1>0, <1>3 DEF AppInv, ConfigKept
<1>5. AppTypes'
  <2>1. indexing' \in [Workers -> {"none", "held", "got"}] /\ leftover' \in BOOLEAN
    BY <1>0, <1>3 DEF AppInv, AppTypes
  <2> QED
    BY <2>1, <1>0, <1>3 DEF AppInv, AppTypes, Up
<1>6. WorkersKept'
  BY <1>0, <1>2, <1>3 DEF AppInv, AppTypes, WorkersKept
<1>7. AuditComplete' /\ CodeKept' /\ DrainKept' /\ FileKept'
  BY <1>0, <1>3 DEF AppInv, AuditComplete, CodeKept, DrainKept, FileKept
<1> QED
  BY <1>2, <1>4, <1>5, <1>6, <1>7, Whole DEF AppInv

\* The record of the tool goes to a closed file only when the request was
\* answered by its deadline, or the drain was cut short.
LEMMA RunToolKeeps == ASSUME IInv, NEW w \in Workers, RunTool(w) PROVE IInv'
<1>0. MetricsInv /\ MetricsTypes /\ AppInv
  BY Parts DEF MetricsInv
<1>1. PICK ok \in BOOLEAN :
        /\ WorkerGoes(w, "work", [worker[w] EXCEPT !.at = "total", !.ok = ok])
        /\ Logged(w, "tool", ok)
  BY DEF RunTool
<1>2. MetricsInv'
  BY <1>0, <1>1, WorkKeeps DEF RunTool
<1> DEFINE new == [worker[w] EXCEPT !.at = "total", !.ok = ok]
<1>3. new.at # "idle"
  BY <1>0 DEF MetricsTypes, WorkerTypes
<1>4. worker' = [worker EXCEPT ![w] = new] /\ worker[w].at = "work"
  BY <1>1 DEF WorkerGoes
<1> HIDE DEF new
<1>5. /\ Up /\ indexing' = [indexing EXCEPT ![w] = "none"]
      /\ lost' = IF Written(config.logLevel, file, ok) THEN lost ELSE lost \cup {<<w, "tool", ok>>}
      /\ UNCHANGED <<main, config, http, failed, signal, file, leftover, conn, excuse>>
  BY <1>1 DEF RunTool, Logged
<1>6. conn[w] # "idle"
  BY <1>0, <1>4 DEF AppInv, WorkersKept
<1>7. WorkersKept'
  <2>1. \A v \in Workers : indexing'[v] # "none" => v # w /\ indexing[v] # "none"
    BY <1>0, <1>5 DEF AppInv, AppTypes
  <2> QED
    BY <2>1, <1>0, <1>3, <1>4, <1>5, <1>6, WorkerGoesOn DEF AppInv
<1>8. CleanExit' /\ ConfigKept' /\ Up'
  BY <1>0, <1>5, StillUp
<1>9. AuditComplete'
  <2>1. file = "closed" => excuse # {} \/ conn[w] = "closed"
    BY <1>0, <1>5, <1>6 DEF AppInv, AppTypes, FileKept, DrainKept, Up
  <2>2. ~Written(config.logLevel, file, ok) =>
          file = "closed" \/ (ok /\ config.logLevel \in {"warn", "error"})
    BY <1>0, <1>5, Unwritten
  <2> QED
    BY <2>1, <2>2, <1>0, <1>5 DEF AppInv, AuditComplete
<1>10. AppTypes'
  <2>1. lost' \subseteq Workers \X {"tool", "http"} \X BOOLEAN
    BY <1>0, <1>5 DEF AppInv, AppTypes
  <2>2. indexing' \in [Workers -> {"none", "held", "got"}]
    BY <1>0, <1>5 DEF AppInv, AppTypes
  <2> QED
    BY <2>1, <2>2, <1>0, <1>5 DEF AppInv, AppTypes, Up
<1>11. CodeKept' /\ DrainKept' /\ FileKept'
  BY <1>0, <1>5 DEF AppInv, CodeKept, DrainKept, FileKept
<1> QED
  BY <1>2, <1>7, <1>8, <1>9, <1>10, <1>11, Whole DEF AppInv

\* The record of the HTTP request goes to a closed file only when the drain
\* was cut short: a drain that succeeds leaves no open connection.
LEMMA LeaveKeeps ==
  ASSUME IInv, NEW w \in Workers, NEW ok \in BOOLEAN, Leave(w, ok) PROVE IInv'
<1>0. MetricsInv /\ AppInv
  BY Parts
<1>1. MetricsInv'
  BY <1>0, MetricsStutter DEF Leave
<1>2. /\ Up /\ conn[w] = "open" /\ conn' = [conn EXCEPT ![w] = "closed"]
      /\ lost' = IF Written(config.logLevel, file, ok) THEN lost ELSE lost \cup {<<w, "http", ok>>}
      /\ UNCHANGED <<main, config, http, failed, signal, file, indexing, leftover, excuse>>
      /\ worker' = worker
  BY DEF Leave, Logged, metricsVars
<1>3. CleanExit' /\ ConfigKept' /\ Up'
  BY <1>0, <1>2, StillUp
<1>4. AuditComplete'
  <2>1. file = "closed" => excuse # {}
    BY <1>0, <1>2 DEF AppInv, AppTypes, FileKept, DrainKept, Up
  <2>2. \A v : conn[v] = "closed" /\ v \in Workers => conn'[v] = "closed"
    BY <1>0, <1>2 DEF AppInv, AppTypes
  <2>3. \A r \in lost : r[1] \in Workers
    BY <1>0 DEF AppInv, AppTypes
  <2>4. ~Written(config.logLevel, file, ok) =>
          file = "closed" \/ (ok /\ config.logLevel \in {"warn", "error"})
    BY <1>0, <1>2, Unwritten
  <2> QED
    BY <2>1, <2>2, <2>3, <2>4, <1>0, <1>2 DEF AppInv, AuditComplete
<1>5. AppTypes'
  <2>1. lost' \subseteq Workers \X {"tool", "http"} \X BOOLEAN
    BY <1>0, <1>2 DEF AppInv, AppTypes
  <2> QED
    BY <2>1, <1>0, <1>2 DEF AppInv, AppTypes, Up
<1>6. DrainKept' /\ WorkersKept' /\ CodeKept' /\ FileKept'
  BY <1>0, <1>2 DEF AppInv, AppTypes, DrainKept, WorkersKept, CodeKept, FileKept
<1> QED
  BY <1>1, <1>3, <1>4, <1>5, <1>6, Whole DEF AppInv

LEMMA AcceptKeeps == ASSUME IInv, NEW w \in Workers, Accept(w) PROVE IInv'
<1>0. MetricsInv /\ AppInv
  BY Parts
<1>1. MetricsInv'
  BY <1>0, MetricsStutter DEF Accept
<1>2. /\ Up /\ http = "listening" /\ conn[w] = "idle" /\ conn' = [conn EXCEPT ![w] = "open"]
      /\ UNCHANGED <<main, config, http, failed, signal, file, indexing, leftover, lost, excuse>>
      /\ worker' = worker
  BY DEF Accept, metricsVars
<1>3. CleanExit' /\ ConfigKept' /\ Up'
  BY <1>0, <1>2, StillUp
<1>4. AuditComplete'
  <2>1. \A v : conn[v] = "closed" /\ v \in Workers => conn'[v] = "closed"
    BY <1>0, <1>2 DEF AppInv, AppTypes
  <2>2. \A r \in lost : r[1] \in Workers
    BY <1>0 DEF AppInv, AppTypes
  <2> QED
    BY <2>1, <2>2, <1>0, <1>2 DEF AppInv, AuditComplete
<1>5. AppTypes'
  BY <1>0, <1>2 DEF AppInv, AppTypes, Up
<1>6. DrainKept' /\ WorkersKept' /\ CodeKept' /\ FileKept'
  BY <1>0, <1>2 DEF AppInv, AppTypes, DrainKept, WorkersKept, CodeKept, FileKept
<1> QED
  BY <1>1, <1>3, <1>4, <1>5, <1>6, Whole DEF AppInv

LEMMA ScrapeKeeps == ASSUME IInv, Scrape PROVE IInv'
<1>1. MetricsInv'
  BY Parts, ReadKeeps, RenderKeeps DEF Scrape, Render
<1>2. worker' = worker /\ UNCHANGED appVars
  BY DEF Scrape, Read, Render
<1>3. AppInv'
  BY <1>2, Parts DEF AppInv, AppTypes, appVars, CodeKept, DrainKept, FileKept, AuditComplete, Up,
                     WorkersKept, CleanExit, ConfigKept
<1> QED
  BY <1>1, <1>3, Whole

\* Shutdown: the listener is closed before the drain begins.
LEMMA TakeSignalKeeps == ASSUME IInv, TakeSignal PROVE IInv'
<1>0. MetricsInv /\ AppInv
  BY Parts
<1>1. MetricsInv'
  BY <1>0, RenderKeeps DEF TakeSignal
<1>2. AppInv'
  BY <1>0 DEF TakeSignal, MainGoes, AppInv, AppTypes, CodeKept, DrainKept, FileKept, AuditComplete, Up,
              WorkersKept, CleanExit, ConfigKept
<1> QED
  BY <1>1, <1>2, Whole

LEMMA NextInv == ASSUME IInv, [Next]_vars PROVE IInv'
<1>0. MetricsInv /\ AppInv
  BY Parts
<1>1. CASE \/ Initialize \/ Publish \/ Listen \/ ServerFails \/ Signal
           \/ TakeError \/ Drain \/ DrainTimeout \/ CloseManager \/ CloseAudit \/ Exit
  <2>1. UNCHANGED metricsVars
    BY <1>1 DEF Initialize, LoadConfig, InitAudit, InitManager, WarmUp, InitServer, Publish, Listen,
      ServerFails, ServerStep, Signal, TakeError, Drain, DrainTimeout, CloseManager, CloseAudit, Exit
  <2> QED
    BY <2>1, <1>0, <1>1, MainKeeps, MetricsStutter, Whole
<1>2. ASSUME NEW w \in Workers, \/ Accept(w) \/ Enter(w)
                                \/ AskIndexer(w) \/ GetIndexer(w) \/ RunTool(w)
                                \/ Record(w) \/ Finish(w) \/ Deadline(w)
      PROVE  IInv'
  BY <1>2, AcceptKeeps, EnterKeeps, IndexKeeps, RunToolKeeps, RecordStepKeeps, LeaveKeeps DEF Finish, Deadline
<1>3. CASE TakeSignal
  BY <1>3, TakeSignalKeeps
<1>4. CASE Scrape
  BY <1>4, ScrapeKeeps
<1>5. CASE UNCHANGED vars
  <2>1. UNCHANGED metricsVars /\ UNCHANGED appVars /\ worker' = worker
    BY <1>5 DEF vars, metricsVars
  <2>2. AppInv'
    BY <1>0, <2>1 DEF AppInv, AppTypes, appVars, CodeKept, DrainKept, FileKept, AuditComplete, Up,
                      WorkersKept, CleanExit, ConfigKept
  <2> QED
    BY <1>0, <2>1, <2>2, MetricsStutter, Whole
<1> QED
  BY <1>1, <1>2, <1>3, <1>4, <1>5 DEF Next, Shutdown

LEMMA Invariance == Spec => []IInv
<1>1. Init => IInv
  BY InitInv
<1>2. IInv /\ [Next]_vars => IInv'
  BY NextInv
<1> QED
  BY <1>1, <1>2, PTL DEF Spec

-----------------------------------------------------------------------------
(* The theorems.                                                           *)

\* The variables have their types, and a process that got past its
\* configuration has a valid one.
THEOREM AppTypesHold == Spec => []TypeOK
<1>1. IInv => TypeOK
  BY DEF IInv
<1> QED
  BY <1>1, Invariance, PTL

\* The compare-and-swap loop of IncrementConcurrent (metrics.go:143) loses no
\* maximum, for any number of goroutines in it.
THEOREM MaximumIsKept == Spec => []MaxExact
<1>1. IInv => MaxExact
  BY MetricsPromises, Parts
<1> QED
  BY <1>1, Invariance, PTL

\* GetSnapshot (metrics.go:179) reads the counters in an order in which the
\* outcomes are never short by more than the requests being recorded, and the
\* average latency never comes from more requests than latencies.
THEOREM SnapshotsAddUp == Spec => []SnapshotConsistent
<1>1. IInv => SnapshotConsistent
  BY MetricsPromises, Parts
<1> QED
  BY <1>1, Invariance, PTL

\* Shutdown (main.go:230) closes the audit log after the server has drained:
\* a record is lost only by a drain cut short, an early signal, a tool whose
\* connection was left before its end, or a level above that of a success.
THEOREM AuditIsComplete == Spec => []AuditComplete
<1>1. IInv => AuditComplete
  BY DEF IInv
<1> QED
  BY <1>1, Invariance, PTL

\* Exit code 0 (main.go:243) says that every accepted request was answered
\* and no watch loop is left, but for an early signal or an abandoned tool.
THEOREM ExitIsClean == Spec => []CleanExit
<1>1. IInv => CleanExit
  BY DEF IInv
<1> QED
  BY <1>1, Invariance, PTL
=============================================================================
