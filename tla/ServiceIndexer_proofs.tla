------------------------- MODULE ServiceIndexer_proofs -------------------------
(***************************************************************************)
(* The NodePort index agrees with the service cache, proved for any        *)
(* Services, NodePorts and specs and for any number of changes and faults. *)
(* IndexMatchesCache is inductive once the types are known: what the proof *)
(* needs is that a removal takes out exactly what the cached Service had   *)
(* put in.                                                                 *)
(***************************************************************************)
EXTENDS ServiceIndexer, FiniteSetTheorems, TLAPS

\* A Service lists a NodePort some number of times.
LEMMA ListsIsNat ==
  ASSUME NEW spec \in Specs \cup {Absent}, NEW p \in NodePorts
  PROVE  Lists(spec, p) \in Nat
BY IndexerAssumption DEF IndexerAssumption, Lists

\* The part of TypeOK the index depends on.
Typed ==
  /\ cluster \in [Services -> Specs \cup {Absent}]
  /\ stream \in Seq(Event)
  /\ serviceCache \in [Services -> Specs \cup {Absent}]
  /\ nodePortIndex \in [NodePorts -> [Services -> Nat]]

\* Counts stay counts when keys are added and removed.
LEMMA CountsStayNat ==
  ASSUME NEW keys \in [NodePorts -> [Services -> Nat]],
         NEW s \in Services, NEW spec \in Specs \cup {Absent}
  PROVE  /\ Appended(keys, s, spec) \in [NodePorts -> [Services -> Nat]]
         /\ Removed(keys, s, spec) \in [NodePorts -> [Services -> Nat]]
<1>1. \A p \in NodePorts : Lists(spec, p) \in Nat
  BY ListsIsNat
<1>2. \A p \in NodePorts : [keys[p] EXCEPT ![s] = @ + Lists(spec, p)] \in [Services -> Nat]
  BY <1>1
<1>3. \A p \in NodePorts :
        [keys[p] EXCEPT ![s] = IF @ > Lists(spec, p) THEN @ - Lists(spec, p) ELSE 0]
          \in [Services -> Nat]
  BY <1>1
<1> QED
  BY <1>2, <1>3 DEF Appended, Removed

\* What Removed and Appended do to one count.
LEMMA CountAfter ==
  ASSUME NEW keys \in [NodePorts -> [Services -> Nat]],
         NEW s \in Services, NEW spec \in Specs \cup {Absent},
         NEW p \in NodePorts, NEW q \in Services
  PROVE  /\ Appended(keys, s, spec)[p][q] =
              IF q = s THEN keys[p][q] + Lists(spec, p) ELSE keys[p][q]
         /\ q # s => Removed(keys, s, spec)[p][q] = keys[p][q]
         /\ keys[p][s] = Lists(spec, p) => Removed(keys, s, spec)[p][s] = 0
<1>1. Lists(spec, p) \in Nat /\ keys[p] \in [Services -> Nat]
  BY ListsIsNat
<1> QED
  BY <1>1 DEF Appended, Removed

\* Sequences of events: the empty one, and one more event.
LEMMA SequenceOfEvents ==
  /\ <<>> \in Seq(Event)
  /\ \A q \in Seq(Event), e \in Event : Append(q, e) \in Seq(Event)
OBVIOUS

\* What a delivery takes from the stream, and what it leaves.
LEMMA HeadTail ==
  ASSUME stream \in Seq(Event), stream # <<>>
  PROVE  Head(stream) \in Event /\ Tail(stream) \in Seq(Event)
OBVIOUS

\* The replay of the existing Services is a sequence of events.
LEMMA ReplayTyped ==
  ASSUME Typed, OpenWatch PROVE stream' \in Seq(Event)
<1>1. PICK q \in Orders(Existing) :
        stream' = [i \in DOMAIN q |->
                     [type |-> "ADDED", svc |-> q[i], spec |-> cluster[q[i]]]]
  BY DEF OpenWatch
<1>2. IsFiniteSet(Existing)
  BY IndexerAssumption, FS_Subset DEF IndexerAssumption, Existing
<1>3. Cardinality(Existing) \in Nat
  BY <1>2, FS_CardinalityType
<1>4. DOMAIN q = 1..Cardinality(Existing) /\ \A i \in DOMAIN q : q[i] \in Existing
  BY DEF Orders
<1>5. \A i \in DOMAIN q :
        [type |-> "ADDED", svc |-> q[i], spec |-> cluster[q[i]]] \in Event
  BY <1>4 DEF Existing, Typed, Event
<1>6. stream' \in [1..Cardinality(Existing) -> Event]
  BY <1>1, <1>4, <1>5
<1> QED
  BY <1>3, <1>6

\* Every step keeps the types.
LEMMA TypedStep == ASSUME Typed, [Next]_vars PROVE Typed'
<1> USE IndexerAssumption DEF IndexerAssumption
<1>1. ASSUME NEW s \in Services, NEW new \in Specs \cup {Absent}, Change(s, new)
      PROVE  Typed'
  <2>1. EventOf(s, new) \in Event
    <3>1. cluster[s] \in Specs \cup {Absent} /\ cluster[s] # new
      BY <1>1 DEF Typed, Change
    <3>2. CASE new = Absent
      BY <3>1, <3>2 DEF EventOf, Event
    <3>3. CASE new # Absent /\ cluster[s] = Absent
      BY <3>3 DEF EventOf, Event
    <3>4. CASE new # Absent /\ cluster[s] # Absent
      BY <3>4 DEF EventOf, Event
    <3> QED
      BY <3>2, <3>3, <3>4
  <2>2. stream' \in Seq(Event)
    <3>1. stream' = stream \/ stream' = Append(stream, EventOf(s, new))
      BY <1>1 DEF Change
    <3>2. stream \in Seq(Event)
      BY DEF Typed
    <3> QED
      BY <2>1, <3>1, <3>2, SequenceOfEvents
  <2> QED
    BY <1>1, <2>2 DEF Change, Typed, index
<1>2. CASE Rebuild /\ UNCHANGED <<cluster, stream>>
  <2>1. \A p \in NodePorts, s \in Services : Lists(cluster[s], p) \in Nat
    BY ListsIsNat DEF Typed
  <2> QED
    BY <1>2, <2>1 DEF Rebuild, Typed
<1>3. CASE Start
  BY <1>2, <1>3 DEF Start, Typed, index
<1>4. CASE Resync
  BY <1>2, <1>4 DEF Resync, Typed, index
<1>5. CASE OpenWatch
  BY <1>5, ReplayTyped DEF OpenWatch, Typed, index
<1>6. CASE Deliver
  <2>1. Head(stream) \in Event /\ Tail(stream) \in Seq(Event)
    BY <1>6, HeadTail DEF Deliver, Typed
  <2>2. ASSUME NEW s \in Services, NEW spec \in Specs, Replace(s, spec) \/ Forget(s)
        PROVE  /\ serviceCache' \in [Services -> Specs \cup {Absent}]
               /\ nodePortIndex' \in [NodePorts -> [Services -> Nat]]
    <3>1. Removed(nodePortIndex, s, serviceCache[s]) \in [NodePorts -> [Services -> Nat]]
      BY CountsStayNat DEF Typed
    <3>2. Appended(Removed(nodePortIndex, s, serviceCache[s]), s, spec)
            \in [NodePorts -> [Services -> Nat]]
      BY <3>1, CountsStayNat
    <3> QED
      BY <2>2, <3>1, <3>2 DEF Replace, Forget, Typed
  <2>3. Head(stream).svc \in Services /\ Head(stream).spec \in Specs
    BY <2>1 DEF Event
  <2> QED
    BY <1>6, <2>1, <2>2, <2>3 DEF Deliver, Typed
<1>7. CASE WatchFails \/ DropWatch \/ Stop \/ SeeStop \/ Terminated \/ UNCHANGED vars
  <2>1. /\ stream' = stream \/ stream' = <<>>
        /\ UNCHANGED <<cluster, serviceCache, nodePortIndex>>
    BY <1>7 DEF WatchFails, DropWatch, Stop, SeeStop, Terminated, vars, index
  <2> QED
    BY <2>1, SequenceOfEvents DEF Typed
<1> QED
  BY <1>1, <1>3, <1>4, <1>5, <1>6, <1>7 DEF Next

-----------------------------------------------------------------------------
(* The two maps.                                                           *)

\* Taking out a Service that is in the index leaves no count and no entry of
\* its own, and everything else as it was.
LEMMA ForgetKeeps ==
  ASSUME Typed, IndexMatchesCache, NEW s \in Services, Forget(s)
  PROVE  IndexMatchesCache'
<1> DEFINE left == Removed(nodePortIndex, s, serviceCache[s])
<1>1. \A p \in NodePorts, q \in Services :
        left[p][q] = IF q = s THEN 0 ELSE nodePortIndex[p][q]
  BY CountAfter DEF Typed, IndexMatchesCache
<1>2. nodePortIndex' = left /\ serviceCache' = [serviceCache EXCEPT ![s] = Absent]
      /\ portEntries' = portEntries \ Emptied(left, serviceCache[s])
  BY DEF Forget
<1>3. \A p \in NodePorts, q \in Services : left[p][q] = Lists(serviceCache'[q], p)
  BY <1>1, <1>2 DEF Typed, IndexMatchesCache, Lists
<1> HIDE DEF left
<1>4. ASSUME NEW p \in NodePorts
      PROVE  p \in portEntries' <=> \E q \in Services : left[p][q] > 0
  <2>1. \A q \in Services : nodePortIndex[p][q] \in Nat
    BY DEF Typed
  <2>2. p \in portEntries <=> \E q \in Services : nodePortIndex[p][q] > 0
    BY DEF IndexMatchesCache
  <2>3. nodePortIndex[p][s] = Lists(serviceCache[s], p)
    BY DEF IndexMatchesCache
  <2>4. p \in Emptied(left, serviceCache[s]) <=>
          Lists(serviceCache[s], p) > 0 /\ \A q \in Services : left[p][q] = 0
    BY DEF Emptied
  <2> QED
    BY <1>1, <1>2, <2>1, <2>2, <2>3, <2>4
<1>5. portEntries' \subseteq NodePorts
  BY <1>2 DEF IndexMatchesCache
<1> QED
  BY <1>2, <1>3, <1>4, <1>5 DEF IndexMatchesCache

\* Taking out the cached version of a Service and putting in another.
LEMMA ReplaceKeeps ==
  ASSUME Typed, IndexMatchesCache, NEW s \in Services, NEW spec \in Specs,
         Replace(s, spec)
  PROVE  IndexMatchesCache'
<1> DEFINE left == Removed(nodePortIndex, s, serviceCache[s])
           new  == Appended(left, s, spec)
<1>1. \A p \in NodePorts, q \in Services :
        left[p][q] = IF q = s THEN 0 ELSE nodePortIndex[p][q]
  BY CountAfter DEF Typed, IndexMatchesCache
<1>2. left \in [NodePorts -> [Services -> Nat]]
  BY CountsStayNat DEF Typed
<1>3. /\ nodePortIndex' = new /\ serviceCache' = [serviceCache EXCEPT ![s] = spec]
      /\ portEntries' = (portEntries \ Emptied(left, serviceCache[s]))
                        \cup {p \in NodePorts : Lists(spec, p) > 0}
  BY DEF Replace
<1>4. \A p \in NodePorts, q \in Services :
        new[p][q] = IF q = s THEN left[p][q] + Lists(spec, p) ELSE left[p][q]
  BY <1>2, CountAfter
<1> HIDE DEF left, new
<1>5. \A p \in NodePorts, q \in Services :
        new[p][q] = IF q = s THEN Lists(spec, p) ELSE nodePortIndex[p][q]
  <2>1. \A p \in NodePorts : Lists(spec, p) \in Nat
    BY ListsIsNat
  <2> QED
    BY <1>1, <1>4, <2>1
<1>6. \A p \in NodePorts, q \in Services : new[p][q] = Lists(serviceCache'[q], p)
  BY <1>3, <1>5 DEF Typed, IndexMatchesCache
<1>7. ASSUME NEW p \in NodePorts
      PROVE  p \in portEntries' <=> \E q \in Services : new[p][q] > 0
  <2>1. /\ \A q \in Services : nodePortIndex[p][q] \in Nat
        /\ Lists(spec, p) \in Nat
    BY ListsIsNat DEF Typed
  <2>2. p \in portEntries <=> \E q \in Services : nodePortIndex[p][q] > 0
    BY DEF IndexMatchesCache
  <2>3. nodePortIndex[p][s] = Lists(serviceCache[s], p)
    BY DEF IndexMatchesCache
  <2>4. p \in Emptied(left, serviceCache[s]) <=>
          Lists(serviceCache[s], p) > 0 /\ \A q \in Services : left[p][q] = 0
    BY DEF Emptied
  <2> QED
    BY <1>1, <1>3, <1>5, <2>1, <2>2, <2>3, <2>4
<1>8. portEntries' \subseteq NodePorts
  BY <1>3 DEF IndexMatchesCache
<1> QED
  BY <1>3, <1>6, <1>7, <1>8 DEF IndexMatchesCache

\* Every step keeps the two maps in agreement.
LEMMA MatchStep ==
  ASSUME Typed, IndexMatchesCache, [Next]_vars PROVE IndexMatchesCache'
<1>1. CASE Rebuild
  BY <1>1 DEF Rebuild, IndexMatchesCache, Typed
<1>2. CASE UNCHANGED index
  BY <1>2 DEF index, IndexMatchesCache
<1>3. CASE Deliver
  <2>1. Head(stream) \in Event
    BY <1>3, HeadTail DEF Deliver, Typed
  <2>2. Head(stream).svc \in Services /\ Head(stream).spec \in Specs
    BY <2>1 DEF Event
  <2> QED
    BY <1>3, <2>2, ForgetKeeps, ReplaceKeeps DEF Deliver
<1>4. CASE Start \/ Resync
  BY <1>1, <1>2, <1>4 DEF Start, Resync
<1>5. ASSUME NEW s \in Services, NEW new \in Specs \cup {Absent}, Change(s, new)
      PROVE  IndexMatchesCache'
  BY <1>2, <1>5 DEF Change
<1>6. CASE OpenWatch \/ WatchFails \/ DropWatch \/ Stop \/ SeeStop
           \/ Terminated \/ UNCHANGED vars
  BY <1>2, <1>6 DEF OpenWatch, WatchFails, DropWatch, Stop, SeeStop, Terminated, vars
<1> QED
  BY <1>3, <1>4, <1>5, <1>6 DEF Next

\* In every state of every run a key is listed under a NodePort as often as
\* its cached Service lists it, and the map has no other entry.
THEOREM IndexConsistent == Spec => []IndexMatchesCache
<1>1. Init => Typed /\ IndexMatchesCache
  BY DEF Init, Typed, IndexMatchesCache, Lists
<1>2. (Typed /\ IndexMatchesCache) /\ [Next]_vars => (Typed /\ IndexMatchesCache)'
  BY TypedStep, MatchStep
<1> QED
  BY <1>1, <1>2, PTL DEF Spec

-----------------------------------------------------------------------------
(* The types of every variable.                                            *)

\* The entries of nodePortIndex stay NodePorts.
LEMMA PortsStep ==
  ASSUME portEntries \subseteq NodePorts, [Next]_vars PROVE portEntries' \subseteq NodePorts
<1>1. CASE Rebuild \/ UNCHANGED index
  BY <1>1 DEF Rebuild, index
<1>2. CASE Deliver
  BY <1>2 DEF Deliver, Replace, Forget
<1>3. CASE Start \/ Resync
  BY <1>1, <1>3 DEF Start, Resync
<1>4. ASSUME NEW s \in Services, NEW new \in Specs \cup {Absent}, Change(s, new)
      PROVE  UNCHANGED index
  BY <1>4 DEF Change
<1>5. CASE OpenWatch \/ WatchFails \/ DropWatch \/ Stop \/ SeeStop \/ Terminated \/ UNCHANGED vars
  BY <1>1, <1>5 DEF OpenWatch, WatchFails, DropWatch, Stop, SeeStop, Terminated, vars
<1> QED
  BY <1>1, <1>2, <1>3, <1>4, <1>5 DEF Next

\* The variables the index does not depend on.
Controls ==
  /\ syncError \in BOOLEAN
  /\ loop \in {"start", "failed", "top", "backoff", "watching", "stopped"}
  /\ stopping \in BOOLEAN
  /\ unseen \subseteq Services
  /\ changes \in 0..MaxChanges
  /\ faults \in 0..MaxFaults

\* A fault is counted within the bound.
LEMMA FaultCounts ==
  ASSUME faults \in 0..MaxFaults, Fault PROVE faults' \in 0..MaxFaults
BY IndexerAssumption DEF IndexerAssumption, Fault

LEMMA RebuildClears == Rebuild => syncError' = FALSE
BY DEF Rebuild

LEMMA ControlsStep == ASSUME Controls, [Next]_vars PROVE Controls'
<1> USE IndexerAssumption, FaultCounts, RebuildClears DEF IndexerAssumption, Controls
<1>1. CASE Start
  BY <1>1 DEF Start
<1>2. CASE Resync
  BY <1>2 DEF Resync
<1>3. CASE OpenWatch
  BY <1>3 DEF OpenWatch
<1>4. CASE WatchFails \/ DropWatch
  BY <1>4 DEF WatchFails, DropWatch
<1>5. CASE Deliver \/ Stop \/ SeeStop
  BY <1>5 DEF Deliver, Stop, SeeStop
<1>6. ASSUME NEW s \in Services, NEW new \in Specs \cup {Absent}, Change(s, new) PROVE Controls'
  BY <1>6 DEF Change
<1>7. CASE Terminated \/ UNCHANGED vars
  BY <1>7 DEF Terminated, vars
<1> QED
  BY <1>1, <1>2, <1>3, <1>4, <1>5, <1>6, <1>7 DEF Next

LEMMA TypesInit == Init => Typed /\ portEntries \subseteq NodePorts /\ Controls
<1>1. Init => Typed
  BY DEF Init, Typed
<1>2. Init => portEntries \subseteq NodePorts
  BY DEF Init
<1>3. Init => Controls
  <2>1. 0 \in 0..MaxChanges /\ 0 \in 0..MaxFaults
    BY IndexerAssumption DEF IndexerAssumption
  <2>2. Init => syncError = FALSE /\ loop = "start" /\ stopping = FALSE
                /\ unseen = {} /\ changes = 0 /\ faults = 0
    BY DEF Init
  <2> QED
    BY <2>1, <2>2 DEF Controls
<1> QED
  BY <1>1, <1>2, <1>3

\* Every variable has its type.
THEOREM IndexerTypes == Spec => []TypeOK
<1> DEFINE I == Typed /\ portEntries \subseteq NodePorts /\ Controls
<1>1. Init => I
  BY TypesInit
<1>2. I /\ [Next]_vars => I'
  BY TypedStep, PortsStep, ControlsStep
<1>3. I => TypeOK
  BY DEF TypeOK, Typed, Controls
<1> HIDE DEF I
<1> QED
  BY <1>1, <1>2, <1>3, PTL DEF Spec

-----------------------------------------------------------------------------
(* The cache keeps up with the cluster.                                    *)

\* A Service that is in step has its present state upcoming.
LEMMA InStepTells ==
  ASSUME Typed, NEW s \in Services, InStep(s) PROVE Upcoming(s) = cluster[s]
<1> DEFINE mine == {i \in DOMAIN stream : stream[i].svc = s}
           last == CHOOSE i \in mine : \A j \in mine : j <= i
<1>1. DOMAIN stream = 1 .. Len(stream) /\ Len(stream) \in Nat
  BY DEF Typed
<1>2. CASE serviceCache[s] = cluster[s] /\ \A i \in DOMAIN stream : stream[i].svc # s
  BY <1>2 DEF Upcoming
<1>3. ASSUME NEW i \in DOMAIN stream, LastOf(s, i), Content(stream[i]) = cluster[s]
      PROVE  Upcoming(s) = cluster[s]
  <2>1. i \in mine /\ \A j \in mine : j <= i
    BY <1>3 DEF LastOf
  <2>2. last \in mine /\ \A j \in mine : j <= last
    BY <2>1
  <2>3. mine \subseteq Int
    BY <1>1
  <2>4. last = i
    BY <2>1, <2>2, <2>3
  <2>5. Upcoming(s) = IF mine = {} THEN serviceCache[s]
                      ELSE IF stream[last].type = "DELETED" THEN Absent ELSE stream[last].spec
    BY DEF Upcoming
  <2> HIDE DEF mine, last
  <2> QED
    BY <2>1, <2>4, <2>5, <1>3 DEF Content
<1> QED
  BY <1>2, <1>3 DEF InStep

\* A change is the last event of its Service.
LEMMA ChangeInStep ==
  ASSUME Typed, KeepsUp, loop = "watching",
         NEW s \in Services, NEW new \in Specs \cup {Absent}, Change(s, new),
         NEW q \in Services \ unseen'
  PROVE  InStep(q)'
<1> DEFINE e == EventOf(s, new)
<1>1. /\ stream' = Append(stream, e) /\ unseen' = unseen \ {s}
      /\ cluster' = [cluster EXCEPT ![s] = new] /\ serviceCache' = serviceCache
      /\ cluster[s] # new
  BY DEF Change, index
<1>2. e.svc = s /\ Content(e) = new
  BY DEF EventOf, Content
<1> HIDE DEF e
<1>3. PICK n \in Nat : stream \in Seq(Event) /\ n = Len(stream) /\ DOMAIN stream = 1 .. n
  BY DEF Typed
<1>4. /\ DOMAIN stream' = 1 .. (n + 1) /\ stream'[n + 1] = e
      /\ \A i \in 1 .. n : stream'[i] = stream[i]
  BY <1>1, <1>3
<1>5. CASE q = s
  <2>1. LastOf(q, n + 1)'
    BY <1>2, <1>3, <1>4, <1>5 DEF LastOf
  <2>2. Content(stream[n + 1])' = cluster'[q]
    <3>1. cluster'[q] = new
      BY <1>1, <1>5 DEF Typed
    <3> QED
      BY <1>2, <1>4, <3>1 DEF Content
  <2>3. n + 1 \in DOMAIN stream'
    BY <1>3, <1>4
  <2> QED
    BY <2>1, <2>2, <2>3 DEF InStep
<1>6. CASE q # s
  <2>1. cluster'[q] = cluster[q] /\ InStep(q)
    BY <1>1, <1>6 DEF Typed, KeepsUp
  <2>2. CASE serviceCache[q] = cluster[q] /\ \A i \in DOMAIN stream : stream[i].svc # q
    <3>1. \A i \in DOMAIN stream' : stream'[i].svc # q
      BY <1>2, <1>3, <1>4, <1>6, <2>2
    <3> QED
      BY <1>1, <2>1, <2>2, <3>1 DEF InStep
  <2>3. ASSUME NEW i \in DOMAIN stream, LastOf(q, i), Content(stream[i]) = cluster[q]
        PROVE  InStep(q)'
    <3>1. i \in DOMAIN stream' /\ stream'[i] = stream[i]
      BY <1>3, <1>4
    <3>2. LastOf(q, i)'
      BY <1>2, <1>3, <1>4, <1>6, <2>3, <3>1 DEF LastOf
    <3>3. Content(stream[i])' = cluster'[q]
      BY <2>1, <2>3, <3>1 DEF Content
    <3> QED
      BY <3>1, <3>2, <3>3 DEF InStep
  <2> QED
    BY <2>1, <2>2, <2>3 DEF InStep
<1> QED
  BY <1>5, <1>6

\* The replay has every Service there is, once.
LEMMA ReplayInStep ==
  ASSUME Typed, OpenWatch, NEW s \in Services \ unseen' PROVE InStep(s)'
<1>1. PICK q \in Orders(Existing) :
        stream' = [i \in DOMAIN q |->
                     [type |-> "ADDED", svc |-> q[i], spec |-> cluster[q[i]]]]
  BY DEF OpenWatch
<1>2. UNCHANGED <<cluster, serviceCache>>
      /\ unseen' = {r \in Services : cluster[r] = Absent /\ serviceCache[r] # Absent}
  BY DEF OpenWatch, index
<1> DEFINE n == Cardinality(Existing)
<1>3. IsFiniteSet(Existing) /\ n \in Nat
  BY IndexerAssumption, FS_Subset, FS_CardinalityType DEF IndexerAssumption, Existing
<1>4. q \in [1 .. n -> Existing] /\ \A i, j \in 1 .. n : q[i] = q[j] => i = j
  BY DEF Orders
<1>5. /\ DOMAIN stream' = 1 .. n
      /\ \A i \in 1 .. n : /\ stream'[i].svc = q[i]
                           /\ Content(stream'[i]) = cluster[q[i]]
  BY <1>1, <1>4 DEF Content
<1>6. CASE s \in Existing
  <2>1. q \in Injection(1 .. n, Existing)
    BY <1>4 DEF Injection, IsInjective
  <2>2. IsFiniteSet(1 .. n) /\ Cardinality(1 .. n) = n
    BY <1>3, FS_Interval
  <2>3. q \in Surjection(1 .. n, Existing)
    BY <1>3, <2>1, <2>2, FS_Injection
  <2>4. PICK i \in 1 .. n : q[i] = s
    BY <1>6, <2>3 DEF Surjection
  <2>5. LastOf(s, i)'
    BY <1>4, <1>5, <2>4 DEF LastOf
  <2>6. Content(stream[i])' = cluster'[s]
    BY <1>2, <1>5, <2>4 DEF Content
  <2> QED
    BY <1>5, <2>4, <2>5, <2>6 DEF InStep
<1>7. CASE s \notin Existing
  <2>1. serviceCache'[s] = cluster'[s]
    BY <1>2, <1>7 DEF Existing
  <2>2. \A i \in DOMAIN stream' : stream'[i].svc # s
    BY <1>4, <1>5, <1>7
  <2> QED
    BY <2>1, <2>2 DEF InStep
<1> QED
  BY <1>6, <1>7

\* An event that is handled is in the cache, or another one of its Service is
\* still under way.
LEMMA DeliverInStep ==
  ASSUME Typed, Deliver, NEW s \in Services, InStep(s) PROVE InStep(s)'
<1> DEFINE e == Head(stream)
           n == Len(stream)
<1>1. /\ stream \in Seq(Event) /\ stream # <<>> /\ stream' = Tail(stream) /\ cluster' = cluster
  BY DEF Typed, Deliver
<1>2. e \in Event /\ e = stream[1]
  BY <1>1
<1>3. /\ n \in Nat /\ n > 0 /\ DOMAIN stream = 1 .. n /\ DOMAIN stream' = 1 .. (n - 1)
      /\ \A i \in 1 .. (n - 1) : stream'[i] = stream[i + 1]
  BY <1>1
<1>4. serviceCache' = [serviceCache EXCEPT ![e.svc] = Content(e)]
  BY <1>2 DEF Deliver, Replace, Forget, Content, Event
<1>5. serviceCache'[s] = IF s = e.svc THEN Content(e) ELSE serviceCache[s]
  BY <1>4 DEF Typed
<1> HIDE DEF e, n
<1>6. CASE serviceCache[s] = cluster[s] /\ \A i \in DOMAIN stream : stream[i].svc # s
  <2>1. \A i \in DOMAIN stream' : stream'[i].svc # s
    BY <1>3, <1>6
  <2>2. serviceCache'[s] = cluster'[s]
    BY <1>1, <1>2, <1>3, <1>5, <1>6
  <2> QED
    BY <2>1, <2>2 DEF InStep
<1>7. ASSUME NEW i \in DOMAIN stream, LastOf(s, i), Content(stream[i]) = cluster[s]
      PROVE  InStep(s)'
  <2>1. CASE i = 1
    <3>1. \A j \in DOMAIN stream' : stream'[j].svc # s
      BY <1>3, <1>7, <2>1 DEF LastOf
    <3>2. serviceCache'[s] = cluster'[s]
      BY <1>1, <1>2, <1>5, <1>7, <2>1 DEF LastOf
    <3> QED
      BY <3>1, <3>2 DEF InStep
  <2>2. CASE i # 1
    <3>1. i - 1 \in DOMAIN stream' /\ stream'[i - 1] = stream[i]
      BY <1>3, <2>2
    <3>2. LastOf(s, i - 1)'
      BY <1>3, <1>7, <3>1 DEF LastOf
    <3>3. Content(stream[i - 1])' = cluster'[s]
      BY <1>1, <1>7, <3>1 DEF Content
    <3> QED
      BY <3>1, <3>2, <3>3 DEF InStep
  <2> QED
    BY <2>1, <2>2
<1> QED
  BY <1>6, <1>7 DEF InStep

LEMMA KeepsUpStep == ASSUME Typed, KeepsUp, [Next]_vars PROVE KeepsUp'
<1>1. ASSUME NEW s \in Services, NEW new \in Specs \cup {Absent}, Change(s, new)
      PROVE  KeepsUp'
  <2>1. loop' = loop
    BY <1>1 DEF Change
  <2>2. loop = "watching" => \A q \in Services \ unseen' : InStep(q)'
    BY <1>1, ChangeInStep
  <2> QED
    BY <2>1, <2>2 DEF KeepsUp
<1>2. CASE OpenWatch
  <2>1. \A s \in Services \ unseen' : InStep(s)'
    BY <1>2, ReplayInStep
  <2> QED
    BY <2>1 DEF KeepsUp
<1>3. CASE Deliver
  <2>1. loop' = loop /\ unseen' = unseen /\ loop = "watching"
    BY <1>3 DEF Deliver
  <2>2. \A s \in Services \ unseen : InStep(s)'
    BY <1>3, <2>1, DeliverInStep DEF KeepsUp
  <2> QED
    BY <2>1, <2>2 DEF KeepsUp
<1>4. CASE Start \/ WatchFails \/ Resync \/ DropWatch \/ SeeStop
  <2>1. loop' # "watching"
    BY <1>4 DEF Start, WatchFails, Resync, DropWatch, SeeStop
  <2> QED
    BY <2>1 DEF KeepsUp
<1>5. CASE Stop \/ Terminated \/ UNCHANGED vars
  <2>1. UNCHANGED <<loop, unseen, stream, serviceCache, cluster>>
    BY <1>5 DEF Stop, Terminated, vars, index
  <2> QED
    BY <2>1 DEF KeepsUp, InStep, LastOf, Content
<1> QED
  BY <1>1, <1>2, <1>3, <1>4, <1>5 DEF Next

\* While a watch is open the cache lags the cluster by the events under way and
\* by nothing else, except for Services that were deleted while none was open.
THEOREM CacheTracksCluster == Spec => []TracksCluster
<1>1. Init => Typed /\ KeepsUp
  BY TypesInit DEF Init, KeepsUp
<1>2. (Typed /\ KeepsUp) /\ [Next]_vars => (Typed /\ KeepsUp)'
  BY TypedStep, KeepsUpStep
<1>3. Typed /\ KeepsUp => TracksCluster
  BY InStepTells DEF KeepsUp, TracksCluster
<1> QED
  BY <1>1, <1>2, <1>3, PTL DEF Spec
=============================================================================
