----------------------------- MODULE ServiceIndexer -----------------------------
(***************************************************************************)
(* The NodePort index of internal/k8s/service_indexer.go: a full List, then *)
(* a Watch whose events update two maps, re-established by watchLoop when   *)
(* the API server closes it, with a back-off and another List when it       *)
(* cannot be opened.                                                        *)
(*                                                                         *)
(* The API server is the environment (client-go's Watch with empty          *)
(* ListOptions): opening a watch replays every existing Service as ADDED    *)
(* and then reports changes in order; it does not report what was deleted   *)
(* while no watch was open, and what is undelivered when a watch closes is  *)
(* lost.  An event that carries no Service is skipped by the code and does  *)
(* not appear.                                                              *)
(*                                                                         *)
(* A Service is known by how often it lists each NodePort: more than once   *)
(* when TCP and UDP share it.  The order of the keys under one NodePort is  *)
(* not modelled.  ready is TRUE from the moment Start succeeds, and no one  *)
(* has the indexer before.                                                  *)
(***************************************************************************)
EXTENDS Integers, Sequences, FiniteSets

CONSTANTS
  Services,    \* ServiceKeys
  NodePorts,
  Specs,       \* what a Service may be: how often it lists each NodePort
  Absent,      \* no Service of that key
  MaxChanges,  \* bound: changes of the cluster
  MaxFaults,   \* bound: failed calls and watches closed by the server
  MaxLag       \* bound: events under way

ASSUME IndexerAssumption ==
  /\ IsFiniteSet(Services)
  /\ Specs \subseteq [NodePorts -> Nat]
  /\ Absent \notin Specs
  /\ MaxChanges \in Nat /\ MaxFaults \in Nat /\ MaxLag \in Nat

VARIABLES
  cluster,        \* the Services there are
  stream,         \* events of the open watch that have not been handled
  serviceCache,   \* Absent where the map has no entry
  nodePortIndex,  \* how often each key is listed under each NodePort
  portEntries,    \* the NodePorts that have an entry in the map
  syncError,      \* syncError # nil
  loop,           \* where Start, then watchLoop, is
  stopping,       \* ctx is cancelled
  unseen,         \* history: deletions the open watch will not report
  changes, faults \* counted towards the bounds

index == <<serviceCache, nodePortIndex, portEntries>>
vars == <<cluster, stream, index, syncError, loop, stopping, unseen, changes, faults>>

Event == [type : {"ADDED", "MODIFIED", "DELETED"}, svc : Services, spec : Specs]

TypeOK ==
  /\ cluster \in [Services -> Specs \cup {Absent}]
  /\ stream \in Seq(Event)
  /\ serviceCache \in [Services -> Specs \cup {Absent}]
  /\ nodePortIndex \in [NodePorts -> [Services -> Nat]]
  /\ portEntries \subseteq NodePorts
  /\ syncError \in BOOLEAN
  /\ loop \in {"start", "failed", "top", "backoff", "watching", "stopped"}
  /\ stopping \in BOOLEAN
  /\ unseen \subseteq Services
  /\ changes \in 0..MaxChanges
  /\ faults \in 0..MaxFaults

Init ==
  /\ cluster \in [Services -> Specs \cup {Absent}]
  /\ stream = <<>>
  /\ serviceCache = [s \in Services |-> Absent]
  /\ nodePortIndex = [p \in NodePorts |-> [s \in Services |-> 0]]
  /\ portEntries = {}
  /\ syncError = FALSE
  /\ loop = "start"
  /\ stopping = FALSE
  /\ unseen = {}
  /\ changes = 0
  /\ faults = 0

-----------------------------------------------------------------------------
(* addServiceToIndex and removeServiceFromIndex.                           *)

\* How often spec lists NodePort p.
Lists(spec, p) == IF spec = Absent THEN 0 ELSE spec[p]

\* One append for each port of spec.
Appended(keys, s, spec) ==
  [p \in NodePorts |-> [keys[p] EXCEPT ![s] = @ + Lists(spec, p)]]

\* Mutant: one removal too many for each port.
RemovedOnceMore(keys, s, old) ==
  [p \in NodePorts |-> [keys[p] EXCEPT ![s] = @ - 2 * Lists(old, p)]]

\* For each port of old, the first occurrence of the key goes, if there is one.
Removed(keys, s, old) ==
  [p \in NodePorts |-> [keys[p] EXCEPT
     ![s] = IF @ > Lists(old, p) THEN @ - Lists(old, p) ELSE 0]]

\* The ports of old whose entry is empty afterwards: they are deleted.
Emptied(keys, old) ==
  {p \in NodePorts : Lists(old, p) > 0 /\ \A s \in Services : keys[p][s] = 0}

\* The index without, and with, the Service spec under key s.
Forget(s) ==
  LET left == Removed(nodePortIndex, s, serviceCache[s])
  IN  /\ serviceCache' = [serviceCache EXCEPT ![s] = Absent]
      /\ nodePortIndex' = left
      /\ portEntries' = portEntries \ Emptied(left, serviceCache[s])

\* Mutant: an update does not take out the old version first.
InsertOnly(s, spec) ==
  /\ serviceCache' = [serviceCache EXCEPT ![s] = spec]
  /\ nodePortIndex' = Appended(nodePortIndex, s, spec)
  /\ portEntries' = portEntries \cup {p \in NodePorts : Lists(spec, p) > 0}

\* removeServiceFromIndex, then addServiceToIndex, under one lock.
Replace(s, spec) ==
  LET left == Removed(nodePortIndex, s, serviceCache[s])
  IN  /\ serviceCache' = [serviceCache EXCEPT ![s] = spec]
      /\ nodePortIndex' = Appended(left, s, spec)
      /\ portEntries' = (portEntries \ Emptied(left, serviceCache[s]))
                        \cup {p \in NodePorts : Lists(spec, p) > 0}

\* fullSync: both maps are made anew from the List.
Rebuild ==
  /\ serviceCache' = cluster
  /\ nodePortIndex' = [p \in NodePorts |-> [s \in Services |-> Lists(cluster[s], p)]]
  /\ portEntries' = {p \in NodePorts : \E s \in Services : Lists(cluster[s], p) > 0}
  /\ syncError' = FALSE

-----------------------------------------------------------------------------
(* The environment.                                                        *)

EventOf(s, new) ==
  IF new = Absent THEN [type |-> "DELETED", svc |-> s, spec |-> cluster[s]]
  ELSE IF cluster[s] = Absent THEN [type |-> "ADDED", svc |-> s, spec |-> new]
  ELSE [type |-> "MODIFIED", svc |-> s, spec |-> new]

\* Someone creates, changes or deletes a Service.
Change(s, new) ==
  /\ changes < MaxChanges
  /\ cluster[s] # new
  /\ cluster' = [cluster EXCEPT ![s] = new]
  /\ \/ /\ loop = "watching"
        /\ Len(stream) < MaxLag
        /\ stream' = Append(stream, EventOf(s, new))
        /\ unseen' = unseen \ {s}
     \/ /\ loop # "watching"
        /\ UNCHANGED <<stream, unseen>>
  /\ changes' = changes + 1
  /\ UNCHANGED <<index, syncError, loop, stopping, faults>>

-----------------------------------------------------------------------------
(* Start and watchLoop.                                                    *)

Fault == faults < MaxFaults /\ faults' = faults + 1

\* Start: the initial List succeeds and watchLoop starts, or it does not and
\* the indexer is given up by its manager.
Start ==
  /\ loop = "start"
  /\ \/ Rebuild /\ loop' = "top" /\ UNCHANGED faults
     \/ Fault /\ syncError' = TRUE /\ loop' = "failed" /\ UNCHANGED index
  /\ UNCHANGED <<cluster, stream, stopping, unseen, changes>>

\* The sequences that list every member of a set once.
Orders(S) ==
  {q \in [1..Cardinality(S) -> S] : \A i, j \in DOMAIN q : q[i] = q[j] => i = j}

Existing == {s \in Services : cluster[s] # Absent}

\* Mutant: the new watch does not replay what exists.
OpenWatchFromNow ==
  /\ loop = "top"
  /\ ~stopping
  /\ loop' = "watching"
  /\ stream' = <<>>
  /\ unseen' = {s \in Services : cluster[s] = Absent /\ serviceCache[s] # Absent}
  /\ UNCHANGED <<cluster, index, syncError, stopping, changes, faults>>

\* Watch succeeds: everything there is will be reported as ADDED.
OpenWatch ==
  /\ loop = "top"
  /\ ~stopping
  /\ loop' = "watching"
  /\ \E q \in Orders(Existing) :
       stream' = [i \in DOMAIN q |->
                    [type |-> "ADDED", svc |-> q[i], spec |-> cluster[q[i]]]]
  /\ unseen' = {s \in Services : cluster[s] = Absent /\ serviceCache[s] # Absent}
  /\ UNCHANGED <<cluster, index, syncError, stopping, changes, faults>>

\* Watch fails: five seconds of back-off.
WatchFails ==
  /\ loop = "top"
  /\ Fault
  /\ syncError' = TRUE
  /\ loop' = "backoff"
  /\ UNCHANGED <<cluster, stream, index, stopping, unseen, changes>>

\* The back-off ends in a full List, which may fail; the loop goes on.
Resync ==
  /\ loop = "backoff"
  /\ \/ ~stopping /\ Rebuild /\ UNCHANGED faults
     \/ Fault /\ syncError' = TRUE /\ UNCHANGED index
  /\ loop' = "top"
  /\ UNCHANGED <<cluster, stream, stopping, unseen, changes>>

\* handleWatchEvents: one event.
Deliver ==
  /\ loop = "watching"
  /\ stream # <<>>
  /\ LET e == Head(stream)
     IN  \/ e.type \in {"ADDED", "MODIFIED"} /\ Replace(e.svc, e.spec)
         \/ e.type = "DELETED" /\ Forget(e.svc)
  /\ stream' = Tail(stream)
  /\ UNCHANGED <<cluster, syncError, loop, stopping, unseen, changes, faults>>

\* Mutant: the loop ends with its first watch.
DropWatchEndsLoop ==
  /\ loop = "watching"
  /\ Fault
  /\ loop' = "stopped"
  /\ stream' = <<>>
  /\ UNCHANGED <<cluster, index, syncError, stopping, unseen, changes>>

\* The API server closes the watch: handleWatchEvents returns, the loop opens
\* another one at once.
DropWatch ==
  /\ loop = "watching"
  /\ Fault
  /\ loop' = "top"
  /\ stream' = <<>>
  /\ UNCHANGED <<cluster, index, syncError, stopping, unseen, changes>>

\* Stop: the context is cancelled, and the caller waits for the loop.
Stop ==
  /\ loop \notin {"start", "failed"}
  /\ ~stopping
  /\ stopping' = TRUE
  /\ UNCHANGED <<cluster, stream, index, syncError, loop, unseen, changes, faults>>

\* Mutant: the cancellation is seen between watches only.
SeeStopAtTop ==
  /\ stopping
  /\ loop = "top"
  /\ loop' = "stopped"
  /\ stream' = <<>>
  /\ UNCHANGED <<cluster, index, syncError, stopping, unseen, changes, faults>>

\* case <-si.ctx.Done() in any of the three selects.
SeeStop ==
  /\ stopping
  /\ loop \in {"top", "backoff", "watching"}
  /\ loop' = "stopped"
  /\ stream' = <<>>
  /\ UNCHANGED <<cluster, index, syncError, stopping, unseen, changes, faults>>

\* Nothing is left to do for an indexer that is stopped or was given up.
Terminated ==
  /\ loop \in {"failed", "stopped"}
  /\ UNCHANGED vars

-----------------------------------------------------------------------------
Next ==
  \/ \E s \in Services, new \in Specs \cup {Absent} : Change(s, new)
  \/ Start \/ OpenWatch \/ WatchFails \/ Resync
  \/ Deliver \/ DropWatch
  \/ Stop \/ SeeStop \/ Terminated

Spec == Init /\ [][Next]_vars

\* The loop's goroutine runs, the API server answers, the back-off's timer
\* fires.  MaxChanges and MaxFaults let the cluster come to rest and the API
\* server recover; nothing is assumed to change, to fail or to be stopped.
FairSpec ==
  /\ Spec
  /\ WF_vars(Start) /\ WF_vars(OpenWatch) /\ WF_vars(Resync)
  /\ WF_vars(Deliver) /\ WF_vars(SeeStop)

-----------------------------------------------------------------------------
(* Properties.                                                             *)

\* The two maps say the same: a key is listed under a NodePort as often as
\* its cached Service lists it, and no other entry is left behind.  So
\* FindByNodePort finds exactly the cached Services with that NodePort, over
\* any sequence of events, replayed, stale and repeated ones included.
IndexMatchesCache ==
  /\ \A p \in NodePorts, s \in Services :
       nodePortIndex[p][s] = Lists(serviceCache[s], p)
  /\ portEntries = {p \in NodePorts : \E s \in Services : nodePortIndex[p][s] > 0}

\* What the cache will hold for s when the events under way are handled.
Upcoming(s) ==
  LET mine == {i \in DOMAIN stream : stream[i].svc = s}
      last == CHOOSE i \in mine : \A j \in mine : j <= i
  IN  IF mine = {} THEN serviceCache[s]
      ELSE IF stream[last].type = "DELETED" THEN Absent ELSE stream[last].spec

\* While a watch is open, the cache lags the cluster by the events under way
\* and by nothing else, except for Services deleted while no watch was open:
\* what happens between List and Watch, or between two watches, is otherwise
\* made up for by the replay.
TracksCluster ==
  loop = "watching" =>
    \A s \in Services : s \in unseen \/ Upcoming(s) = cluster[s]

\* Every Service there is ends up in the index as it is now, if the indexer
\* was started and is not stopped.
EventuallyIndexed ==
  [](~stopping) =>
    <>[](loop # "failed" =>
           \A s \in Existing : serviceCache[s] = cluster[s])

\* K8SClientManager.Close holds the manager's lock while it waits in Stop:
\* the loop comes to its end from wherever it is.
StopReturns == stopping ~> loop = "stopped"

\* What the comments say of watchLoop (service_indexer.go:147, 190): it follows
\* the changes of Services, and re-establishes a watch that was closed.  So a
\* Service that a watch has followed goes from the cache when it goes from the
\* cluster for good, if no call ever fails.
DeletedServicesVanish ==
  [](~stopping /\ ~syncError) =>
    \A s \in Services :
      []((loop = "watching" /\ cluster[s] # Absent) =>
           (<>[](cluster[s] = Absent) => <>[](serviceCache[s] = Absent)))

-----------------------------------------------------------------------------
(* The inductive form of TracksCluster.                                    *)

\* Event i is the last one of Service s in the stream.
LastOf(s, i) ==
  /\ i \in DOMAIN stream /\ stream[i].svc = s
  /\ \A j \in DOMAIN stream : stream[j].svc = s => j <= i

\* What an event makes of its Service.
Content(e) == IF e.type = "DELETED" THEN Absent ELSE e.spec

\* The cache has s as it is, or the last event of s under way will bring it.
InStep(s) ==
  \/ serviceCache[s] = cluster[s] /\ \A i \in DOMAIN stream : stream[i].svc # s
  \/ \E i \in DOMAIN stream : LastOf(s, i) /\ Content(stream[i]) = cluster[s]

KeepsUp == loop = "watching" => \A s \in Services \ unseen : InStep(s)
=============================================================================
