---------------------------- MODULE K8SClientManager ----------------------------
(***************************************************************************)
(* K8SClientManager of internal/k8s (client.go, context.go): the current   *)
(* context, the pool of clients and the Service indexers, one lock over    *)
(* all of them, and callers that read the current context under one        *)
(* acquisition of the lock and use it under the next.                      *)
(*                                                                         *)
(* What happens under one acquisition is one step, except where the        *)
(* manager keeps the lock over something slow: the List of an indexer's    *)
(* Start, and the wait for the watch loops in Close.                       *)
(*                                                                         *)
(* A client stands for the cluster it talks to, named by its context.      *)
(* Every client is made from the kubeconfig as it is on disk at that time  *)
(* (clientcmd's deferred loading), whose current-context may have been     *)
(* edited since the manager was made; what a name stands for there is not. *)
(***************************************************************************)
EXTENDS Integers, FiniteSets

CONSTANTS
  Callers,    \* goroutines that use the manager
  Contexts,   \* the contexts of the kubeconfig
  Unknown,    \* a name that is no context
  NoName,     \* the empty string
  InCluster,  \* the cluster the server itself runs in
  None        \* no client

ASSUME ManagerAssumption ==
  /\ Contexts # {} /\ IsFiniteSet(Contexts)
  /\ NoName \notin Contexts /\ Unknown \notin Contexts \cup {NoName}
  /\ InCluster \notin Contexts
  /\ None \notin Contexts \cup {InCluster} \cup Callers

Names == Contexts \cup {Unknown, NoName}
Clusters == Contexts \cup {InCluster}

VARIABLES
  currentCtx,       \* K8SClientManager.currentCtx
  fileCurrent,      \* current-context of the kubeconfig on disk
  clientPool,       \* the cluster of the pooled client, or None
  serviceIndexers,  \* the cluster of the indexer in the map, or None
  loops,            \* watch loops running for indexers of that name
  holder,           \* the caller that keeps the lock, or None
  calls             \* what each caller is doing

manager == <<currentCtx, clientPool, serviceIndexers, loops>>
vars == <<manager, fileCurrent, holder, calls>>

(***************************************************************************)
(* A call: "read" is GetClient or GetServiceIndexer before they have read  *)
(* the current context; "use" is GetClientForContext or                    *)
(* GetServiceIndexerForContext before the lock; "start" is Start of a new  *)
(* indexer, "stop" the loop of Close, both with the lock held; "answer" is *)
(* a call that returns what it has got.  byDefault tells that the name was *)
(* read from currentCtx.                                                   *)
(***************************************************************************)
Call == [at : {"idle", "read", "use", "start", "switch", "close", "stop", "answer"},
         what : {"client", "indexer"}, name : Names, byDefault : BOOLEAN,
         got : Clusters \cup {None}]

TypeOK ==
  /\ currentCtx \in Contexts
  /\ fileCurrent \in Contexts \cup {NoName}
  /\ clientPool \in [Names -> Clusters \cup {None}]
  /\ serviceIndexers \in [Names -> Clusters \cup {None}]
  /\ loops \in [Names -> Nat]
  /\ holder \in Callers \cup {None}
  /\ calls \in [Callers -> Call]

IdleCall == [at |-> "idle", what |-> "client", name |-> NoName,
             byDefault |-> FALSE, got |-> None]

\* NewK8SClientManager: without a current-context in the file any context is
\* taken.
Init ==
  /\ fileCurrent \in Contexts \cup {NoName}
  /\ currentCtx \in Contexts
  /\ fileCurrent # NoName => currentCtx = fileCurrent
  /\ clientPool = [n \in Names |-> None]
  /\ serviceIndexers = [n \in Names |-> None]
  /\ loops = [n \in Names |-> 0]
  /\ holder = None
  /\ calls = [c \in Callers |-> IdleCall]

Becomes(c, call) == calls' = [calls EXCEPT ![c] = call]
Answers(c, got) == Becomes(c, [calls[c] EXCEPT !.at = "answer", !.got = got])

\* The lock is free for c to take and leave within one step.
Free == holder = None

-----------------------------------------------------------------------------
(* createClientForContext.                                                 *)

\* The clusters a new client for name may talk to: clientcmd takes the file's
\* current-context for an empty name and, if that is empty too, the cluster
\* it runs in.  Creation may also fail, for any name.
Creatable(name) ==
  IF name \in Contexts THEN {name}
  ELSE IF name # NoName THEN {}
  ELSE IF fileCurrent # NoName THEN {fileCurrent} ELSE {InCluster}

-----------------------------------------------------------------------------
(* Calls begin.                                                            *)

Ask(c) ==
  /\ calls[c].at = "idle"
  /\ \/ \E what \in {"client", "indexer"} :
          Becomes(c, [IdleCall EXCEPT !.at = "read", !.what = what])
     \/ \E what \in {"client", "indexer"}, n \in Names :
          Becomes(c, [IdleCall EXCEPT !.at = "use", !.what = what, !.name = n])
     \/ \E n \in Names : Becomes(c, [IdleCall EXCEPT !.at = "switch", !.name = n])
     \/ Becomes(c, [IdleCall EXCEPT !.at = "close"])
  /\ UNCHANGED <<manager, fileCurrent, holder>>

\* Mutant: the current-context of the file, not of the manager.
ReadFile(c) ==
  /\ calls[c].at = "read"
  /\ Free
  /\ Becomes(c, [calls[c] EXCEPT !.at = "use", !.byDefault = TRUE,
                   !.name = IF fileCurrent = NoName THEN currentCtx ELSE fileCurrent])
  /\ UNCHANGED <<manager, fileCurrent, holder>>

\* GetClient, GetServiceIndexer: the current context, then the lock is let go.
ReadCurrent(c) ==
  /\ calls[c].at = "read"
  /\ Free
  /\ Becomes(c, [calls[c] EXCEPT !.at = "use", !.name = currentCtx, !.byDefault = TRUE])
  /\ UNCHANGED <<manager, fileCurrent, holder>>

-----------------------------------------------------------------------------
(* GetClientForContext; GetDynamicClient and GetRestConfig are the same.   *)

\* Mutant: a client missing from the pool is made for the current context.
GetClientOfCurrent(c) ==
  LET n == calls[c].name
  IN  /\ calls[c].at = "use" /\ calls[c].what = "client"
      /\ Free
      /\ \/ Answers(c, None) /\ UNCHANGED clientPool
         \/ /\ n \in Contexts
            /\ clientPool[n] = None
            /\ clientPool' = [clientPool EXCEPT ![n] = currentCtx]
            /\ Answers(c, currentCtx)
         \/ /\ n \in Contexts
            /\ clientPool[n] # None
            /\ Answers(c, clientPool[n])
            /\ UNCHANGED clientPool
      /\ UNCHANGED <<currentCtx, serviceIndexers, loops, fileCurrent, holder>>

GetClientForContext(c) ==
  LET n == calls[c].name
  IN  /\ calls[c].at = "use" /\ calls[c].what = "client"
      /\ Free
      /\ \/ /\ n \notin Contexts \/ clientPool[n] = None
            /\ Answers(c, None)
            /\ UNCHANGED clientPool
         \/ /\ n \in Contexts
            /\ clientPool[n] # None
            /\ Answers(c, clientPool[n])
            /\ UNCHANGED clientPool
         \/ /\ n \in Contexts
            /\ clientPool[n] = None
            /\ \E t \in Creatable(n) :
                 /\ clientPool' = [clientPool EXCEPT ![n] = t]
                 /\ Answers(c, t)
      /\ UNCHANGED <<currentCtx, serviceIndexers, loops, fileCurrent, holder>>

-----------------------------------------------------------------------------
(* GetServiceIndexerForContext: the name is not checked.                   *)

\* The indexer is in the map.
FindIndexer(c) ==
  LET n == calls[c].name
  IN  /\ calls[c].at = "use" /\ calls[c].what = "indexer"
      /\ Free
      /\ serviceIndexers[n] # None
      /\ Answers(c, serviceIndexers[n])
      /\ UNCHANGED <<manager, fileCurrent, holder>>

\* Mutant: the lock is not kept over Start.
BeginIndexerUnlocked(c) ==
  LET n == calls[c].name
  IN  /\ calls[c].at = "use" /\ calls[c].what = "indexer"
      /\ Free
      /\ serviceIndexers[n] = None
      /\ \E t \in (IF clientPool[n] # None THEN {clientPool[n]} ELSE Creatable(n)) :
           /\ clientPool' = [clientPool EXCEPT ![n] = t]
           /\ Becomes(c, [calls[c] EXCEPT !.at = "start", !.got = t])
      /\ UNCHANGED <<currentCtx, serviceIndexers, loops, fileCurrent, holder>>

\* It is not: a client from the pool or a new one, which is pooled, and Start
\* with the lock held; or the client cannot be created.
BeginIndexer(c) ==
  LET n == calls[c].name
  IN  /\ calls[c].at = "use" /\ calls[c].what = "indexer"
      /\ Free
      /\ serviceIndexers[n] = None
      /\ \/ /\ \E t \in (IF clientPool[n] # None THEN {clientPool[n]} ELSE Creatable(n)) :
                 /\ clientPool' = [clientPool EXCEPT ![n] = t]
                 /\ Becomes(c, [calls[c] EXCEPT !.at = "start", !.got = t])
            /\ holder' = c
         \/ /\ clientPool[n] = None
            /\ Answers(c, None)
            /\ UNCHANGED <<clientPool, holder>>
      /\ UNCHANGED <<currentCtx, serviceIndexers, loops, fileCurrent>>

\* Mutant: the lock is kept when the List fails.
EndIndexerKeepsLock(c) ==
  LET n == calls[c].name
  IN  /\ calls[c].at = "start"
      /\ \/ /\ serviceIndexers' = [serviceIndexers EXCEPT ![n] = calls[c].got]
            /\ loops' = [loops EXCEPT ![n] = @ + 1]
            /\ Answers(c, calls[c].got)
            /\ holder' = None
         \/ Answers(c, None) /\ UNCHANGED <<serviceIndexers, loops, holder>>
      /\ UNCHANGED <<currentCtx, clientPool, fileCurrent>>

\* Start returns: the watch loop runs and the indexer is in the map, or the
\* List failed and there is neither.
EndIndexer(c) ==
  LET n == calls[c].name
  IN  /\ calls[c].at = "start"
      /\ \/ /\ serviceIndexers' = [serviceIndexers EXCEPT ![n] = calls[c].got]
            /\ loops' = [loops EXCEPT ![n] = @ + 1]
            /\ Answers(c, calls[c].got)
         \/ Answers(c, None) /\ UNCHANGED <<serviceIndexers, loops>>
      /\ holder' = None
      /\ UNCHANGED <<currentCtx, clientPool, fileCurrent>>

-----------------------------------------------------------------------------
(* SwitchContext, Close, return.                                           *)

\* Mutant: a context that does not exist is switched to.
SwitchUnchecked(c) ==
  LET n == calls[c].name
  IN  /\ calls[c].at = "switch"
      /\ Free
      /\ currentCtx' = n
      /\ Becomes(c, IdleCall)
      /\ UNCHANGED <<clientPool, serviceIndexers, loops, fileCurrent, holder>>

\* Under one acquisition: the context must exist and a client for it be in
\* the pool or be creatable (the one made to try is not pooled).
SwitchContext(c) ==
  LET n == calls[c].name
  IN  /\ calls[c].at = "switch"
      /\ Free
      /\ \/ /\ n \in Contexts
            /\ clientPool[n] # None \/ Creatable(n) # {}
            /\ currentCtx' = n
         \/ /\ n \notin Contexts \/ clientPool[n] = None
            /\ UNCHANGED currentCtx
      /\ Becomes(c, IdleCall)
      /\ UNCHANGED <<clientPool, serviceIndexers, loops, fileCurrent, holder>>

BeginClose(c) ==
  /\ calls[c].at = "close"
  /\ Free
  /\ holder' = c
  /\ Becomes(c, [calls[c] EXCEPT !.at = "stop"])
  /\ UNCHANGED <<manager, fileCurrent>>

\* indexer.Stop: cancel, then wait for its loop.
StopIndexer(c, n) ==
  /\ calls[c].at = "stop"
  /\ serviceIndexers[n] # None
  /\ loops[n] > 0
  /\ loops' = [loops EXCEPT ![n] = @ - 1]
  /\ UNCHANGED <<currentCtx, clientPool, serviceIndexers, fileCurrent, holder, calls>>

\* Every indexer of the map has been stopped: both maps are emptied.
EndClose(c) ==
  /\ calls[c].at = "stop"
  /\ \A n \in Names : serviceIndexers[n] # None => loops[n] = 0
  /\ serviceIndexers' = [n \in Names |-> None]
  /\ clientPool' = [n \in Names |-> None]
  /\ holder' = None
  /\ Becomes(c, IdleCall)
  /\ UNCHANGED <<currentCtx, loops, fileCurrent>>

\* The caller has its client, its indexer or its error.
Return(c) ==
  /\ calls[c].at = "answer"
  /\ Becomes(c, IdleCall)
  /\ UNCHANGED <<manager, fileCurrent, holder>>

\* Someone runs kubectl config use-context.
EditKubeconfig ==
  /\ fileCurrent' \in Contexts
  /\ UNCHANGED <<manager, holder, calls>>

-----------------------------------------------------------------------------
Step(c) ==
  \/ ReadCurrent(c) \/ GetClientForContext(c)
  \/ FindIndexer(c) \/ BeginIndexer(c) \/ EndIndexer(c)
  \/ SwitchContext(c)
  \/ BeginClose(c) \/ EndClose(c) \/ \E n \in Names : StopIndexer(c, n)
  \/ Return(c)

Next == (\E c \in Callers : Ask(c) \/ Step(c)) \/ EditKubeconfig

Spec == Init /\ [][Next]_vars

\* sync.RWMutex hands the lock to whoever has waited, a List returns (client-go
\* fails it when the connection does) and a stopped loop ends (StopReturns of
\* ServiceIndexer).  Nobody has to call.
FairSpec == Spec /\ \A c \in Callers : SF_vars(Step(c))

-----------------------------------------------------------------------------
(* Properties.                                                             *)

\* Context isolation: whoever asks for a context by name gets the cluster of
\* that context, from the pool, new, or through an indexer, whatever context
\* is current and whatever was switched, closed or failed meanwhile.
ContextIsolation ==
  \A c \in Callers :
    calls[c].at = "answer" /\ calls[c].name \in Contexts =>
      calls[c].got \in {calls[c].name, None}

\* Every watch loop that runs belongs to an indexer of the map, where Close
\* will find it, and every indexer of the map has its one loop, unless Close
\* is stopping them: no loop is started twice, lost or left behind.
LoopsOwned ==
  \A n \in Names :
    \/ serviceIndexers[n] = None /\ loops[n] = 0
    \/ serviceIndexers[n] # None /\ loops[n] = 1
    \/ /\ serviceIndexers[n] # None /\ loops[n] = 0
       /\ \E c \in Callers : holder = c /\ calls[c].at = "stop"

\* The context a call without a name works with.
ChosenContext ==
  [c \in Callers |->
     IF calls[c].byDefault /\ calls[c].at \in {"use", "start"} THEN calls[c].name
     ELSE IF calls[c].byDefault /\ calls[c].at = "answer" THEN calls[c].got
     ELSE None]

Abstract == INSTANCE CurrentContext WITH current <- currentCtx, chosen <- ChosenContext

\* The manager implements CurrentContext: switches are atomic, and a call that
\* names no context sticks to the one it read.
ImplementsCurrentContext == Abstract!Spec

\* Everyone who calls is answered, through all that keeps the lock.  The
\* callers are interchangeable: one of them stands for all.
Answered ==
  LET c == CHOOSE d \in Callers : TRUE IN calls[c].at # "idle" ~> calls[c].at = "idle"

-----------------------------------------------------------------------------
(* The inductive forms of the invariants.                                  *)

\* Whatever is kept under the name of a context belongs to that context.
PoolIsolated ==
  \A n \in Contexts :
    /\ clientPool[n] \in {n, None}
    /\ serviceIndexers[n] \in {n, None}

\* So does what a call has got so far.
CallsIsolated ==
  \A c \in Callers :
    calls[c].at \in {"start", "answer"} /\ calls[c].name \in Contexts =>
      calls[c].got \in {calls[c].name, None}

\* The caller that keeps the lock, and no other, is in Start or in Close; an
\* indexer that is starting is not in the map yet.
LockHeld ==
  \A c \in Callers :
    /\ calls[c].at \in {"start", "stop"} <=> holder = c
    /\ calls[c].at = "start" =>
         serviceIndexers[calls[c].name] = None /\ calls[c].got # None

\* A context that was read from the manager is one of its contexts.
DefaultsKnown ==
  \A c \in Callers :
    calls[c].byDefault /\ calls[c].at \in {"use", "start", "answer"} =>
      calls[c].name \in Contexts

IInv ==
  TypeOK /\ PoolIsolated /\ CallsIsolated /\ LockHeld /\ LoopsOwned /\ DefaultsKnown
=============================================================================
