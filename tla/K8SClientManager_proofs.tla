------------------------- MODULE K8SClientManager_proofs -------------------------
(***************************************************************************)
(* Theorems about K8SClientManager, for any number of callers and of       *)
(* contexts.  The inductive invariant is IInv of K8SClientManager.         *)
(***************************************************************************)
EXTENDS K8SClientManager, TLAPS

\* What a call's record holds.
LEMMA CallFields ==
  ASSUME NEW call \in Call
  PROVE  /\ call.at \in {"idle", "read", "use", "start", "switch", "close", "stop", "answer"}
         /\ call.what \in {"client", "indexer"} /\ call.name \in Names
         /\ call.byDefault \in BOOLEAN /\ call.got \in Clusters \cup {None}
BY DEF Call

\* A call that gets further remains a call, and the same call.
LEMMA Moved ==
  ASSUME NEW call \in Call, NEW got \in Clusters \cup {None},
         NEW at \in {"idle", "read", "use", "start", "switch", "close", "stop", "answer"}
  PROVE  LET new == [call EXCEPT !.at = at, !.got = got]
         IN  /\ new \in Call /\ new.at = at /\ new.got = got
             /\ new.name = call.name /\ new.what = call.what
             /\ new.byDefault = call.byDefault
BY DEF Call

\* The record of a caller that is not calling.
LEMMA IdleIsCall ==
  /\ IdleCall \in Call /\ IdleCall.at = "idle" /\ IdleCall.byDefault = FALSE
  /\ IdleCall.got = None
BY DEF IdleCall, Call, Names

\* What a call begins with.
LEMMA Begun ==
  ASSUME NEW at \in {"read", "use", "switch", "close"},
         NEW what \in {"client", "indexer"}, NEW n \in Names
  PROVE  LET new == [IdleCall EXCEPT !.at = at, !.what = what, !.name = n]
         IN  new \in Call /\ new.at = at /\ new.byDefault = FALSE
BY DEF IdleCall, Call, Names

\* A new client is for one of the clusters, and for a context by name it is
\* for that context.
LEMMA CreatableIsCluster ==
  ASSUME TypeOK, NEW n \in Names, NEW t \in Creatable(n)
  PROVE  t \in Clusters /\ t # None /\ (n \in Contexts => t = n)
BY ManagerAssumption DEF TypeOK, Creatable, Clusters, Names, ManagerAssumption

-----------------------------------------------------------------------------
(* One caller's step, as the properties see it.                            *)

\* The invariant holds at the start.
LEMMA InitIInv == Init => IInv
<1> SUFFICES ASSUME Init PROVE IInv
  OBVIOUS
<1>1. TypeOK
  BY IdleIsCall, ManagerAssumption DEF Init, TypeOK, Names, ManagerAssumption
<1>2. \A c \in Callers : calls[c] = IdleCall
  BY DEF Init
<1>3. PoolIsolated /\ LoopsOwned
  BY DEF Init, PoolIsolated, LoopsOwned, Names
<1>4. CallsIsolated /\ DefaultsKnown
  BY <1>2, IdleIsCall DEF CallsIsolated, DefaultsKnown
<1>5. LockHeld
  BY <1>2, IdleIsCall, ManagerAssumption DEF Init, LockHeld, ManagerAssumption
<1> QED
  BY <1>1, <1>3, <1>4, <1>5 DEF IInv

\* What one caller does to its own record: a call begins, or it moves on.
LEMMA OwnRecord ==
  ASSUME TypeOK, NEW c \in Callers, Ask(c) \/ Step(c)
  PROVE  /\ \A d \in Callers \ {c} : calls'[d] = calls[d]
         /\ calls'[c] \in Call
         /\ calls' \in [Callers -> Call]
<1>1. calls \in [Callers -> Call] /\ calls[c] \in Call /\ None \in Clusters \cup {None}
  BY DEF TypeOK
<1>2. \E call \in Call : Becomes(c, call)
  <2>1. CASE Ask(c)
    <3>1. \A what \in {"client", "indexer"} : [IdleCall EXCEPT !.at = "read", !.what = what] \in Call
      BY DEF IdleCall, Call, Names
    <3>2. \A what \in {"client", "indexer"}, n \in Names :
            [IdleCall EXCEPT !.at = "use", !.what = what, !.name = n] \in Call
      BY DEF IdleCall, Call, Names
    <3>3. \A n \in Names : [IdleCall EXCEPT !.at = "switch", !.name = n] \in Call
      BY DEF IdleCall, Call, Names
    <3>4. [IdleCall EXCEPT !.at = "close"] \in Call
      BY DEF IdleCall, Call, Names
    <3> QED
      BY <2>1, <3>1, <3>2, <3>3, <3>4 DEF Ask
  <2>2. CASE ReadCurrent(c)
    <3>1. currentCtx \in Names
      BY DEF TypeOK, Names
    <3>2. [calls[c] EXCEPT !.at = "use", !.name = currentCtx, !.byDefault = TRUE] \in Call
      BY <1>1, <3>1 DEF Call
    <3> QED
      BY <2>2, <3>2 DEF ReadCurrent
  <2>3. \A got \in Clusters \cup {None} :
          /\ [calls[c] EXCEPT !.at = "answer", !.got = got] \in Call
          /\ [calls[c] EXCEPT !.at = "start", !.got = got] \in Call
    BY <1>1, Moved
  <2>4. \A n \in Names : \A t \in Creatable(n) : t \in Clusters
    BY CreatableIsCluster
  <2>5. calls[c].name \in Names /\ calls[c].got \in Clusters \cup {None}
    BY <1>1, CallFields
  <2>6. \A n \in Names : clientPool[n] \in Clusters \cup {None}
                         /\ serviceIndexers[n] \in Clusters \cup {None}
    BY DEF TypeOK
  <2>7. CASE GetClientForContext(c)
    BY <2>3, <2>4, <2>5, <2>6, <2>7 DEF GetClientForContext, Answers
  <2>8. CASE FindIndexer(c)
    BY <2>3, <2>5, <2>6, <2>8 DEF FindIndexer, Answers
  <2>9. CASE BeginIndexer(c)
    BY <2>3, <2>4, <2>5, <2>6, <2>9 DEF BeginIndexer, Answers
  <2>10. CASE EndIndexer(c)
    BY <2>3, <2>5, <2>10 DEF EndIndexer, Answers
  <2>11. CASE SwitchContext(c) \/ EndClose(c) \/ Return(c)
    BY <2>11, IdleIsCall DEF SwitchContext, EndClose, Return
  <2>12. CASE BeginClose(c)
    <3>1. [calls[c] EXCEPT !.at = "stop"] \in Call
      BY <1>1 DEF Call
    <3> QED
      BY <2>12, <3>1 DEF BeginClose
  <2>13. CASE \E n \in Names : StopIndexer(c, n)
    <3>1. calls' = calls
      BY <2>13 DEF StopIndexer
    <3>2. calls' = [calls EXCEPT ![c] = calls[c]]
      BY <1>1, <3>1
    <3> QED
      BY <1>1, <3>2 DEF Becomes
  <2> QED
    BY <2>1, <2>2, <2>7, <2>8, <2>9, <2>10, <2>11, <2>12, <2>13 DEF Step
<1> QED
  BY <1>1, <1>2 DEF Becomes

\* Every step keeps the types.
LEMMA TypeStep == ASSUME TypeOK, [Next]_vars PROVE TypeOK'
<1>1. CASE UNCHANGED vars
  BY <1>1 DEF TypeOK, vars, manager
<1>2. CASE EditKubeconfig
  BY <1>2 DEF TypeOK, EditKubeconfig, manager
<1>3. ASSUME NEW c \in Callers, Ask(c) \/ Step(c) PROVE TypeOK'
  <2>1. calls' \in [Callers -> Call]
    BY <1>3, OwnRecord
  <2>2. calls[c] \in Call /\ calls[c].name \in Names /\ calls[c].got \in Clusters \cup {None}
    BY CallFields DEF TypeOK
  <2>3. \A n \in Names : \A t \in Creatable(n) : t \in Clusters
    BY CreatableIsCluster
  <2>4. CASE Ask(c)
    BY <2>1, <2>4 DEF Ask, TypeOK, manager
  <2>5. CASE ReadCurrent(c) \/ FindIndexer(c) \/ BeginClose(c) \/ Return(c)
    BY <2>1, <2>5 DEF ReadCurrent, FindIndexer, BeginClose, Return, TypeOK, manager
  <2>6. CASE GetClientForContext(c)
    BY <2>1, <2>2, <2>3, <2>6 DEF GetClientForContext, TypeOK
  <2>7. CASE BeginIndexer(c)
    BY <2>1, <2>2, <2>3, <2>7 DEF BeginIndexer, TypeOK
  <2>8. CASE EndIndexer(c)
    BY <2>1, <2>2, <2>8 DEF EndIndexer, TypeOK
  <2>9. CASE SwitchContext(c)
    BY <2>1, <2>2, <2>9 DEF SwitchContext, TypeOK
  <2>10. CASE EndClose(c)
    BY <2>1, <2>10 DEF EndClose, TypeOK
  <2>11. ASSUME NEW n \in Names, StopIndexer(c, n) PROVE TypeOK'
    BY <2>1, <2>11 DEF StopIndexer, TypeOK
  <2> QED
    BY <1>3, <2>4, <2>5, <2>6, <2>7, <2>8, <2>9, <2>10, <2>11 DEF Step
<1> QED
  BY <1>1, <1>2, <1>3 DEF Next

\* The variables have their types: what is current is always a context of the
\* kubeconfig the manager was made from.
THEOREM ManagerTypes == Spec => []TypeOK
<1>1. Init => TypeOK
  BY InitIInv DEF IInv
<1> QED
  BY <1>1, TypeStep, PTL DEF Spec
-----------------------------------------------------------------------------
(* The inductive invariant.                                                *)

\* A call that is answered keeps its name and tells what it has got.
LEMMA AnswerMoves ==
  ASSUME TypeOK, NEW c \in Callers, NEW got \in Clusters \cup {None}, Answers(c, got)
  PROVE  /\ calls'[c].at = "answer" /\ calls'[c].got = got
         /\ calls'[c].name = calls[c].name /\ calls'[c].what = calls[c].what
         /\ calls'[c].byDefault = calls[c].byDefault
<1>1. calls \in [Callers -> Call] /\ calls[c] \in Call
  BY DEF TypeOK
<1>2. calls'[c] = [calls[c] EXCEPT !.at = "answer", !.got = got]
  BY <1>1 DEF Answers, Becomes
<1> QED
  BY <1>1, <1>2 DEF Call

\* An indexer that starts keeps the name of its call.
LEMMA StartMoves ==
  ASSUME TypeOK, NEW c \in Callers, NEW got \in Clusters \cup {None},
         Becomes(c, [calls[c] EXCEPT !.at = "start", !.got = got])
  PROVE  /\ calls'[c].at = "start" /\ calls'[c].got = got
         /\ calls'[c].name = calls[c].name /\ calls'[c].what = calls[c].what
         /\ calls'[c].byDefault = calls[c].byDefault
<1>1. calls \in [Callers -> Call] /\ calls[c] \in Call
  BY DEF TypeOK
<1>2. calls'[c] = [calls[c] EXCEPT !.at = "start", !.got = got]
  BY <1>1 DEF Becomes
<1> QED
  BY <1>1, <1>2 DEF Call

\* The two ways BeginIndexer goes: Start of an indexer for a client, or an error.
LEMMA BeginIndexerGoes ==
  ASSUME TypeOK, PoolIsolated, NEW c \in Callers, BeginIndexer(c)
  PROVE  /\ calls[c].at = "use" /\ holder = None /\ serviceIndexers[calls[c].name] = None
         /\ UNCHANGED <<currentCtx, serviceIndexers, loops, fileCurrent>>
         /\ calls'[c].name = calls[c].name /\ calls'[c].byDefault = calls[c].byDefault
         /\ \/ /\ \E t \in Clusters :
                    /\ calls[c].name \in Contexts => t = calls[c].name
                    /\ clientPool' = [clientPool EXCEPT ![calls[c].name] = t]
                    /\ calls'[c].got = t
               /\ calls'[c].got # None
               /\ calls'[c].at = "start" /\ holder' = c
            \/ /\ calls'[c].at = "answer" /\ calls'[c].got = None
               /\ UNCHANGED <<clientPool, holder>>
<1> DEFINE n == calls[c].name
<1>1. /\ n \in Names /\ clientPool[n] \in Clusters \cup {None}
      /\ None \in Clusters \cup {None}
  BY CallFields DEF TypeOK
<1>2. /\ calls[c].at = "use" /\ holder = None /\ serviceIndexers[n] = None
      /\ UNCHANGED <<currentCtx, serviceIndexers, loops, fileCurrent>>
  BY DEF BeginIndexer, Free
<1>3. None \notin Clusters
  BY ManagerAssumption DEF ManagerAssumption, Clusters
<1>4. CASE /\ \E t \in (IF clientPool[n] # None THEN {clientPool[n]} ELSE Creatable(n)) :
                /\ clientPool' = [clientPool EXCEPT ![n] = t]
                /\ Becomes(c, [calls[c] EXCEPT !.at = "start", !.got = t])
           /\ holder' = c
  <2>1. PICK t \in (IF clientPool[n] # None THEN {clientPool[n]} ELSE Creatable(n)) :
          /\ clientPool' = [clientPool EXCEPT ![n] = t]
          /\ Becomes(c, [calls[c] EXCEPT !.at = "start", !.got = t])
    BY <1>4
  <2>2. t \in Clusters /\ (n \in Contexts => t = n)
    BY <1>1, CreatableIsCluster DEF PoolIsolated
  <2>3. /\ calls'[c].at = "start" /\ calls'[c].got = t /\ calls'[c].name = n
        /\ calls'[c].byDefault = calls[c].byDefault
    BY <2>1, <2>2, StartMoves
  <2> QED
    BY <1>2, <1>3, <1>4, <2>1, <2>2, <2>3
<1>5. CASE Answers(c, None) /\ UNCHANGED <<clientPool, holder>>
  BY <1>1, <1>2, <1>5, AnswerMoves
<1> QED
  BY <1>4, <1>5 DEF BeginIndexer

\* What the steps do to the record of their caller that get or keep nothing.
LEMMA OtherMoves ==
  ASSUME TypeOK, NEW c \in Callers
  PROVE  /\ Ask(c) => /\ calls[c].at = "idle"
                      /\ calls'[c].at \in {"read", "use", "switch", "close"}
                      /\ calls'[c].byDefault = FALSE
         /\ ReadCurrent(c) => /\ calls[c].at = "read" /\ calls'[c].at = "use"
                              /\ calls'[c].name = currentCtx /\ calls'[c].byDefault = TRUE
         /\ BeginClose(c) => calls[c].at = "close" /\ calls'[c].at = "stop"
         /\ Becomes(c, IdleCall) =>
              calls'[c].at = "idle" /\ calls'[c].byDefault = FALSE
<1>1. calls \in [Callers -> Call] /\ calls[c] \in Call
  BY DEF TypeOK
<1>2. ASSUME NEW call, Becomes(c, call) PROVE calls'[c] = call
  BY <1>1, <1>2 DEF Becomes
<1>3. Ask(c) => /\ calls[c].at = "idle"
                /\ calls'[c].at \in {"read", "use", "switch", "close"}
                /\ calls'[c].byDefault = FALSE
  BY <1>2 DEF Ask, IdleCall
<1>4. ReadCurrent(c) => /\ calls[c].at = "read" /\ calls'[c].at = "use"
                        /\ calls'[c].name = currentCtx /\ calls'[c].byDefault = TRUE
  <2>1. LET new == [calls[c] EXCEPT !.at = "use", !.name = currentCtx, !.byDefault = TRUE]
        IN  new.at = "use" /\ new.name = currentCtx /\ new.byDefault = TRUE
    BY <1>1 DEF Call
  <2> QED
    BY <1>2, <2>1 DEF ReadCurrent
<1>5. BeginClose(c) => calls[c].at = "close" /\ calls'[c].at = "stop"
  <2>1. [calls[c] EXCEPT !.at = "stop"].at = "stop"
    BY <1>1 DEF Call
  <2> QED
    BY <1>2, <2>1 DEF BeginClose
<1>6. Becomes(c, IdleCall) => calls'[c].at = "idle" /\ calls'[c].byDefault = FALSE
  BY <1>2, IdleIsCall
<1> QED
  BY <1>3, <1>4, <1>5, <1>6

\* What is kept, and what is got, under the name of a context is its own.
LEMMA IsolatedStep ==
  ASSUME IInv, NEW c \in Callers, Ask(c) \/ Step(c)
  PROVE  PoolIsolated' /\ CallsIsolated'
<1>1. TypeOK /\ PoolIsolated /\ CallsIsolated
  BY DEF IInv
<1>2. \A d \in Callers \ {c} : calls'[d] = calls[d]
  BY <1>1, OwnRecord
<1>3. /\ calls[c] \in Call /\ calls[c].name \in Names
      /\ calls[c].got \in Clusters \cup {None}
      /\ \A n \in Names : clientPool[n] \in Clusters \cup {None}
                          /\ serviceIndexers[n] \in Clusters \cup {None}
  BY <1>1, CallFields DEF TypeOK
<1>4. \A n \in Names : \A t \in Creatable(n) : t \in Clusters /\ (n \in Contexts => t = n)
  BY <1>1, CreatableIsCluster
<1>5. clientPool \in [Names -> Clusters \cup {None}]
      /\ serviceIndexers \in [Names -> Clusters \cup {None}] /\ Contexts \subseteq Names
  BY <1>1 DEF TypeOK, Names
<1>6. SUFFICES /\ PoolIsolated'
               /\ calls'[c].at \in {"start", "answer"} /\ calls'[c].name \in Contexts =>
                    calls'[c].got \in {calls'[c].name, None}
  BY <1>1, <1>2 DEF CallsIsolated
<1>7. CASE Ask(c) \/ ReadCurrent(c) \/ BeginClose(c) \/ SwitchContext(c) \/ Return(c)
  BY <1>1, <1>7, OtherMoves
  DEF Ask, ReadCurrent, BeginClose, SwitchContext, Return, manager, PoolIsolated
<1>8. CASE EndClose(c)
  BY <1>1, <1>5, <1>8, OtherMoves DEF EndClose, PoolIsolated
<1>9. CASE \E n \in Names : StopIndexer(c, n)
  BY <1>1, <1>9 DEF StopIndexer, PoolIsolated, CallsIsolated
<1>10. CASE GetClientForContext(c)
  BY <1>1, <1>3, <1>4, <1>5, <1>10, AnswerMoves DEF GetClientForContext, PoolIsolated
<1>11. CASE FindIndexer(c)
  BY <1>1, <1>3, <1>11, AnswerMoves DEF FindIndexer, PoolIsolated, manager
<1>12. CASE BeginIndexer(c)
  BY <1>1, <1>3, <1>5, <1>12, BeginIndexerGoes DEF PoolIsolated
<1>13. CASE EndIndexer(c)
  BY <1>1, <1>3, <1>5, <1>13, AnswerMoves DEF EndIndexer, PoolIsolated, CallsIsolated
<1> QED
  BY <1>7, <1>8, <1>9, <1>10, <1>11, <1>12, <1>13 DEF Step

\* The lock has one holder, and every loop one indexer in the map.
LEMMA LockStep ==
  ASSUME IInv, NEW c \in Callers, Ask(c) \/ Step(c)
  PROVE  LockHeld' /\ LoopsOwned'
<1>1. TypeOK /\ LockHeld /\ LoopsOwned
  BY DEF IInv
<1>2. \A d \in Callers \ {c} : calls'[d] = calls[d]
  BY <1>1, OwnRecord
<1>3. /\ calls[c] \in Call /\ calls[c].name \in Names
      /\ calls[c].got \in Clusters \cup {None}
      /\ \A n \in Names : clientPool[n] \in Clusters \cup {None}
                          /\ serviceIndexers[n] \in Clusters \cup {None}
  BY <1>1, CallFields DEF TypeOK
<1>4. \A n \in Names : \A t \in Creatable(n) : t \in Clusters /\ t # None
  BY <1>1, CreatableIsCluster
<1>5. /\ clientPool \in [Names -> Clusters \cup {None}]
      /\ serviceIndexers \in [Names -> Clusters \cup {None}]
      /\ loops \in [Names -> Nat] /\ None \notin Callers
      /\ \A d \in Callers : calls[d].name \in Names
  BY <1>1, CallFields, ManagerAssumption DEF TypeOK, ManagerAssumption
<1>6. CASE Ask(c) \/ ReadCurrent(c) \/ SwitchContext(c) \/ Return(c)
  <2>1. /\ calls[c].at \notin {"start", "stop"} /\ calls'[c].at \notin {"start", "stop"}
        /\ UNCHANGED <<holder, serviceIndexers, loops>>
    BY <1>1, <1>6, OtherMoves DEF Ask, ReadCurrent, SwitchContext, Return, manager
  <2> QED
    BY <1>1, <1>2, <2>1 DEF LockHeld, LoopsOwned
<1>7. CASE GetClientForContext(c) \/ FindIndexer(c)
  <2>1. /\ calls[c].at \notin {"start", "stop"} /\ calls'[c].at \notin {"start", "stop"}
        /\ UNCHANGED <<holder, serviceIndexers, loops>>
    BY <1>1, <1>3, <1>4, <1>7, AnswerMoves DEF GetClientForContext, FindIndexer, manager
  <2> QED
    BY <1>1, <1>2, <2>1 DEF LockHeld, LoopsOwned
<1>8. CASE BeginIndexer(c)
  <2>1. /\ calls[c].at = "use" /\ holder = None /\ serviceIndexers[calls[c].name] = None
        /\ calls'[c].name = calls[c].name /\ UNCHANGED <<serviceIndexers, loops>>
        /\ \/ calls'[c].at = "start" /\ calls'[c].got # None /\ holder' = c
           \/ calls'[c].at = "answer" /\ holder' = None
    BY <1>1, <1>8, BeginIndexerGoes DEF IInv
  <2> QED
    BY <1>1, <1>2, <1>5, <2>1 DEF LockHeld, LoopsOwned
<1>9. CASE EndIndexer(c)
  <2>1. /\ calls[c].at = "start" /\ calls'[c].at = "answer" /\ holder' = None
        /\ \/ /\ serviceIndexers' = [serviceIndexers EXCEPT ![calls[c].name] = calls[c].got]
              /\ loops' = [loops EXCEPT ![calls[c].name] = @ + 1]
           \/ UNCHANGED <<serviceIndexers, loops>>
    BY <1>1, <1>3, <1>9, AnswerMoves DEF EndIndexer
  <2>2. /\ holder = c /\ serviceIndexers[calls[c].name] = None /\ calls[c].got # None
        /\ \A d \in Callers \ {c} : calls[d].at \notin {"start", "stop"}
    BY <1>1, <2>1 DEF LockHeld
  <2>3. LockHeld'
    BY <1>2, <1>5, <2>1, <2>2 DEF LockHeld
  <2>4. loops[calls[c].name] = 0
        /\ \A n \in Names : \/ serviceIndexers[n] = None /\ loops[n] = 0
                            \/ serviceIndexers[n] # None /\ loops[n] = 1
    BY <1>1, <1>3, <2>1, <2>2 DEF LoopsOwned
  <2>5. \A n \in Names : \/ serviceIndexers'[n] = None /\ loops'[n] = 0
                         \/ serviceIndexers'[n] # None /\ loops'[n] = 1
    BY <1>3, <1>5, <2>1, <2>2, <2>4
  <2> QED
    BY <2>3, <2>5 DEF LoopsOwned
<1>10. CASE BeginClose(c)
  <2>1. /\ holder = None /\ holder' = c /\ calls[c].at = "close" /\ calls'[c].at = "stop"
        /\ UNCHANGED <<serviceIndexers, loops>>
    BY <1>1, <1>10, OtherMoves DEF BeginClose, Free, manager
  <2> QED
    BY <1>1, <1>2, <1>5, <2>1 DEF LockHeld, LoopsOwned
<1>11. ASSUME NEW n \in Names, StopIndexer(c, n) PROVE LockHeld' /\ LoopsOwned'
  <2>1. /\ calls[c].at = "stop" /\ serviceIndexers[n] # None /\ loops[n] > 0
        /\ loops' = [loops EXCEPT ![n] = @ - 1]
        /\ UNCHANGED <<serviceIndexers, holder, calls>>
    BY <1>11 DEF StopIndexer
  <2>2. LockHeld' /\ holder = c
    BY <1>1, <2>1 DEF LockHeld
  <2>3. loops'[n] = 0
    BY <1>1, <1>5, <2>1 DEF LoopsOwned
  <2> QED
    BY <1>1, <1>5, <2>1, <2>2, <2>3 DEF LoopsOwned
<1>12. CASE EndClose(c)
  <2>1. /\ calls[c].at = "stop" /\ calls'[c].at = "idle" /\ holder' = None /\ loops' = loops
        /\ \A n \in Names : serviceIndexers'[n] = None
        /\ \A n \in Names : serviceIndexers[n] # None => loops[n] = 0
    BY <1>1, <1>12, OtherMoves DEF EndClose
  <2>2. holder = c /\ \A d \in Callers \ {c} : calls[d].at \notin {"start", "stop"}
    BY <1>1, <2>1 DEF LockHeld
  <2>3. LockHeld'
    BY <1>2, <1>5, <2>1, <2>2 DEF LockHeld
  <2>4. \A n \in Names : loops[n] = 0
    BY <1>1, <2>1 DEF LoopsOwned
  <2> QED
    BY <2>1, <2>3, <2>4 DEF LoopsOwned
<1> QED
  BY <1>6, <1>7, <1>8, <1>9, <1>10, <1>11, <1>12 DEF Step

\* A name that was read from the manager stays what it was.
LEMMA DefaultsStep ==
  ASSUME IInv, NEW c \in Callers, Ask(c) \/ Step(c)
  PROVE  DefaultsKnown'
<1>1. TypeOK /\ DefaultsKnown
  BY DEF IInv
<1>2. \A d \in Callers \ {c} : calls'[d] = calls[d]
  BY <1>1, OwnRecord
<1>3. /\ calls[c] \in Call /\ calls[c].name \in Names
      /\ calls[c].got \in Clusters \cup {None} /\ currentCtx \in Contexts
      /\ \A n \in Names : clientPool[n] \in Clusters \cup {None}
                          /\ serviceIndexers[n] \in Clusters \cup {None}
  BY <1>1, CallFields DEF TypeOK
<1>4. \A n \in Names : \A t \in Creatable(n) : t \in Clusters
  BY <1>1, CreatableIsCluster
<1>5. CASE Ask(c) \/ ReadCurrent(c) \/ BeginClose(c) \/ SwitchContext(c) \/ Return(c) \/ EndClose(c)
  BY <1>1, <1>2, <1>3, <1>5, OtherMoves
  DEF SwitchContext, Return, EndClose, DefaultsKnown
<1>6. CASE \E n \in Names : StopIndexer(c, n)
  BY <1>1, <1>6 DEF StopIndexer, DefaultsKnown
<1>7. CASE GetClientForContext(c) \/ FindIndexer(c) \/ BeginIndexer(c) \/ EndIndexer(c)
  <2>1. /\ calls[c].at \in {"use", "start"} /\ calls'[c].name = calls[c].name
        /\ calls'[c].byDefault = calls[c].byDefault
    BY <1>1, <1>3, <1>4, <1>7, AnswerMoves, BeginIndexerGoes
    DEF GetClientForContext, FindIndexer, EndIndexer, IInv
  <2> QED
    BY <1>1, <1>2, <2>1 DEF DefaultsKnown
<1> QED
  BY <1>5, <1>6, <1>7 DEF Step

\* Every step keeps the invariant.
LEMMA IInvStep == ASSUME IInv, [Next]_vars PROVE IInv'
<1>1. TypeOK'
  BY TypeStep DEF IInv
<1>2. CASE UNCHANGED vars \/ EditKubeconfig
  <2>1. UNCHANGED <<currentCtx, clientPool, serviceIndexers, loops, holder, calls>>
    BY <1>2 DEF EditKubeconfig, vars, manager
  <2> QED
    BY <1>1, <2>1 DEF IInv, PoolIsolated, CallsIsolated, LockHeld, LoopsOwned, DefaultsKnown
<1>3. ASSUME NEW c \in Callers, Ask(c) \/ Step(c) PROVE IInv'
  BY <1>1, <1>3, IsolatedStep, LockStep, DefaultsStep DEF IInv
<1> QED
  BY <1>2, <1>3 DEF Next

\* IInv holds in every reachable state.
LEMMA Inductive == Spec => []IInv
BY InitIInv, IInvStep, PTL DEF Spec

-----------------------------------------------------------------------------
(* The theorems.                                                           *)

\* A caller that names a context never gets another context's client or
\* indexer, however many callers switch, create, close and fail around it.
THEOREM Isolation == Spec => []ContextIsolation
<1>1. IInv => ContextIsolation
  BY DEF IInv, CallsIsolated, ContextIsolation
<1> QED
  BY Inductive, <1>1, PTL

\* No watch loop is started twice for a name, lost or left behind by Close.
THEOREM NoLoopLost == Spec => []LoopsOwned
<1>1. IInv => LoopsOwned
  BY DEF IInv
<1> QED
  BY Inductive, <1>1, PTL

-----------------------------------------------------------------------------
(* The manager implements CurrentContext.                                  *)

\* A step of c leaves what the others have chosen as it was.
LEMMA ChosenByOthers ==
  ASSUME TypeOK, NEW c \in Callers, Ask(c) \/ Step(c)
  PROVE  /\ ChosenContext'[c] = ChosenContext[c] => UNCHANGED ChosenContext
         /\ ChosenContext' = [ChosenContext EXCEPT ![c] = ChosenContext'[c]]
<1>1. \A d \in Callers \ {c} : calls'[d] = calls[d]
  BY OwnRecord
<1>2. \A d \in Callers \ {c} : ChosenContext'[d] = ChosenContext[d]
  BY <1>1 DEF ChosenContext
<1>3. /\ ChosenContext = [d \in Callers |-> ChosenContext[d]]
      /\ ChosenContext' = [d \in Callers |-> ChosenContext'[d]]
  BY DEF ChosenContext
<1>4. \A f, g, h : f = [d \in Callers |-> h[d]] /\ (\A d \in Callers : g[d] = h[d])
                   /\ g = [d \in Callers |-> g[d]] => g = f
  OBVIOUS
<1> QED
  BY <1>2, <1>3

\* A call that moves on towards its answer keeps what it chose, or fails.
LEMMA ChosenKept ==
  ASSUME IInv, NEW c \in Callers,
         GetClientForContext(c) \/ FindIndexer(c) \/ BeginIndexer(c) \/ EndIndexer(c)
  PROVE  /\ ChosenContext'[c] \in {ChosenContext[c], None}
         /\ UNCHANGED currentCtx
<1>1. TypeOK /\ PoolIsolated
  BY DEF IInv
<1>2. Ask(c) \/ Step(c)
  BY DEF Step
<1>3. /\ calls[c] \in Call /\ calls[c].name \in Names
      /\ calls[c].got \in Clusters \cup {None}
      /\ \A n \in Names : clientPool[n] \in Clusters \cup {None}
                          /\ serviceIndexers[n] \in Clusters \cup {None}
  BY <1>1, CallFields DEF TypeOK
<1>4. \A n \in Names : \A t \in Creatable(n) : t \in Clusters
  BY <1>1, CreatableIsCluster
<1>5. /\ calls[c].at \in {"use", "start"} /\ calls'[c].at \in {"start", "answer"}
      /\ calls'[c].name = calls[c].name /\ calls'[c].byDefault = calls[c].byDefault
      /\ UNCHANGED currentCtx
  BY <1>1, <1>3, <1>4, AnswerMoves, BeginIndexerGoes
  DEF GetClientForContext, FindIndexer, EndIndexer, manager
<1>6. CallsIsolated' /\ DefaultsKnown
  BY <1>2, IsolatedStep DEF IInv
<1>7. calls'[c].at \in {"start", "answer"} /\ calls'[c].name \in Contexts =>
        calls'[c].got \in {calls'[c].name, None}
  BY <1>6 DEF CallsIsolated
<1>8. calls[c].byDefault => calls[c].name \in Contexts
  BY <1>5, <1>6 DEF DefaultsKnown
<1> QED
  BY <1>5, <1>7, <1>8 DEF ChosenContext

\* A step of one caller is a step of CurrentContext, or none.
LEMMA CallerRefines ==
  ASSUME IInv, NEW c \in Callers, Ask(c) \/ Step(c)
  PROVE  Abstract!Next \/ UNCHANGED <<currentCtx, ChosenContext>>
<1>1. TypeOK /\ calls[c] \in Call
  BY DEF IInv, TypeOK
<1>2. ChosenContext'[c] = ChosenContext[c] => UNCHANGED ChosenContext
  BY <1>1, ChosenByOthers
<1>3. ChosenContext' = [ChosenContext EXCEPT ![c] = ChosenContext'[c]]
  BY <1>1, ChosenByOthers
<1>4. CASE Ask(c) \/ BeginClose(c) \/ EndClose(c)
  <2>1. ChosenContext'[c] = None /\ ChosenContext[c] = None /\ UNCHANGED currentCtx
    BY <1>1, <1>4, OtherMoves DEF Ask, BeginClose, EndClose, manager, ChosenContext
  <2> QED
    BY <1>2, <2>1
<1>5. CASE \E n \in Names : StopIndexer(c, n)
  BY <1>5 DEF StopIndexer, ChosenContext
<1>6. CASE ReadCurrent(c)
  <2>1. ChosenContext'[c] = currentCtx /\ ChosenContext[c] = None /\ UNCHANGED currentCtx
    BY <1>1, <1>6, OtherMoves DEF ReadCurrent, manager, ChosenContext
  <2> QED
    BY <1>3, <2>1 DEF Abstract!Next, Abstract!Choose
<1>7. CASE GetClientForContext(c) \/ FindIndexer(c) \/ BeginIndexer(c) \/ EndIndexer(c)
  <2>1. ChosenContext'[c] \in {ChosenContext[c], None} /\ UNCHANGED currentCtx
    BY <1>7, ChosenKept
  <2> QED
    BY <1>2, <1>3, <2>1 DEF Abstract!Next, Abstract!Finish
<1>8. CASE SwitchContext(c)
  <2>1. ChosenContext'[c] = None /\ ChosenContext[c] = None
    BY <1>1, <1>8, OtherMoves DEF SwitchContext, ChosenContext
  <2>2. currentCtx' \in Contexts \/ UNCHANGED currentCtx
    BY <1>8 DEF SwitchContext
  <2> QED
    BY <1>2, <2>1, <2>2 DEF Abstract!Next, Abstract!Switch
<1>9. CASE Return(c)
  <2>1. ChosenContext'[c] = None /\ UNCHANGED currentCtx
    BY <1>1, <1>9, OtherMoves DEF Return, manager, ChosenContext
  <2> QED
    BY <1>3, <2>1 DEF Abstract!Next, Abstract!Finish
<1> QED
  BY <1>4, <1>5, <1>6, <1>7, <1>8, <1>9 DEF Step

\* The manager implements CurrentContext: a switch is atomic, and a call that
\* names no context works with one that was current during the call, through
\* a pooled client, a new one or an indexer alike.
THEOREM Refinement == Spec => ImplementsCurrentContext
<1>1. Init => Abstract!Init
  BY IdleIsCall, ManagerAssumption
  DEF Init, Abstract!Init, ChosenContext, ManagerAssumption
<1>2. ASSUME IInv, [Next]_vars
      PROVE  [Abstract!Next]_<<currentCtx, ChosenContext>>
  <2>1. CASE UNCHANGED vars \/ EditKubeconfig
    BY <2>1 DEF EditKubeconfig, vars, manager, ChosenContext
  <2> QED
    BY <1>2, <2>1, CallerRefines DEF Next
<1> QED
  BY <1>1, <1>2, Inductive, PTL DEF Spec, ImplementsCurrentContext, Abstract!Spec
=============================================================================
