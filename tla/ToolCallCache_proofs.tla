-------------------------- MODULE ToolCallCache_proofs --------------------------
(***************************************************************************)
(* The cache and the modifications that invalidate it, proved for any      *)
(* number of calls and keys and for a cache of any size.  The inductive    *)
(* invariant is IInv of ToolCallCache.                                     *)
(***************************************************************************)
EXTENDS ToolCallCache, FiniteSetTheorems, TLAPS

\* What a call record may hold besides its location.
LEMMA CallFields ==
  ASSUME NEW call \in Call
  PROVE  /\ call.ver \in 0..MaxWrites /\ call.left \in 0..2
         /\ call.crossed \in BOOLEAN
         /\ call.key \in Keys \cup {NoEntry} /\ call.tool \in Tools \cup {NoEntry}
BY DEF Call

\* The record of a call that does nothing.
LEMMA IdleIsCall == ASSUME CacheAssumption PROVE IdleCall \in Call
BY DEF IdleCall, Call, CacheAssumption

\* A modification empties the cache twice at most.
LEMMA InvalidationsRange == \A t : Invalidations(t) \in 0..2
BY DEF Invalidations

\* A record in Call stays one when its location moves.
LEMMA Relocated ==
  ASSUME NEW call \in Call,
         NEW at \in {"idle", "lookup", "drop", "hit", "execute", "store",
                     "modify", "clear"}
  PROVE  [call EXCEPT !.at = at] \in Call
BY DEF Call

\* The types hold at the start.
LEMMA InitTypes == Init => Types
BY CacheAssumption, IdleIsCall DEF Init, Types, CacheAssumption

\* Every step keeps the types.
LEMMA TypesStep == ASSUME Types, [Next]_vars PROVE Types'
<1> USE CacheAssumption DEF CacheAssumption, Types, Goes
<1>1. ASSUME NEW c \in Calls, NEW k \in Keys, AskQuery(c, k) PROVE Types'
  <2>1. [IdleCall EXCEPT !.at = "lookup", !.key = k] \in Call
    BY IdleIsCall DEF Call
  <2> QED
    BY <1>1, <2>1 DEF AskQuery
<1>2. ASSUME NEW c \in Calls, Lookup(c) PROVE Types'
  <2>1. \A at \in {"execute", "drop", "hit"} : [calls[c] EXCEPT !.at = at] \in Call
    BY Relocated
  <2> QED
    BY <1>2, <2>1 DEF Lookup
<1>3. ASSUME NEW c \in Calls, DropExpired(c) PROVE Types'
  <2>1. [calls[c] EXCEPT !.at = "execute"] \in Call
    BY Relocated
  <2> QED
    BY <1>3, <2>1 DEF DropExpired, Delete
<1>4. ASSUME NEW c \in Calls, AnswerHit(c) PROVE Types'
  BY <1>4, IdleIsCall DEF AnswerHit
<1>5. ASSUME NEW c \in Calls, ExecuteQuery(c) PROVE Types'
  <2>1. [calls[c] EXCEPT !.at = "store", !.ver = version] \in Call
    BY DEF Call
  <2> QED
    BY <1>5, <2>1, IdleIsCall DEF ExecuteQuery
<1>6. ASSUME NEW c \in Calls, Store(c) PROVE Types'
  <2>1. [ver |-> calls[c].ver, crossed |-> calls[c].crossed] \in Entry
    BY CallFields DEF Entry
  <2>2. calls' \in [Calls -> Call]
    BY <1>6, IdleIsCall DEF Store
  <2>3. entries' \in [Keys -> Entry \cup {NoEntry}]
    BY <1>6, <2>1 DEF Store
  <2> QED
    BY <1>6, <2>2, <2>3 DEF Store
<1>7. ASSUME NEW c \in Calls, NEW t \in Tools, AskModification(c, t) PROVE Types'
  <2>1. [IdleCall EXCEPT !.at = "modify", !.tool = t] \in Call
    BY IdleIsCall DEF Call
  <2> QED
    BY <1>7, <2>1 DEF AskModification
<1>8. ASSUME NEW c \in Calls, ExecuteModification(c) PROVE Types'
  <2>1. ASSUME NEW v \in 0..MaxWrites
        PROVE  [calls[c] EXCEPT !.at = "clear", !.ver = v,
                                !.left = Invalidations(calls[c].tool)] \in Call
    <3>1. Invalidations(calls[c].tool) \in 0..2
      BY InvalidationsRange
    <3> QED
      BY <3>1 DEF Call
  <2>2. version' \in 0..MaxWrites /\ acked' = acked /\ entries' = entries
    BY <1>8 DEF ExecuteModification
  <2>3. calls' \in [Calls -> Call]
    BY <1>8, <2>1, <2>2, IdleIsCall DEF ExecuteModification
  <2> QED
    BY <2>2, <2>3
<1>9. ASSUME NEW c \in Calls, Invalidate(c) PROVE Types'
  <2>1. [calls[c] EXCEPT !.left = @ - 1] \in Call
    BY <1>9 DEF Invalidate, Call
  <2>2. \A d \in Calls : Crossed(calls[d]) \in Call
    BY DEF Crossed, Call
  <2>3. calls' \in [Calls -> Call]
    BY <1>9, <2>1, <2>2 DEF Invalidate
  <2> QED
    BY <1>9, <2>3 DEF Invalidate, Delete
<1>10. ASSUME NEW c \in Calls, Acknowledge(c) PROVE Types'
  <2>1. acked' \in 0..MaxWrites
    BY <1>10, CallFields DEF Acknowledge
  <2>2. calls' \in [Calls -> Call]
    BY <1>10, IdleIsCall DEF Acknowledge
  <2> QED
    BY <1>10, <2>1, <2>2 DEF Acknowledge
<1>11. CASE Expire
  BY <1>11 DEF Expire
<1>12. CASE Cleanup
  BY <1>12 DEF Cleanup, Delete
<1>13. CASE UNCHANGED vars
  BY <1>13 DEF vars
<1> QED
  BY <1>1, <1>2, <1>3, <1>4, <1>5, <1>6, <1>7, <1>8, <1>9, <1>10, <1>11,
     <1>12, <1>13 DEF Next

-----------------------------------------------------------------------------
(* The inductive invariant.                                                *)

\* The inductive invariant holds at the start.
LEMMA InitIInv == Init => IInv
<1> SUFFICES ASSUME Init PROVE IInv
  OBVIOUS
<1>1. Types
  BY InitTypes
<1>2. Present = {} /\ \A c \in Calls : calls[c] = IdleCall
  BY DEF Init, Present
<1>3. NothingAhead /\ ToolKnown /\ \A c \in Calls : ~Cleared(c)
  BY <1>2 DEF Init, NothingAhead, ToolKnown, Cleared, IdleCall
<1>4. NothingBefore(acked)
  BY <1>2 DEF NothingBefore, IdleCall
<1> QED
  BY <1>1, <1>3, <1>4 DEF IInv

\* What a step of c other than an invalidation does to the calls.
LEMMA CallMoves ==
  ASSUME Types, NEW c \in Calls,
         \/ \E k \in Keys : AskQuery(c, k)
         \/ Lookup(c) \/ DropExpired(c) \/ AnswerHit(c)
         \/ ExecuteQuery(c) \/ Store(c)
         \/ \E t \in Tools : AskModification(c, t)
         \/ ExecuteModification(c) \/ Acknowledge(c)
  PROVE  /\ \A d \in Calls : d # c => calls'[d] = calls[d]
         /\ calls'[c].ver \in {calls[c].ver, 0, version'}
         /\ calls'[c].at = "store" => ExecuteQuery(c) /\ calls'[c].ver = version
         /\ calls'[c].at \in {"modify", "clear"} =>
              \/ calls'[c].tool \in Tools
              \/ calls[c].at = "modify" /\ calls'[c].tool = calls[c].tool
         /\ calls'[c].at = "clear" =>
              calls'[c].left = Invalidations(calls'[c].tool)
<1> DEFINE Fine(new) ==
      /\ new.ver \in {calls[c].ver, 0, version'}
      /\ new.at = "store" => ExecuteQuery(c) /\ new.ver = version
      /\ new.at \in {"modify", "clear"} =>
           \/ new.tool \in Tools
           \/ calls[c].at = "modify" /\ new.tool = calls[c].tool
      /\ new.at = "clear" => new.left = Invalidations(new.tool)
<1>1. calls \in [Calls -> Call] /\ calls[c] \in Call
  BY DEF Types
<1>2. Fine(IdleCall)
  BY DEF IdleCall
<1>3. ASSUME NEW at \in {"lookup", "drop", "hit", "execute"}
      PROVE  Fine([calls[c] EXCEPT !.at = at])
  BY <1>1 DEF Call
<1>4. ASSUME NEW k \in Keys PROVE Fine([IdleCall EXCEPT !.at = "lookup", !.key = k])
  BY DEF IdleCall
<1>5. ASSUME NEW t \in Tools PROVE Fine([IdleCall EXCEPT !.at = "modify", !.tool = t])
  BY DEF IdleCall
<1>6. ASSUME ExecuteQuery(c)
      PROVE  Fine([calls[c] EXCEPT !.at = "store", !.ver = version])
  <2>1. version' = version
    BY <1>6 DEF ExecuteQuery
  <2> QED
    BY <1>1, <1>6, <2>1 DEF Call
<1>7. ASSUME calls[c].at = "modify"
      PROVE  Fine([calls[c] EXCEPT !.at = "clear", !.ver = version',
                                   !.left = Invalidations(calls[c].tool)])
  BY <1>1, <1>7 DEF Call
<1>8. \E new : Fine(new) /\ calls' = [calls EXCEPT ![c] = new]
  <2> HIDE DEF Fine
  <2>1. CASE \E k \in Keys : AskQuery(c, k)
    BY <1>4, <2>1 DEF AskQuery, Goes
  <2>2. CASE Lookup(c)
    BY <1>3, <2>2 DEF Lookup, Goes
  <2>3. CASE DropExpired(c)
    BY <1>3, <2>3 DEF DropExpired, Goes
  <2>4. CASE AnswerHit(c) \/ Store(c) \/ Acknowledge(c)
    BY <1>2, <2>4 DEF AnswerHit, Store, Acknowledge, Goes
  <2>5. CASE ExecuteQuery(c)
    <3>1. \/ calls' = [calls EXCEPT ![c] = IdleCall]
          \/ calls' = [calls EXCEPT ![c] =
                         [calls[c] EXCEPT !.at = "store", !.ver = version]]
      BY <2>5 DEF ExecuteQuery, Goes
    <3> QED
      BY <1>2, <1>6, <2>5, <3>1
  <2>6. CASE \E t \in Tools : AskModification(c, t)
    BY <1>5, <2>6 DEF AskModification, Goes
  <2>7. CASE ExecuteModification(c)
    BY <1>2, <1>7, <2>7 DEF ExecuteModification, Goes
  <2> QED
    BY <2>1, <2>2, <2>3, <2>4, <2>5, <2>6, <2>7
<1> QED
  BY <1>1, <1>8

\* No step reads or acknowledges a version the cluster has not had.
LEMMA NothingAheadStep ==
  ASSUME Types, NothingAhead, [Next]_vars PROVE NothingAhead'
<1> USE CacheAssumption DEF CacheAssumption, NothingAhead, Types
<1>1. /\ version \in Nat /\ acked \in Nat
      /\ \A c \in Calls : calls[c] \in Call /\ calls[c].ver \in Nat
  BY CallFields
<1>2. version' \in Nat /\ version <= version'
  <2>1. version' = version \/ version' = version + 1
    BY DEF Next, AskQuery, Lookup, DropExpired, AnswerHit, ExecuteQuery,
           Store, AskModification, ExecuteModification, Invalidate,
           Acknowledge, Expire, Cleanup, vars
  <2> QED
    BY <1>1, <2>1
<1>3. acked' <= version'
  <2>1. acked' = acked \/ \E c \in Calls : acked' = calls[c].ver
    BY DEF Next, AskQuery, Lookup, DropExpired, AnswerHit, ExecuteQuery,
           Store, AskModification, ExecuteModification, Invalidate,
           Acknowledge, Expire, Cleanup, vars
  <2> QED
    BY <1>1, <1>2, <2>1
<1>4. ASSUME NEW d \in Calls PROVE calls'[d].ver <= version'
  <2>1. ASSUME NEW c \in Calls, Invalidate(c)
        PROVE  calls'[d].ver = calls[d].ver
    BY <1>1, <2>1 DEF Invalidate, Crossed, Call
  <2>2. ASSUME NEW c \in Calls,
               \/ \E k \in Keys : AskQuery(c, k)
               \/ Lookup(c) \/ DropExpired(c) \/ AnswerHit(c)
               \/ ExecuteQuery(c) \/ Store(c)
               \/ \E t \in Tools : AskModification(c, t)
               \/ ExecuteModification(c) \/ Acknowledge(c)
        PROVE  calls'[d].ver <= version'
    <3>1. /\ d # c => calls'[d] = calls[d]
          /\ calls'[c].ver \in {calls[c].ver, 0, version'}
      BY <2>2, CallMoves
    <3> QED
      BY <1>1, <1>2, <3>1
  <2>3. CASE Expire \/ Cleanup \/ UNCHANGED vars
    BY <1>1, <1>2, <2>3 DEF Expire, Cleanup, vars
  <2>4. ASSUME NEW c \in Calls, Invalidate(c)
        PROVE  calls'[d].ver <= version'
    BY <1>1, <1>2, <2>1, <2>4
  <2> QED
    BY <2>2, <2>3, <2>4 DEF Next
<1> QED
  BY <1>3, <1>4

\* No step forgets the tool of a modification under way.
LEMMA ToolKnownStep ==
  ASSUME Types, ToolKnown, [Next]_vars PROVE ToolKnown'
<1>1. ASSUME NEW c \in Calls,
             \/ \E k \in Keys : AskQuery(c, k)
             \/ Lookup(c) \/ DropExpired(c) \/ AnswerHit(c)
             \/ ExecuteQuery(c) \/ Store(c)
             \/ \E t \in Tools : AskModification(c, t)
             \/ ExecuteModification(c) \/ Acknowledge(c)
      PROVE  ToolKnown'
  BY <1>1, CallMoves DEF ToolKnown
<1>2. ASSUME NEW c \in Calls, Invalidate(c) PROVE ToolKnown'
  BY <1>2 DEF Invalidate, Crossed, Call, Types, ToolKnown
<1>3. CASE Expire \/ Cleanup \/ UNCHANGED vars
  BY <1>3 DEF Expire, Cleanup, vars, ToolKnown
<1> QED
  BY <1>1, <1>2, <1>3 DEF Next

\* An entry that is there after a deletion was there before.
LEMMA DeleteKeeps ==
  ASSUME NEW K, Delete(K), NEW k \in Present'
  PROVE  k \in Present /\ entries'[k] = entries[k]
BY DEF Delete, Present

\* An invalidation leaves nothing behind, whatever the version.
LEMMA InvalidateEmpties ==
  ASSUME Types, NEW c \in Calls, Invalidate(c), NEW v
  PROVE  NothingBefore(v)'
<1>1. Present' = {}
  BY DEF Invalidate, Delete, Present
<1>2. ASSUME NEW d \in Calls, calls'[d].at = "store" PROVE calls'[d].crossed
  BY <1>2 DEF Invalidate, Crossed, Types, Call
<1> QED
  BY <1>1, <1>2 DEF NothingBefore

\* Once nothing is left that was read before v, nothing comes back: a query
\* that executes from now on reads v or a later version.
LEMMA NothingComesBack ==
  ASSUME Types, [Next]_vars, NEW v \in Nat, v <= version, NothingBefore(v)
  PROVE  NothingBefore(v)'
<1> USE DEF NothingBefore, Types, Goes, IdleCall
<1>1. ASSUME NEW c \in Calls,
             \/ \E k \in Keys : AskQuery(c, k)
             \/ Lookup(c) \/ AnswerHit(c)
             \/ \E t \in Tools : AskModification(c, t)
             \/ ExecuteModification(c) \/ Acknowledge(c)
      PROVE  NothingBefore(v)'
  <2>1. entries' = entries /\ Present' = Present
    BY <1>1 DEF AskQuery, Lookup, AnswerHit, AskModification,
                ExecuteModification, Acknowledge, Present
  <2>2. \A d \in Calls : calls'[d].at = "store" => calls'[d] = calls[d]
    <3>1. ~ExecuteQuery(c)
      BY <1>1 DEF AskQuery, Lookup, AnswerHit, AskModification,
                  ExecuteModification, Acknowledge, ExecuteQuery
    <3> QED
      BY <1>1, <3>1, CallMoves
  <2> QED
    BY <2>1, <2>2
<1>2. ASSUME NEW c \in Calls, DropExpired(c) PROVE NothingBefore(v)'
  <2>1. \A d \in Calls : calls'[d].at = "store" => calls'[d] = calls[d]
    BY <1>2 DEF DropExpired, Call
  <2>2. \A k \in Present' : k \in Present /\ entries'[k] = entries[k]
    BY <1>2, DeleteKeeps DEF DropExpired
  <2> QED
    BY <2>1, <2>2
<1>3. ASSUME NEW c \in Calls, ExecuteQuery(c) PROVE NothingBefore(v)'
  <2>1. entries' = entries /\ Present' = Present
    BY <1>3 DEF ExecuteQuery, Present
  <2>2. \A d \in Calls : calls'[d].at = "store" =>
           calls'[d] = calls[d] \/ calls'[d].ver = version
    BY <1>3, CallMoves
  <2>3. version \in Nat /\ ~(version < v)
    OBVIOUS
  <2> QED
    BY <2>1, <2>2, <2>3
<1>4. ASSUME NEW c \in Calls, Store(c) PROVE NothingBefore(v)'
  <2>1. \A d \in Calls : calls'[d].at = "store" => calls'[d] = calls[d]
    BY <1>4 DEF Store
  <2>2. calls[c].at = "store"
    BY <1>4 DEF Store
  <2>3. \A k \in Present' : \/ k \in Present /\ entries'[k] = entries[k]
                            \/ /\ entries'[k].ver = calls[c].ver
                               /\ entries'[k].crossed = calls[c].crossed
    BY <1>4 DEF Store, Present
  <2> QED
    BY <2>1, <2>2, <2>3
<1>5. ASSUME NEW c \in Calls, Invalidate(c) PROVE NothingBefore(v)'
  BY <1>5, InvalidateEmpties
<1>6. CASE Expire \/ UNCHANGED vars
  BY <1>6 DEF Expire, vars, Present
<1>7. CASE Cleanup
  <2>1. \A k \in Present' : k \in Present /\ entries'[k] = entries[k]
    BY <1>7, DeleteKeeps DEF Cleanup
  <2> QED
    BY <1>7, <2>1 DEF Cleanup
<1> QED
  BY <1>1, <1>2, <1>3, <1>4, <1>5, <1>6, <1>7 DEF Next

\* Where acked and the set of modifications that have cleared come from.
LEMMA AckedComesFrom ==
  ASSUME Types, ToolKnown, [Next]_vars, \A t \in Tools : Invalidations(t) > 0
  PROVE  acked' = acked \/ \E c \in Calls : Cleared(c) /\ acked' = calls[c].ver
<1>1. ASSUME NEW c \in Calls, Acknowledge(c)
      PROVE  Cleared(c) /\ acked' \in {acked, calls[c].ver}
  <2>1. calls[c].tool \in Tools /\ calls[c].left = 0 /\ calls[c].at = "clear"
    BY <1>1 DEF Acknowledge, Goes, ToolKnown
  <2> QED
    BY <1>1, <2>1 DEF Acknowledge, Cleared
<1> QED
  BY <1>1 DEF Next, AskQuery, Lookup, DropExpired, AnswerHit, ExecuteQuery,
              Store, AskModification, ExecuteModification, Invalidate,
              Expire, Cleanup, vars

\* A modification that has cleared had done so before, or does so now.
LEMMA ClearedComesFrom ==
  ASSUME Types, [Next]_vars, NEW c \in Calls, Cleared(c)'
  PROVE  Invalidate(c) \/ (Cleared(c) /\ calls'[c].ver = calls[c].ver)
<1>1. CASE calls'[c] = calls[c]
  BY <1>1 DEF Cleared
<1>2. ASSUME NEW d \in Calls,
             \/ \E k \in Keys : AskQuery(d, k)
             \/ Lookup(d) \/ DropExpired(d) \/ AnswerHit(d)
             \/ ExecuteQuery(d) \/ Store(d)
             \/ \E t \in Tools : AskModification(d, t)
             \/ ExecuteModification(d) \/ Acknowledge(d)
      PROVE  calls'[c] = calls[c]
  <2>1. CASE d # c
    BY <1>2, <2>1, CallMoves
  <2>2. CASE d = c
    <3>1. calls'[c].at = "clear" =>
            calls'[c].left = Invalidations(calls'[c].tool)
      BY <1>2, <2>2, CallMoves
    <3>2. Invalidations(calls'[c].tool) \in Int
      BY InvalidationsRange
    <3> QED
      BY <3>1, <3>2 DEF Cleared
  <2> QED
    BY <2>1, <2>2
<1>3. ASSUME NEW d \in Calls, Invalidate(d), d # c
      PROVE  Cleared(c) /\ calls'[c].ver = calls[c].ver
  <2>1. calls'[c] = Crossed(calls[c])
    BY <1>3 DEF Invalidate
  <2> QED
    BY <2>1 DEF Crossed, Call, Types, Cleared
<1>4. CASE Expire \/ Cleanup \/ UNCHANGED vars
  BY <1>1, <1>4 DEF Expire, Cleanup, vars
<1> QED
  BY <1>1, <1>2, <1>3, <1>4 DEF Next

\* Every step keeps the inductive invariant.
LEMMA IInvStep ==
  ASSUME \A t \in Tools : Invalidations(t) > 0, IInv, [Next]_vars
  PROVE  IInv'
<1> USE DEF IInv
<1>1. Types' /\ NothingAhead' /\ ToolKnown'
  BY TypesStep, NothingAheadStep, ToolKnownStep
<1>2. /\ acked \in Nat /\ acked <= version
      /\ \A c \in Calls : calls[c].ver \in Nat /\ calls[c].ver <= version
  BY CacheAssumption, CallFields DEF CacheAssumption, Types, NothingAhead
<1>3. NothingBefore(acked)'
  <2>1. CASE acked' = acked
    <3>1. ASSUME NEW v \in Nat, v = acked PROVE NothingBefore(v)'
      BY <1>2, <3>1, NothingComesBack
    <3> QED
      BY <1>2, <2>1, <3>1 DEF NothingBefore
  <2>2. ASSUME NEW c \in Calls, Cleared(c), acked' = calls[c].ver
        PROVE  NothingBefore(acked)'
    <3>1. ASSUME NEW v \in Nat, v = calls[c].ver PROVE NothingBefore(v)'
      BY <1>2, <2>2, <3>1, NothingComesBack
    <3> QED
      BY <1>2, <2>2, <3>1 DEF NothingBefore
  <2> QED
    BY <2>1, <2>2, AckedComesFrom
<1>4. ASSUME NEW c \in Calls, Cleared(c)' PROVE NothingBefore(calls[c].ver)'
  <2>1. CASE Invalidate(c)
    <3>1. \A v : NothingBefore(v)'
      BY <2>1, InvalidateEmpties
    <3> QED
      BY <3>1 DEF NothingBefore
  <2>2. CASE Cleared(c) /\ calls'[c].ver = calls[c].ver
    <3>1. ASSUME NEW v \in Nat, v = calls[c].ver PROVE NothingBefore(v)'
      BY <1>2, <2>2, <3>1, NothingComesBack
    <3> QED
      BY <1>2, <2>2, <3>1 DEF NothingBefore
  <2> QED
    BY <1>4, <2>1, <2>2, ClearedComesFrom
<1> QED
  BY <1>1, <1>3, <1>4

-----------------------------------------------------------------------------
(* The order of the entries and their number.                              *)

\* What OrderOK says of a relation R on a set P.
WellOrders(R, P) ==
  /\ R \subseteq P \X P
  /\ \A j, k \in P : <<j, k>> \in R => <<k, j>> \notin R
  /\ \A K \in (SUBSET P) \ {{}} : \E k \in K : \A j \in K \ {k} : <<k, j>> \in R

LEMMA OrderIs ==
  OrderOK <=> WellOrders(older, Present) /\ expired \subseteq Present
BY DEF OrderOK, WellOrders, OldestOf

LEMMA OrderIsNext ==
  OrderOK' <=> WellOrders(older', Present') /\ expired' \subseteq Present'
BY DEF OrderOK, WellOrders, OldestOf

\* What is left of the entries is ordered as it was.
LEMMA OrderOfSome ==
  ASSUME NEW R, NEW P, WellOrders(R, P), NEW Q \in SUBSET P
  PROVE  WellOrders(R \cap (Q \X Q), Q)
BY DEF WellOrders

\* A new entry is the youngest.
LEMMA OrderOfMore ==
  ASSUME NEW R, NEW Q, WellOrders(R, Q), NEW k, k \notin Q
  PROVE  WellOrders(R \cup (Q \X {k}), Q \cup {k})
<1> DEFINE P == Q \cup {k}
           S == R \cup (Q \X {k})
<1>1. S \subseteq P \X P
  BY DEF WellOrders
<1>2. ASSUME NEW i \in P, NEW j \in P, <<i, j>> \in S PROVE <<j, i>> \notin S
  <2>1. <<i, j>> \in R => i \in Q /\ j \in Q /\ <<j, i>> \notin R
    BY DEF WellOrders
  <2>2. <<j, i>> \in R => i \in Q /\ j \in Q /\ <<i, j>> \notin R
    BY DEF WellOrders
  <2> QED
    BY <1>2, <2>1, <2>2
<1>3. ASSUME NEW K \in SUBSET P, K # {}
      PROVE  \E m \in K : \A j \in K \ {m} : <<m, j>> \in S
  <2>1. CASE K \cap Q = {}
    <3>1. K = {k}
      BY <1>3, <2>1
    <3> QED
      BY <3>1
  <2>2. CASE K \cap Q # {}
    <3>1. PICK m \in K \cap Q : \A j \in (K \cap Q) \ {m} : <<m, j>> \in R
      BY <2>2 DEF WellOrders
    <3>2. \A j \in K \ {m} : <<m, j>> \in S
      BY <3>1
    <3> QED
      BY <3>1, <3>2
  <2> QED
    BY <2>1, <2>2
<1> QED
  BY <1>1, <1>2, <1>3 DEF WellOrders

\* An entry is not the mark of none.
LEMMA EntryIsOne == ASSUME NEW v \in Entry PROVE v # NoEntry
BY NoEntryAssumption DEF NoEntryAssumption, Entry

\* Entries leave: the others stay in order, and they are fewer.
LEMMA DeleteInOrder ==
  ASSUME OrderOK, IsFiniteSet(Present), SizeBounded, NEW K, Delete(K)
  PROVE  OrderOK' /\ IsFiniteSet(Present') /\ Cardinality(Present') <= MaxSize
<1>1. Present' = Present \ K
  BY DEF Delete, Present
<1>2. OrderOK'
  BY <1>1, OrderIs, OrderIsNext, OrderOfSome DEF Delete
<1>3. /\ IsFiniteSet(Present') /\ Cardinality(Present') <= Cardinality(Present)
      /\ Cardinality(Present) \in Nat /\ Cardinality(Present') \in Nat
  BY <1>1, FS_Subset, FS_CardinalityType
<1> QED
  BY <1>2, <1>3, CacheAssumption DEF SizeBounded, CacheAssumption

\* An entry is stored: where the map is full its oldest entry is found and
\* goes, so the map does not grow beyond its size.
LEMMA StoreInOrder ==
  ASSUME SizeInv, NEW c \in Calls, Store(c)
  PROVE  OrderOK' /\ IsFiniteSet(Present') /\ Cardinality(Present') <= MaxSize
<1> DEFINE k == calls[c].key
           victims == IF Cardinality(Present) >= MaxSize
                      THEN {o \in Present : OldestOf(o, Present)} ELSE {}
           rest == Present \ (victims \cup {k})
<1>1. /\ calls[c].at = "store"
      /\ entries' = [o \in Keys |->
           IF o = k THEN [ver |-> calls[c].ver, crossed |-> calls[c].crossed]
           ELSE IF o \in victims THEN NoEntry ELSE entries[o]]
      /\ older' = (older \cap (rest \X rest)) \cup (rest \X {k})
      /\ expired' = expired \cap rest
  BY DEF Store, Goes
<1>2. k \in Keys /\ [ver |-> calls[c].ver, crossed |-> calls[c].crossed] # NoEntry
  <2>1. [ver |-> calls[c].ver, crossed |-> calls[c].crossed] \in Entry
    BY CallFields DEF SizeInv, TypeOK, Types, Entry
  <2> QED
    BY <1>1, <2>1, EntryIsOne DEF SizeInv, KeyKnown
<1>3. rest \in SUBSET Present /\ k \notin rest
  OBVIOUS
<1>4. Present' = rest \cup {k}
  BY <1>1, <1>2 DEF Present
<1>5. OrderOK'
  <2>1. WellOrders(older \cap (rest \X rest), rest)
    BY <1>3, OrderIs, OrderOfSome DEF SizeInv, TypeOK
  <2>2. WellOrders(older', Present')
    <3> HIDE DEF rest
    <3> QED
      BY <2>1, <1>1, <1>3, <1>4, OrderOfMore
  <2> QED
    BY <2>2, <1>1, <1>4, OrderIsNext
<1>6. IsFiniteSet(Present) /\ Cardinality(Present) \in Nat /\ Cardinality(Present) <= MaxSize
  BY FS_CardinalityType DEF SizeInv, SizeBounded
<1>7. IsFiniteSet(rest) /\ Cardinality(rest) \in Nat /\ Cardinality(rest) < MaxSize
  <2>1. /\ IsFiniteSet(rest) /\ Cardinality(rest) \in Nat
        /\ Cardinality(rest) <= Cardinality(Present)
    BY <1>3, <1>6, FS_Subset, FS_CardinalityType
  <2>2. CASE Cardinality(Present) < MaxSize
    BY <2>1, <2>2, <1>6, CacheAssumption DEF CacheAssumption
  <2>3. CASE Cardinality(Present) >= MaxSize
    <3>1. Present # {}
      BY <2>3, FS_EmptySet, CacheAssumption DEF CacheAssumption
    <3>2. PICK v \in Present : OldestOf(v, Present)
      BY <3>1 DEF SizeInv, TypeOK, OrderOK
    <3>3. rest \subseteq Present \ {v}
      BY <2>3, <3>2
    <3>4. /\ IsFiniteSet(Present \ {v})
          /\ Cardinality(Present \ {v}) = Cardinality(Present) - 1
      BY <3>2, <1>6, FS_RemoveElement
    <3>5. Cardinality(rest) <= Cardinality(Present \ {v})
      BY <3>3, <3>4, FS_Subset
    <3> QED
      BY <3>4, <3>5, <2>1, <1>6, CacheAssumption DEF CacheAssumption
  <2> QED
    BY <2>2, <2>3, <1>6, CacheAssumption DEF CacheAssumption
<1> HIDE DEF rest
<1>8. IsFiniteSet(rest \cup {k}) /\ Cardinality(rest \cup {k}) = Cardinality(rest) + 1
  BY <1>3, <1>7, FS_AddElement
<1> QED
  BY <1>4, <1>5, <1>7, <1>8, CacheAssumption DEF CacheAssumption

\* No step forgets the key of a query under way.
LEMMA KeyKnownStep ==
  ASSUME Types, KeyKnown, [Next]_vars PROVE KeyKnown'
<1> DEFINE Under(call) == call.at \in {"lookup", "drop", "hit", "execute", "store"}
           Knows(call) == Under(call) => call.key \in Keys
<1>1. /\ calls \in [Calls -> Call] /\ \A c \in Calls : calls[c] \in Call /\ Knows(calls[c])
  BY DEF Types, KeyKnown
<1>2. Knows(IdleCall) /\ \A k \in Keys : Knows([IdleCall EXCEPT !.at = "lookup", !.key = k])
  BY DEF IdleCall
<1>3. \A t : Knows([IdleCall EXCEPT !.at = "modify", !.tool = t])
  BY DEF IdleCall
<1>4. ASSUME NEW c \in Calls, Under(calls[c]), NEW v
      PROVE  /\ \A at : Knows([calls[c] EXCEPT !.at = at])
             /\ Knows([calls[c] EXCEPT !.at = "store", !.ver = v])
  BY <1>1, <1>4 DEF Call
<1>5. ASSUME NEW c \in Calls, NEW v, NEW n
      PROVE  Knows([calls[c] EXCEPT !.at = "clear", !.ver = v, !.left = n])
  BY <1>1 DEF Call
<1>6. ASSUME NEW c \in Calls, NEW new, Knows(new), calls' = [calls EXCEPT ![c] = new]
      PROVE  KeyKnown'
  BY <1>1, <1>6 DEF KeyKnown
<1> HIDE DEF Knows
<1>7. ASSUME NEW c \in Calls, NEW k \in Keys, AskQuery(c, k) PROVE KeyKnown'
  BY <1>2, <1>6, <1>7 DEF AskQuery, Goes
<1>8. ASSUME NEW c \in Calls, Lookup(c) \/ DropExpired(c) PROVE KeyKnown'
  BY <1>4, <1>6, <1>8 DEF Lookup, DropExpired, Goes
<1>9. ASSUME NEW c \in Calls, AnswerHit(c) \/ Store(c) \/ Acknowledge(c) PROVE KeyKnown'
  BY <1>2, <1>6, <1>9 DEF AnswerHit, Store, Acknowledge, Goes
<1>10. ASSUME NEW c \in Calls, ExecuteQuery(c) PROVE KeyKnown'
  BY <1>2, <1>4, <1>6, <1>10 DEF ExecuteQuery, Goes
<1>11. ASSUME NEW c \in Calls, NEW t \in Tools, AskModification(c, t) PROVE KeyKnown'
  BY <1>3, <1>6, <1>11 DEF AskModification, Goes
<1>12. ASSUME NEW c \in Calls, ExecuteModification(c) PROVE KeyKnown'
  BY <1>2, <1>5, <1>6, <1>12 DEF ExecuteModification, Goes
<1>13. ASSUME NEW c \in Calls, Invalidate(c) PROVE KeyKnown'
  BY <1>13 DEF Invalidate, Crossed, Call, Types, KeyKnown
<1>14. CASE Expire \/ Cleanup \/ UNCHANGED vars
  BY <1>14 DEF Expire, Cleanup, vars, KeyKnown
<1> QED
  BY <1>7, <1>8, <1>9, <1>10, <1>11, <1>12, <1>13, <1>14 DEF Next

LEMMA InitSize == Init => SizeInv
<1> SUFFICES ASSUME Init PROVE SizeInv
  OBVIOUS
<1>1. Present = {} /\ older = {} /\ expired = {} /\ \A c \in Calls : calls[c] = IdleCall
  BY DEF Init, Present
<1>2. OrderOK
  BY <1>1 DEF OrderOK
<1>3. IsFiniteSet(Present) /\ SizeBounded
  BY <1>1, FS_EmptySet, CacheAssumption DEF SizeBounded, CacheAssumption
<1>4. KeyKnown
  BY <1>1 DEF KeyKnown, IdleCall
<1> QED
  BY <1>2, <1>3, <1>4, InitTypes DEF SizeInv, TypeOK

LEMMA SizeStep == ASSUME SizeInv, [Next]_vars PROVE SizeInv'
<1>1. Types' /\ KeyKnown'
  BY TypesStep, KeyKnownStep DEF SizeInv, TypeOK
<1>2. OrderOK' /\ IsFiniteSet(Present') /\ Cardinality(Present') <= MaxSize
  <2>1. CASE UNCHANGED <<entries, older>> /\ expired' \in SUBSET Present
    <3>1. Present' = Present
      BY <2>1 DEF Present
    <3> QED
      BY <2>1, <3>1, OrderIs, OrderIsNext DEF SizeInv, TypeOK, SizeBounded
  <2>2. ASSUME NEW K, Delete(K)
        PROVE  OrderOK' /\ IsFiniteSet(Present') /\ Cardinality(Present') <= MaxSize
    BY <2>2, DeleteInOrder DEF SizeInv, TypeOK
  <2>3. ASSUME NEW c \in Calls,
               \/ \E k \in Keys : AskQuery(c, k)
               \/ Lookup(c) \/ AnswerHit(c) \/ ExecuteQuery(c)
               \/ \E t \in Tools : AskModification(c, t)
               \/ ExecuteModification(c) \/ Acknowledge(c)
        PROVE  UNCHANGED <<entries, older>> /\ expired' \in SUBSET Present
    BY <2>3 DEF AskQuery, Lookup, AnswerHit, ExecuteQuery, AskModification,
                ExecuteModification, Acknowledge, SizeInv, TypeOK, OrderOK
  <2>4. CASE Expire \/ UNCHANGED vars
    BY <2>1, <2>4 DEF Expire, vars, SizeInv, TypeOK, OrderOK
  <2>5. ASSUME NEW c \in Calls, DropExpired(c) \/ Invalidate(c)
        PROVE  OrderOK' /\ IsFiniteSet(Present') /\ Cardinality(Present') <= MaxSize
    BY <2>2, <2>5 DEF DropExpired, Invalidate
  <2>6. CASE Cleanup
    BY <2>2, <2>6 DEF Cleanup
  <2>7. ASSUME NEW c \in Calls, Store(c)
        PROVE  OrderOK' /\ IsFiniteSet(Present') /\ Cardinality(Present') <= MaxSize
    BY <2>7, StoreInOrder
  <2> QED
    BY <2>1, <2>3, <2>4, <2>5, <2>6, <2>7 DEF Next
<1> QED
  BY <1>1, <1>2 DEF SizeInv, TypeOK, SizeBounded

-----------------------------------------------------------------------------
(* The theorems.                                                           *)

\* If every modifying tool is one that handleToolCall invalidates for, then an
\* entry older than an answered modification was in flight when its cache was
\* cleared, whatever the number of calls, of keys and of modifications.
THEOREM InvalidationHolds ==
  (\A t \in Tools : Invalidations(t) > 0) => (Spec => []NoEntryOutlivesModification)
<1> SUFFICES ASSUME \A t \in Tools : Invalidations(t) > 0
             PROVE  Spec => []NoEntryOutlivesModification
  OBVIOUS
<1>1. Init => IInv
  BY InitIInv
<1>2. IInv /\ [Next]_vars => IInv'
  BY IInvStep
<1>3. IInv => NoEntryOutlivesModification
  BY DEF IInv, NothingBefore, NoEntryOutlivesModification
<1> QED
  BY <1>1, <1>2, <1>3, PTL DEF Spec

LEMMA SizeInvariance == Spec => []SizeInv
<1>1. Init => SizeInv
  BY InitSize
<1>2. SizeInv /\ [Next]_vars => SizeInv'
  BY SizeStep
<1> QED
  BY <1>1, <1>2, PTL DEF Spec

\* Whichever tools are called, the variables have their types and the entries
\* are in the order of their creation, with an oldest among any of them.
THEOREM CacheTypes == Spec => []TypeOK
<1>1. SizeInv => TypeOK
  BY DEF SizeInv
<1> QED
  BY <1>1, SizeInvariance, PTL

\* The map never outgrows its size.
THEOREM CacheIsBounded == Spec => []SizeBounded
<1>1. SizeInv => SizeBounded
  BY DEF SizeInv
<1> QED
  BY <1>1, SizeInvariance, PTL
=============================================================================
