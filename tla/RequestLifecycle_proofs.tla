----------------------- MODULE RequestLifecycle_proofs -----------------------
(***************************************************************************)
(* The limiter's accounting, proved for every set of exchanges, every      *)
(* limit and every bucket.  The inductive invariant is IInv of             *)
(* RequestLifecycle.                                                       *)
(***************************************************************************)
EXTENDS RequestLifecycle, FiniteSetTheorems, TLAPS

\* The variables have their types: in particular the semaphore never holds
\* more than MaxConcurrent and current never goes below zero.
THEOREM TypeCorrect == Spec => []TypeOK
<1>1. Init => TypeOK
  BY LifecycleAssumption DEF LifecycleAssumption, Init, TypeOK, Conn, Work
<1>2. ASSUME TypeOK, [Next]_vars PROVE TypeOK'
  <2> USE <1>2, LifecycleAssumption
         DEF LifecycleAssumption, TypeOK, Conn, Work, Move, Spawned, After, closed
  <2>1. ASSUME NEW r \in Requests,
               Arrive(r) \/ WaitToken(r) \/ RefuseClosed(r) \/ WakeUp(r)
        PROVE  TypeOK'
    BY <2>1 DEF Arrive, WaitToken, RefuseClosed, WakeUp
  <2>2. ASSUME NEW r \in Requests,
               TakeSlot(r) \/ LeaveQueue(r) \/ CountIn(r)
               \/ CountOut(r) \/ ReturnSlot(r)
        PROVE  TypeOK'
    BY <2>2 DEF TakeSlot, LeaveQueue, CountIn, CountOut, ReturnSlot
  <2>3. ASSUME NEW r \in Requests,
               Deny(r) \/ Spawn(r) \/ Finished(r) \/ GiveUp(r) \/ InlineReturn(r)
        PROVE  TypeOK'
    BY <2>3 DEF Deny, Spawn, Finished, GiveUp, InlineReturn
  <2>4. ASSUME NEW r \in Requests,
               Enter(r) \/ Dispatch(r) \/ Skip(r) \/ Return(r)
        PROVE  TypeOK'
    BY <2>4 DEF Enter, Dispatch, Skip, Return
  <2>5. CASE CloseLimiter \/ StopListening \/ ShutdownReturns \/ Terminated
    BY <2>5 DEF CloseLimiter, StopListening, ShutdownReturns, Terminated, vars
  <2>6. CASE UNCHANGED vars
    BY <2>6 DEF vars
  <2> QED
    BY <2>1, <2>2, <2>3, <2>4, <2>5, <2>6 DEF Next
<1> QED
  BY <1>1, <1>2, PTL DEF Spec

-----------------------------------------------------------------------------
(* Cardinalities of the two books.                                         *)

\* All the sets counted are finite.
LEMMA FiniteBooks ==
  ASSUME NEW S \in SUBSET Requests
  PROVE  IsFiniteSet(S) /\ Cardinality(S) \in Nat
BY LifecycleAssumption, FS_Subset, FS_CardinalityType DEF LifecycleAssumption

\* A set with a member counts at least one.
LEMMA NonEmptyCounts ==
  ASSUME NEW S \in SUBSET Requests, NEW x \in S PROVE Cardinality(S) > 0
BY FiniteBooks, FS_EmptySet

\* What moving one exchange from a location to another does to the number of
\* exchanges of a class that are at given locations: nothing, one more, or
\* one less.
LEMMA MoveCounts ==
  ASSUME NEW V, NEW f \in [Requests -> V], NEW g,
         NEW r \in Requests, NEW to \in V, g = [f EXCEPT ![r] = to],
         NEW L \in SUBSET Requests, NEW At \in SUBSET V, r \in L
  PROVE  LET before == {q \in L : f[q] \in At}
             after  == {q \in L : g[q] \in At}
         IN  /\ (to \in At <=> f[r] \in At) =>
                  Cardinality(after) = Cardinality(before)
             /\ to \in At /\ f[r] \notin At =>
                  Cardinality(after) = Cardinality(before) + 1
             /\ to \notin At /\ f[r] \in At =>
                  Cardinality(after) = Cardinality(before) - 1
<1> DEFINE before == {q \in L : f[q] \in At}
           after  == {q \in L : g[q] \in At}
<1>1. IsFiniteSet(before) /\ Cardinality(before) \in Nat
  BY FiniteBooks
<1>2. r \in before <=> f[r] \in At
  OBVIOUS
<1>3. to \in At => after = before \cup {r}
  OBVIOUS
<1>4. to \notin At => after = before \ {r}
  OBVIOUS
<1>5. /\ r \in before => Cardinality(before \cup {r}) = Cardinality(before)
      /\ r \notin before => Cardinality(before \cup {r}) = Cardinality(before) + 1
  BY <1>1, FS_AddElement
<1>6. /\ r \in before => Cardinality(before \ {r}) = Cardinality(before) - 1
      /\ r \notin before => Cardinality(before \ {r}) = Cardinality(before)
  BY <1>1, FS_RemoveElement
<1> HIDE DEF before, after
<1>7. /\ (to \in At <=> f[r] \in At) =>
           Cardinality(after) = Cardinality(before)
      /\ to \in At /\ f[r] \notin At =>
           Cardinality(after) = Cardinality(before) + 1
      /\ to \notin At /\ f[r] \in At =>
           Cardinality(after) = Cardinality(before) - 1
  BY <1>1, <1>2, <1>3, <1>4, <1>5, <1>6
<1> QED
  BY <1>7 DEF before, after

\* The same for a connection and the two classes of the limiter's books.
LEMMA BooksMove ==
  ASSUME TypeOK, NEW r \in Limited, NEW from \in Conn, NEW to \in Conn,
         Move(r, from, to), UNCHANGED exempt
  PROVE  /\ (to \in Holding <=> from \in Holding) =>
              Cardinality(SlotHolders') = Cardinality(SlotHolders)
         /\ to \in Holding /\ from \notin Holding =>
              Cardinality(SlotHolders') = Cardinality(SlotHolders) + 1
         /\ to \notin Holding /\ from \in Holding =>
              Cardinality(SlotHolders') = Cardinality(SlotHolders) - 1
         /\ (to \in Counting <=> from \in Counting) =>
              Cardinality(Counted') = Cardinality(Counted)
         /\ to \in Counting /\ from \notin Counting =>
              Cardinality(Counted') = Cardinality(Counted) + 1
         /\ to \notin Counting /\ from \in Counting =>
              Cardinality(Counted') = Cardinality(Counted) - 1
<1>1. /\ Limited \in SUBSET Requests /\ Limited' = Limited /\ r \in Requests
      /\ conn \in [Requests -> Conn]
      /\ conn' = [conn EXCEPT ![r] = to] /\ conn[r] = from
  BY DEF Limited, TypeOK, Move
<1>h. Holding \in SUBSET Conn
  BY DEF Holding, Conn
<1>c. Counting \in SUBSET Conn
  BY DEF Counting, Conn
<1>2. /\ (to \in Holding <=> from \in Holding) =>
           Cardinality({q \in Limited : conn'[q] \in Holding})
             = Cardinality({q \in Limited : conn[q] \in Holding})
      /\ to \in Holding /\ from \notin Holding =>
           Cardinality({q \in Limited : conn'[q] \in Holding})
             = Cardinality({q \in Limited : conn[q] \in Holding}) + 1
      /\ to \notin Holding /\ from \in Holding =>
           Cardinality({q \in Limited : conn'[q] \in Holding})
             = Cardinality({q \in Limited : conn[q] \in Holding}) - 1
  BY <1>1, <1>h, MoveCounts
<1>3. /\ (to \in Counting <=> from \in Counting) =>
           Cardinality({q \in Limited : conn'[q] \in Counting})
             = Cardinality({q \in Limited : conn[q] \in Counting})
      /\ to \in Counting /\ from \notin Counting =>
           Cardinality({q \in Limited : conn'[q] \in Counting})
             = Cardinality({q \in Limited : conn[q] \in Counting}) + 1
      /\ to \notin Counting /\ from \in Counting =>
           Cardinality({q \in Limited : conn'[q] \in Counting})
             = Cardinality({q \in Limited : conn[q] \in Counting}) - 1
  BY <1>1, <1>c, MoveCounts
<1>4. /\ SlotHolders = {q \in Limited : conn[q] \in Holding}
      /\ SlotHolders' = {q \in Limited : conn'[q] \in Holding}
      /\ Counted = {q \in Limited : conn[q] \in Counting}
      /\ Counted' = {q \in Limited : conn'[q] \in Counting}
  BY <1>1 DEF SlotHolders, Counted, Limited
<1>5. /\ (to \in Holding <=> from \in Holding) =>
           Cardinality(SlotHolders') = Cardinality(SlotHolders)
      /\ to \in Holding /\ from \notin Holding =>
           Cardinality(SlotHolders') = Cardinality(SlotHolders) + 1
      /\ to \notin Holding /\ from \in Holding =>
           Cardinality(SlotHolders') = Cardinality(SlotHolders) - 1
  BY <1>2, <1>4
<1>6. /\ (to \in Counting <=> from \in Counting) =>
           Cardinality(Counted') = Cardinality(Counted)
      /\ to \in Counting /\ from \notin Counting =>
           Cardinality(Counted') = Cardinality(Counted) + 1
      /\ to \notin Counting /\ from \in Counting =>
           Cardinality(Counted') = Cardinality(Counted) - 1
  BY <1>3, <1>4
<1> QED
  BY <1>5, <1>6

\* Both books are written in natural numbers.
LEMMA BooksAreNat ==
  Cardinality(SlotHolders) \in Nat /\ Cardinality(Counted) \in Nat
<1>1. SlotHolders \in SUBSET Requests /\ Counted \in SUBSET Requests
  BY DEF SlotHolders, Counted, Limited
<1> QED
  BY <1>1, FiniteBooks

\* A move of an exchange that skips the limiter changes neither book.
LEMMA MoveOutside ==
  ASSUME NEW r \in Requests, NEW from, NEW to,
         NEW L \in SUBSET Requests, NEW At,
         conn \in [Requests -> Conn], Move(r, from, to), r \notin L
  PROVE  {q \in L : conn'[q] \in At} = {q \in L : conn[q] \in At}
BY DEF Move

-----------------------------------------------------------------------------
(* The inductive invariant.                                                *)

\* IInv holds before the first request.
LEMMA InitIInv == Init => IInv
<1> SUFFICES ASSUME Init PROVE IInv
  OBVIOUS
<1>1. TypeOK
  BY LifecycleAssumption DEF Init, TypeOK, Conn, Work, LifecycleAssumption
<1>2. PathsDisjoint
  BY DEF Init, PathsDisjoint
<1>3. SlotHolders = {} /\ Counted = {} /\ MeteredWork = {} /\ MeteredConn = {}
  BY DEF Init, SlotHolders, Counted, MeteredWork, MeteredConn, Holding,
         Counting, Limited
<1>4. Cardinality({}) = 0
  BY FS_EmptySet
<1>5. PermitAccounting /\ GaugeExact
  BY <1>3, <1>4 DEF Init, PermitAccounting, GaugeExact
<1> QED
  BY <1>1, <1>2, <1>5 DEF IInv

\* An exchange never has two goroutines, and the exempt ones never take one
\* of the limiter's steps.
LEMMA PathsStep ==
  ASSUME TypeOK, PathsDisjoint, [Next]_vars PROVE PathsDisjoint'
<1> USE DEF TypeOK, PathsDisjoint, Conn, Work, Move, Spawned, After
<1>1. ASSUME NEW r \in Requests,
             Arrive(r) \/ WaitToken(r) \/ RefuseClosed(r) \/ WakeUp(r)
      PROVE  PathsDisjoint'
  BY <1>1 DEF Arrive, WaitToken, RefuseClosed, WakeUp
<1>2. ASSUME NEW r \in Requests,
             TakeSlot(r) \/ LeaveQueue(r) \/ CountIn(r)
             \/ CountOut(r) \/ ReturnSlot(r)
      PROVE  PathsDisjoint'
  BY <1>2 DEF TakeSlot, LeaveQueue, CountIn, CountOut, ReturnSlot
<1>3. ASSUME NEW r \in Requests,
             Deny(r) \/ Spawn(r) \/ Finished(r) \/ GiveUp(r) \/ InlineReturn(r)
      PROVE  PathsDisjoint'
  BY <1>3 DEF Deny, Spawn, Finished, GiveUp, InlineReturn
<1>4. ASSUME NEW r \in Requests,
             Enter(r) \/ Dispatch(r) \/ Skip(r) \/ Return(r)
      PROVE  PathsDisjoint'
  BY <1>4 DEF Enter, Dispatch, Skip, Return
<1>5. CASE CloseLimiter \/ StopListening \/ ShutdownReturns \/ Terminated
  BY <1>5 DEF CloseLimiter, StopListening, ShutdownReturns, Terminated, vars
<1>6. CASE UNCHANGED vars
  BY <1>6 DEF vars
<1> QED
  BY <1>1, <1>2, <1>3, <1>4, <1>5, <1>6 DEF Next

\* A step that leaves both books alone and moves r between two locations
\* that are both inside or both outside of each class keeps the accounting.
LEMMA QuietMove ==
  ASSUME TypeOK, PermitAccounting, NEW r \in Requests,
         NEW from \in Conn, NEW to \in Conn, Move(r, from, to),
         r \in Limited => (from \in Holding <=> to \in Holding),
         r \in Limited => (from \in Counting <=> to \in Counting),
         UNCHANGED <<exempt, sem, current>>
  PROVE  PermitAccounting'
<1>1. Limited \in SUBSET Requests /\ Limited' = Limited
      /\ Holding \in SUBSET Conn /\ Counting \in SUBSET Conn
  BY DEF Limited, Holding, Counting, Conn
<1>2. conn \in [Requests -> Conn]
  BY DEF TypeOK
<1>3. CASE r \in Limited
  BY <1>3, BooksMove, BooksAreNat DEF PermitAccounting
<1>4. CASE r \notin Limited
  <2>1. SlotHolders' = SlotHolders /\ Counted' = Counted
    BY <1>1, <1>2, <1>4, MoveOutside DEF SlotHolders, Counted
  <2> QED
    BY <2>1 DEF PermitAccounting
<1> QED
  BY <1>3, <1>4

\* The books after the steps that leave them alone.
LEMMA QuietSteps ==
  ASSUME TypeOK, PathsDisjoint, PermitAccounting, NEW r \in Requests,
         \/ WaitToken(r) \/ RefuseClosed(r) \/ WakeUp(r) \/ LeaveQueue(r)
         \/ Deny(r) \/ Spawn(r) \/ Finished(r) \/ GiveUp(r) \/ InlineReturn(r)
  PROVE  PermitAccounting'
<1> USE DEF Holding, Counting, Conn, Limited, After
<1>1. CASE WaitToken(r)
  <2>1. Move(r, "token", "slot") \/ Move(r, "token", "sleep")
    BY <1>1 DEF WaitToken
  <2> QED
    BY <1>1, <2>1, QuietMove DEF WaitToken
<1>2. CASE RefuseClosed(r)
  BY <1>2, QuietMove DEF RefuseClosed
<1>3. CASE WakeUp(r)
  BY <1>3, QuietMove DEF WakeUp
<1>4. CASE LeaveQueue(r)
  BY <1>4, QuietMove DEF LeaveQueue
<1>5. CASE Deny(r)
  BY <1>5, QuietMove DEF Deny
<1>6. CASE Spawn(r)
  BY <1>6, QuietMove DEF Spawn
<1>7. CASE Finished(r)
  BY <1>7, QuietMove DEF Finished
<1>8. CASE GiveUp(r)
  <2>1. \/ Move(r, "serve", After(r))
        \/ Move(r, "serve", "inline") \/ Move(r, "serve", "inlineBare")
    BY <1>8 DEF GiveUp
  <2> QED
    BY <1>8, <2>1, QuietMove DEF GiveUp
<1>9. CASE InlineReturn(r)
  <2>1. Move(r, "inline", After(r)) \/ Move(r, "inlineBare", After(r))
    BY <1>9 DEF InlineReturn
  <2> QED
    BY <1>9, <2>1, QuietMove DEF InlineReturn
<1> QED
  BY <1>1, <1>2, <1>3, <1>4, <1>5, <1>6, <1>7, <1>8, <1>9

\* The four steps that write a book: each changes it by exactly the one
\* connection that moves.
LEMMA BookSteps ==
  ASSUME TypeOK, PathsDisjoint, PermitAccounting, NEW r \in Requests,
         TakeSlot(r) \/ CountIn(r) \/ CountOut(r) \/ ReturnSlot(r)
  PROVE  PermitAccounting'
<1>1. Cardinality(SlotHolders) \in Nat /\ Cardinality(Counted) \in Nat
  BY BooksAreNat
<1>2. r \in Limited
  BY DEF TakeSlot, CountIn, CountOut, ReturnSlot, Move, PathsDisjoint, Limited
<1>3. CASE TakeSlot(r)
  <2>1. /\ Cardinality(SlotHolders') = Cardinality(SlotHolders) + 1
        /\ Cardinality(Counted') = Cardinality(Counted)
    BY <1>1, <1>2, <1>3, BooksMove DEF TakeSlot, Conn, Holding, Counting
  <2> QED
    BY <1>1, <1>3, <2>1 DEF TakeSlot, PermitAccounting
<1>4. CASE CountIn(r)
  <2>1. /\ Cardinality(SlotHolders') = Cardinality(SlotHolders)
        /\ Cardinality(Counted') = Cardinality(Counted) + 1
    BY <1>1, <1>2, <1>4, BooksMove DEF CountIn, Conn, Holding, Counting
  <2> QED
    BY <1>1, <1>4, <2>1 DEF CountIn, PermitAccounting
<1>5. CASE CountOut(r)
  <2>1. /\ Cardinality(SlotHolders') = Cardinality(SlotHolders)
        /\ Cardinality(Counted') = Cardinality(Counted) - 1
    BY <1>1, <1>2, <1>5, BooksMove DEF CountOut, Conn, Holding, Counting
  <2>2. r \in Counted
    BY <1>2, <1>5 DEF CountOut, Move, Counted, Counting
  <2>3. current > 0
    BY <1>1, <2>2, NonEmptyCounts DEF PermitAccounting, SlotHolders, Counted, Limited
  <2> QED
    BY <1>1, <1>5, <2>1, <2>3 DEF CountOut, PermitAccounting
<1>6. CASE ReturnSlot(r)
  <2>1. /\ Cardinality(SlotHolders') = Cardinality(SlotHolders) - 1
        /\ Cardinality(Counted') = Cardinality(Counted)
    BY <1>1, <1>2, <1>6, BooksMove DEF ReturnSlot, Conn, Holding, Counting
  <2>2. r \in SlotHolders
    BY <1>2, <1>6 DEF ReturnSlot, Move, SlotHolders, Holding
  <2>3. sem > 0
    BY <1>1, <2>2, NonEmptyCounts DEF PermitAccounting, SlotHolders, Counted, Limited
  <2> QED
    BY <1>1, <1>6, <2>1, <2>3 DEF ReturnSlot, PermitAccounting
<1> QED
  BY <1>3, <1>4, <1>5, <1>6

\* The accounting survives every step of the system.
LEMMA PermitStep ==
  ASSUME TypeOK, PathsDisjoint, PermitAccounting, [Next]_vars
  PROVE  PermitAccounting'
<1>1. ASSUME NEW r \in Requests, Arrive(r) PROVE PermitAccounting'
  <2>1. SlotHolders' = SlotHolders /\ Counted' = Counted
    BY <1>1 DEF Arrive, Move, SlotHolders, Counted, Limited, Holding,
                Counting, TypeOK
  <2> QED
    BY <1>1, <2>1 DEF Arrive, PermitAccounting
<1>2. ASSUME NEW r \in Requests,
             Enter(r) \/ Dispatch(r) \/ Skip(r) \/ Return(r)
      PROVE  PermitAccounting'
  BY <1>2 DEF Enter, Dispatch, Skip, Return, PermitAccounting, SlotHolders,
              Counted, Limited
<1>3. CASE CloseLimiter \/ StopListening \/ ShutdownReturns \/ Terminated
           \/ UNCHANGED vars
  BY <1>3 DEF CloseLimiter, StopListening, ShutdownReturns, Terminated, vars,
              PermitAccounting, SlotHolders, Counted, Limited
<1> QED
  BY <1>1, <1>2, <1>3, QuietSteps, BookSteps DEF Next

-----------------------------------------------------------------------------
(* The metrics gauge.                                                      *)

\* How many metrics frames there are after a work, and after a conn, moves.
LEMMA WorkFrames ==
  ASSUME TypeOK, NEW r \in Requests, NEW from \in Work, NEW to \in Work,
         Spawned(r, from, to)
  PROVE  LET At == {"metrics", "handler"}
         IN  /\ (to \in At <=> from \in At) =>
                  Cardinality(MeteredWork') = Cardinality(MeteredWork)
             /\ to \in At /\ from \notin At =>
                  Cardinality(MeteredWork') = Cardinality(MeteredWork) + 1
             /\ to \notin At /\ from \in At =>
                  Cardinality(MeteredWork') = Cardinality(MeteredWork) - 1
<1> DEFINE At == {"metrics", "handler"}
<1>1. /\ work \in [Requests -> Work] /\ work' = [work EXCEPT ![r] = to]
      /\ work[r] = from
      /\ At \in SUBSET Work /\ Requests \in SUBSET Requests
  BY DEF TypeOK, Work, Spawned
<1>2. /\ MeteredWork = {q \in Requests : work[q] \in At}
      /\ MeteredWork' = {q \in Requests : work'[q] \in At}
  BY DEF MeteredWork
<1> HIDE DEF At
<1>3. /\ (to \in At <=> from \in At) =>
           Cardinality({q \in Requests : work'[q] \in At})
             = Cardinality({q \in Requests : work[q] \in At})
      /\ to \in At /\ from \notin At =>
           Cardinality({q \in Requests : work'[q] \in At})
             = Cardinality({q \in Requests : work[q] \in At}) + 1
      /\ to \notin At /\ from \in At =>
           Cardinality({q \in Requests : work'[q] \in At})
             = Cardinality({q \in Requests : work[q] \in At}) - 1
  BY <1>1, MoveCounts
<1>4. /\ (to \in At <=> from \in At) =>
           Cardinality(MeteredWork') = Cardinality(MeteredWork)
      /\ to \in At /\ from \notin At =>
           Cardinality(MeteredWork') = Cardinality(MeteredWork) + 1
      /\ to \notin At /\ from \in At =>
           Cardinality(MeteredWork') = Cardinality(MeteredWork) - 1
  BY <1>2, <1>3
<1> QED
  BY <1>4 DEF At

\* What a move of one connection does to the frames it counts for.
LEMMA ConnFrames ==
  ASSUME TypeOK, NEW r \in Requests, NEW from \in Conn, NEW to \in Conn,
         Move(r, from, to)
  PROVE  LET At == {"inline"}
         IN  /\ (to \in At <=> from \in At) =>
                  Cardinality(MeteredConn') = Cardinality(MeteredConn)
             /\ to \in At /\ from \notin At =>
                  Cardinality(MeteredConn') = Cardinality(MeteredConn) + 1
             /\ to \notin At /\ from \in At =>
                  Cardinality(MeteredConn') = Cardinality(MeteredConn) - 1
<1> DEFINE At == {"inline"}
<1>1. /\ conn \in [Requests -> Conn] /\ conn' = [conn EXCEPT ![r] = to]
      /\ conn[r] = from
      /\ At \in SUBSET Conn /\ Requests \in SUBSET Requests
  BY DEF TypeOK, Conn, Move
<1>2. /\ MeteredConn = {q \in Requests : conn[q] \in At}
      /\ MeteredConn' = {q \in Requests : conn'[q] \in At}
  BY DEF MeteredConn
<1> HIDE DEF At
<1>3. /\ (to \in At <=> from \in At) =>
           Cardinality({q \in Requests : conn'[q] \in At})
             = Cardinality({q \in Requests : conn[q] \in At})
      /\ to \in At /\ from \notin At =>
           Cardinality({q \in Requests : conn'[q] \in At})
             = Cardinality({q \in Requests : conn[q] \in At}) + 1
      /\ to \notin At /\ from \in At =>
           Cardinality({q \in Requests : conn'[q] \in At})
             = Cardinality({q \in Requests : conn[q] \in At}) - 1
  BY <1>1, MoveCounts
<1>4. /\ (to \in At <=> from \in At) =>
           Cardinality(MeteredConn') = Cardinality(MeteredConn)
      /\ to \in At /\ from \notin At =>
           Cardinality(MeteredConn') = Cardinality(MeteredConn) + 1
      /\ to \notin At /\ from \in At =>
           Cardinality(MeteredConn') = Cardinality(MeteredConn) - 1
  BY <1>2, <1>3
<1> QED
  BY <1>4 DEF At

\* The number of metrics frames is a natural number.
LEMMA FramesAreNat ==
  Cardinality(MeteredWork) \in Nat /\ Cardinality(MeteredConn) \in Nat
<1>1. MeteredWork \in SUBSET Requests /\ MeteredConn \in SUBSET Requests
  BY DEF MeteredWork, MeteredConn
<1> QED
  BY <1>1, FiniteBooks

\* The steps of conn that keep its frames, and the gauge, as they are.
LEMMA GaugeQuietConn ==
  ASSUME TypeOK, GaugeExact, NEW r \in Requests,
         NEW from \in Conn, NEW to \in Conn, Move(r, from, to),
         from # "inline", to # "inline", UNCHANGED <<work, gauge>>
  PROVE  GaugeExact'
BY ConnFrames, FramesAreNat DEF GaugeExact, MeteredWork

\* The gauge survives the steps of the goroutine that runs the handler.
LEMMA GaugeWorkSteps ==
  ASSUME TypeOK, GaugeExact, NEW r \in Requests,
         Enter(r) \/ Dispatch(r) \/ Skip(r) \/ Return(r)
  PROVE  GaugeExact'
<1>1. Cardinality(MeteredWork) \in Nat /\ Cardinality(MeteredConn) \in Nat
  BY FramesAreNat
<1>2. MeteredConn' = MeteredConn
  BY DEF Enter, Dispatch, Skip, Return, MeteredConn
<1>3. CASE Enter(r)
  <2>1. Cardinality(MeteredWork') = Cardinality(MeteredWork) + 1
    BY <1>3, WorkFrames DEF Enter, Spawned, Work
  <2> QED
    BY <1>1, <1>2, <1>3, <2>1 DEF Enter, GaugeExact, TypeOK
<1>4. CASE Dispatch(r)
  <2>1. Spawned(r, "metrics", "handler") \/ Spawned(r, "spawned", "bare")
    BY <1>4 DEF Dispatch
  <2>2. Cardinality(MeteredWork') = Cardinality(MeteredWork)
    BY <2>1, WorkFrames DEF Spawned, Work
  <2> QED
    BY <1>1, <1>2, <1>4, <2>2 DEF Dispatch, GaugeExact
<1>5. ASSUME Spawned(r, "spawned", "done") \/ Spawned(r, "bare", "done"),
             UNCHANGED gauge
      PROVE  GaugeExact'
  <2>1. Cardinality(MeteredWork') = Cardinality(MeteredWork)
    BY <1>5, WorkFrames DEF Spawned, Work
  <2> QED
    BY <1>1, <1>2, <1>5, <2>1 DEF GaugeExact
<1>6. ASSUME Spawned(r, "metrics", "done") \/ Spawned(r, "handler", "done"),
             gauge' = gauge - 1
      PROVE  GaugeExact'
  <2>1. Cardinality(MeteredWork') = Cardinality(MeteredWork) - 1
    BY <1>6, WorkFrames DEF Spawned, Work
  <2> QED
    BY <1>1, <1>2, <1>6, <2>1 DEF GaugeExact
<1>7. CASE Skip(r)
  BY <1>5, <1>6, <1>7 DEF Skip
<1>8. CASE Return(r)
  BY <1>5, <1>6, <1>8 DEF Return
<1> QED
  BY <1>3, <1>4, <1>7, <1>8

\* The gauge survives the steps of timeoutMiddleware in conn.
LEMMA GaugeTimeoutSteps ==
  ASSUME TypeOK, PathsDisjoint, GaugeExact, NEW r \in Requests,
         Spawn(r) \/ Finished(r) \/ GiveUp(r) \/ InlineReturn(r)
  PROVE  GaugeExact'
<1> USE DEF Conn, After
<1>1. Cardinality(MeteredWork) \in Nat /\ Cardinality(MeteredConn) \in Nat
  BY FramesAreNat
<1>2. CASE Spawn(r)
  <2>1. work[r] = "none" /\ Move(r, "auth", "serve")
    BY <1>2 DEF Spawn, Move, PathsDisjoint
  <2>2. Cardinality(MeteredWork') = Cardinality(MeteredWork)
    BY <1>2, <2>1, WorkFrames DEF Spawn, Spawned, Work
  <2>3. Cardinality(MeteredConn') = Cardinality(MeteredConn)
    BY <2>1, ConnFrames
  <2> QED
    BY <1>2, <2>2, <2>3 DEF Spawn, GaugeExact
<1>3. CASE Finished(r)
  BY <1>3, GaugeQuietConn DEF Finished
<1>4. ASSUME NEW to \in {After(r), "inlineBare"}, NEW from \in {"serve", "inlineBare"},
             Move(r, from, to), UNCHANGED <<work, gauge>>
      PROVE  GaugeExact'
  BY <1>4, GaugeQuietConn
<1>5. ASSUME Move(r, "serve", "inline"), gauge' = gauge + 1, UNCHANGED work
      PROVE  GaugeExact'
  <2>1. Cardinality(MeteredConn') = Cardinality(MeteredConn) + 1
    BY <1>5, ConnFrames
  <2>2. MeteredWork' = MeteredWork
    BY <1>5 DEF MeteredWork
  <2> QED
    BY <1>1, <1>5, <2>1, <2>2 DEF GaugeExact
<1>6. ASSUME Move(r, "inline", After(r)), gauge' = gauge - 1, UNCHANGED work
      PROVE  GaugeExact'
  <2>1. Cardinality(MeteredConn') = Cardinality(MeteredConn) - 1
    BY <1>6, ConnFrames
  <2>2. MeteredWork' = MeteredWork
    BY <1>6 DEF MeteredWork
  <2> QED
    BY <1>1, <1>6, <2>1, <2>2 DEF GaugeExact
<1>7. CASE GiveUp(r)
  BY <1>4, <1>5, <1>7 DEF GiveUp
<1>8. CASE InlineReturn(r)
  BY <1>4, <1>6, <1>8 DEF InlineReturn
<1> QED
  BY <1>2, <1>3, <1>7, <1>8

\* The gauge survives every step of the system.
LEMMA GaugeStep ==
  ASSUME TypeOK, PathsDisjoint, GaugeExact, [Next]_vars
  PROVE  GaugeExact'
<1> USE DEF Conn
<1>1. ASSUME NEW r \in Requests, Arrive(r) PROVE GaugeExact'
  <2>1. Move(r, "idle", "token") \/ Move(r, "idle", "auth")
    BY <1>1 DEF Arrive
  <2>2. Cardinality(MeteredConn') = Cardinality(MeteredConn)
    BY <2>1, ConnFrames
  <2>3. MeteredWork' = MeteredWork
    BY <1>1 DEF Arrive, MeteredWork, TypeOK
  <2> QED
    BY <1>1, <2>2, <2>3 DEF Arrive, GaugeExact
<1>2. ASSUME NEW r \in Requests,
             WaitToken(r) \/ RefuseClosed(r) \/ WakeUp(r) \/ TakeSlot(r)
             \/ LeaveQueue(r) \/ CountIn(r)
      PROVE  GaugeExact'
  <2>1. \E from, to \in Conn \ {"inline"} : Move(r, from, to)
    BY <1>2 DEF WaitToken, RefuseClosed, WakeUp, TakeSlot, LeaveQueue, CountIn
  <2>2. UNCHANGED <<work, gauge>>
    BY <1>2 DEF WaitToken, RefuseClosed, WakeUp, TakeSlot, LeaveQueue, CountIn
  <2> QED
    BY <2>1, <2>2, GaugeQuietConn
<1>3. ASSUME NEW r \in Requests, Deny(r) \/ CountOut(r) \/ ReturnSlot(r)
      PROVE  GaugeExact'
  <2>1. \E from, to \in Conn \ {"inline"} : Move(r, from, to)
    BY <1>3 DEF Deny, CountOut, ReturnSlot
  <2>2. UNCHANGED <<work, gauge>>
    BY <1>3 DEF Deny, CountOut, ReturnSlot
  <2> QED
    BY <2>1, <2>2, GaugeQuietConn
<1>4. CASE CloseLimiter \/ StopListening \/ ShutdownReturns \/ Terminated
           \/ UNCHANGED vars
  BY <1>4 DEF CloseLimiter, StopListening, ShutdownReturns, Terminated, vars,
              GaugeExact, MeteredWork, MeteredConn
<1> QED
  BY <1>1, <1>2, <1>3, <1>4, GaugeTimeoutSteps, GaugeWorkSteps DEF Next

-----------------------------------------------------------------------------
(* The theorems.                                                           *)

\* IInv holds in every reachable state.
LEMMA Inductive == Spec => []IInv
<1>1. IInv /\ [Next]_vars => PathsDisjoint' /\ PermitAccounting' /\ GaugeExact'
  BY PathsStep, PermitStep, GaugeStep DEF IInv
<1>2. TypeOK' /\ PathsDisjoint' /\ PermitAccounting' /\ GaugeExact' => IInv'
  BY DEF IInv
<1> QED
  BY InitIInv, TypeCorrect, <1>1, <1>2, PTL DEF Spec

\* The semaphore and the counter agree with the connections in every state of
\* every run: no way out of the middleware chain leaks or doubles a permit.
THEOREM PermitsExact == Spec => []PermitAccounting
<1>1. IInv => PermitAccounting
  BY DEF IInv
<1> QED
  BY Inductive, <1>1, PTL

\* No more than MaxConcurrent limited requests are admitted at once.
THEOREM AdmittedBounded == Spec => []AdmittedWithinLimit
<1>1. IInv => AdmittedWithinLimit
  BY BooksAreNat, LifecycleAssumption
     DEF IInv, TypeOK, PermitAccounting, AdmittedWithinLimit, LifecycleAssumption
<1> QED
  BY Inductive, <1>1, PTL

\* The concurrent-requests gauge counts the metrics frames and nothing else,
\* so it returns to zero when the last of them ends.
THEOREM GaugeCorrect == Spec => []GaugeExact
<1>1. IInv => GaugeExact
  BY DEF IInv
<1> QED
  BY Inductive, <1>1, PTL
=============================================================================
