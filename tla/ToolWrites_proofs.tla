--------------------------- MODULE ToolWrites_proofs ---------------------------
(***************************************************************************)
(* Theorems about ToolWrites, for any objects, any calls made at the same  *)
(* time and any values others write.  The inductive invariant is IInv of   *)
(* ToolWrites.                                                             *)
(***************************************************************************)
EXTENDS ToolWrites, FiniteSetTheorems, SequenceTheorems, TLAPS

\* AtomicWrites reads requests as ToolWrites does.
LEMMA SameWords ==
  /\ \A k : Atomic!Exists(k) = Exists(k) /\ Atomic!Free(k) = Free(k)
  /\ \A r : Atomic!Target(r) = Target(r) /\ Atomic!Created(r) = Created(r)
  /\ \A r, s : /\ Atomic!Editable(r, s) = Editable(r, s)
               /\ Atomic!OldValue(r, s) = OldValue(r, s)
  /\ \A r, s, now : Atomic!Edited(r, s, now) = Edited(r, s, now)
  /\ \A ns : Atomic!Namespaced(ns) = Namespaced(ns)
  /\ Atomic!Updates = Updates /\ Atomic!BatchKinds = BatchKinds
  /\ \A spec, patch : Atomic!Patched(spec, patch) = Patched(spec, patch)
<1>1. \A x : Atomic!Int32(x) = Int32(x)
  BY DEF Atomic!Int32, Int32
<1>2. \A r, s : Atomic!ContainerIndex(r, s) = ContainerIndex(r, s)
  BY DEF Atomic!ContainerIndex, ContainerIndex
<1>3. \A ns : Atomic!Namespaced(ns) = Namespaced(ns)
  BY DEF Atomic!Namespaced, Namespaced
<1>4. \A r : Atomic!ApplyTarget(r) = ApplyTarget(r)
  BY <1>3 DEF Atomic!ApplyTarget, ApplyTarget
<1>5. \A r : Atomic!YAMLTarget(r) = YAMLTarget(r)
  BY <1>4 DEF Atomic!YAMLTarget, YAMLTarget, Atomic!ClusterScoped, ClusterScoped
<1>6. \A r : Atomic!Target(r) = Target(r)
  BY <1>3, <1>4, <1>5 DEF Atomic!Target, Target
<1>7. \A r : Atomic!CreatedDeployment(r) = CreatedDeployment(r)
  BY <1>1 DEF Atomic!CreatedDeployment, CreatedDeployment
<1>8. \A r : Atomic!CreatedService(r) = CreatedService(r)
  BY <1>1 DEF Atomic!CreatedService, CreatedService
<1>9. \A r : Atomic!Created(r) = Created(r)
  BY <1>7, <1>8 DEF Atomic!Created, Created, Atomic!CreatedPod, CreatedPod,
    Atomic!CreatedSecret, CreatedSecret, Atomic!CreatedConfig, CreatedConfig
<1>10. \A k : Atomic!Exists(k) = Exists(k) /\ Atomic!Free(k) = Free(k)
  BY DEF Atomic!Exists, Exists, Atomic!Free, Free, Atomic!Absent, Absent
<1>11. \A r, s : Atomic!Editable(r, s) = Editable(r, s)
  BY <1>2 DEF Atomic!Editable, Editable
<1>12. \A r, s : Atomic!OldValue(r, s) = OldValue(r, s)
  BY <1>2 DEF Atomic!OldValue, OldValue
<1>13. \A r, s, now : Atomic!Edited(r, s, now) = Edited(r, s, now)
  BY <1>1, <1>2 DEF Atomic!Edited, Edited
<1>14. Atomic!Updates = Updates /\ Atomic!BatchKinds = BatchKinds
  BY DEF Atomic!Updates, Updates, Atomic!BatchKinds, BatchKinds
<1>15. \A spec, patch : Atomic!Patched(spec, patch) = Patched(spec, patch)
  BY DEF Atomic!Patched, Patched
<1> QED
  BY <1>3, <1>6, <1>9, <1>10, <1>11, <1>12, <1>13, <1>14, <1>15

\* And its API server is the same.
LEMMA SameWrites ==
  /\ \A k, s : Atomic!Put(k, s) <=> Put(k, s)
  /\ \A k : Atomic!Erase(k) <=> Erase(k)
  /\ Atomic!Outside <=> Outside
<1>1. \A k, s : Atomic!Put(k, s) <=> Put(k, s)
  BY SameWords DEF Atomic!Put, Put, Atomic!Dying, Dying
<1>2. \A k : Atomic!Erase(k) <=> Erase(k)
  BY SameWords DEF Atomic!Erase, Erase, Atomic!Vanish, Vanish, Atomic!Mark, Mark,
    Atomic!Dying, Dying, Atomic!Absent, Absent
<1> QED
  BY <1>1, <1>2, SameWords DEF Atomic!Outside, Outside

-----------------------------------------------------------------------------
(* Types, what a handler has read, and who waits for whom.                 *)

Versions ==
  /\ \A k \in Keys : objects[k] = Absent \/ objects[k].version \in 1 .. version
  /\ \A k \in Keys : Dying(k) => k \in Lingering

\* A write changes one object and gives it a version nobody has seen.
Fresh(k) ==
  /\ objects'[k] = Absent \/ objects'[k].version = version + 1
  /\ version' = version + 1

\* A request to write writes one object or none; a dying object stays so.
Written(k) ==
  /\ \A j \in Keys \ {k} : objects'[j] = objects[j]
  /\ objects' = [j \in Keys |-> objects'[j]]
  /\ Fresh(k) \/ (objects'[k] = objects[k] /\ version' = version)
  /\ Dying(k) => objects'[k] = Absent \/ objects'[k].dying
  /\ objects'[k] # Absent /\ objects'[k].dying => Dying(k) \/ k \in Lingering

LEMMA PutWrites ==
  ASSUME Shapes, NEW k \in Keys, NEW s, Put(k, s)
  PROVE  /\ Written(k) /\ Fresh(k)
         /\ objects'[k] = [version |-> version + 1, spec |-> s, dying |-> Dying(k)]
<1>1. /\ objects'[k] = [version |-> version + 1, spec |-> s, dying |-> Dying(k)]
      /\ \A j \in Keys \ {k} : objects'[j] = objects[j]
      /\ objects' = [j \in Keys |-> objects'[j]]
      /\ version' = version + 1
  BY DEF Shapes, Put
<1>2. objects'[k].version = version + 1 /\ objects'[k].dying = Dying(k)
  BY <1>1
<1>3. Fresh(k)
  BY <1>1, <1>2 DEF Fresh
<1> QED
  BY <1>1, <1>2, <1>3 DEF Written

LEMMA EraseWrites ==
  ASSUME Shapes, NEW k \in Keys, Exists(k), Erase(k)
  PROVE  /\ Written(k)
         /\ objects'[k] # Absent => objects'[k].spec = objects[k].spec /\ objects'[k].dying
<1>1. CASE Vanish(k)
  <2>1. /\ objects'[k] = Absent /\ \A j \in Keys \ {k} : objects'[j] = objects[j]
        /\ objects' = [j \in Keys |-> objects'[j]]
        /\ version' = version + 1
    BY <1>1 DEF Shapes, Vanish
  <2> QED
    BY <2>1 DEF Written, Fresh
<1>2. CASE Mark(k)
  <2>1. /\ objects'[k] = [version |-> version + 1, spec |-> objects[k].spec, dying |-> TRUE]
        /\ \A j \in Keys \ {k} : objects'[j] = objects[j]
        /\ objects' = [j \in Keys |-> objects'[j]]
        /\ version' = version + 1
        /\ k \in Lingering
    BY <1>2 DEF Shapes, Mark
  <2>2. objects'[k].version = version + 1 /\ objects'[k].dying /\ objects'[k].spec = objects[k].spec
    BY <2>1
  <2> QED
    BY <2>1, <2>2 DEF Written, Fresh
<1>3. CASE Dying(k) /\ UNCHANGED <<objects, version>>
  BY <1>3 DEF Shapes, Written, Dying, Exists
<1> QED
  BY <1>1, <1>2, <1>3 DEF Erase

\* Whoever writes, an object keeps what it is as long as it keeps its version.
LEMMA WriteKeeps ==
  ASSUME Shapes, Versions, NEW k \in Keys, Written(k)
  PROVE  /\ Versions'
         /\ \A j \in Keys :
              objects'[j] # Absent /\ objects'[j].version <= version => objects'[j] = objects[j]
<1>1. version \in Nat \ {0} /\ version' \in {version, version + 1}
  BY DEF Shapes, Written, Fresh
<1>2. \A j \in Keys : objects'[j] = Absent \/ objects'[j].version \in 1 .. version'
  BY <1>1 DEF Written, Fresh, Versions
<1>3. ASSUME NEW j \in Keys, objects'[j] # Absent, objects'[j].version <= version
      PROVE  objects'[j] = objects[j]
  BY <1>1, <1>3 DEF Written, Fresh
<1>5. ASSUME NEW j \in Keys, objects'[j] # Absent, objects'[j].dying
      PROVE  j \in Lingering
  <2>1. CASE j = k
    BY <1>5, <2>1 DEF Written, Versions
  <2>2. CASE j # k
    BY <1>5, <2>2 DEF Written, Versions, Dying, Exists
  <2> QED
    BY <2>1, <2>2
<1>4. Versions'
  BY <1>2, <1>5 DEF Versions, Dying, Exists
<1> QED
  BY <1>3, <1>4

Base == TypeOK /\ Shapes /\ ReadCurrent /\ Supervised

\* A goroutine that gets further stays the goroutine of its name.
LEMMA WorkerMoves ==
  ASSUME Shapes, NEW c \in Calls, NEW i \in DOMAIN goro[c],
         NEW place \in {"delete", "success", "failure", "done"},
         goro' = [goro EXCEPT ![c][i].at = place]
  PROVE  /\ goro' \in [Calls -> Seq(Worker)]
         /\ DOMAIN goro'[c] = DOMAIN goro[c] /\ Len(goro'[c]) = Len(goro[c])
         /\ goro'[c][i].at = place
         /\ \A j \in DOMAIN goro[c] : goro'[c][j].name = goro[c][j].name
         /\ \A j \in DOMAIN goro[c] \ {i} : goro'[c][j] = goro[c][j]
         /\ \A d \in Calls \ {c} : goro'[d] = goro[d]
<1>1. goro \in [Calls -> Seq(Worker)] /\ goro[c] \in Seq(Worker)
  BY DEF Shapes
<1>2. goro[c][i] \in Worker
  BY <1>1
<1> DEFINE w == [goro[c][i] EXCEPT !.at = place]
<1>3. w \in Worker /\ w.at = place /\ w.name = goro[c][i].name
  BY <1>2 DEF Worker
<1>4. goro' = [goro EXCEPT ![c] = [goro[c] EXCEPT ![i] = w]]
  OBVIOUS
<1> HIDE DEF w
<1>5. [goro[c] EXCEPT ![i] = w] \in Seq(Worker)
  BY <1>1, <1>3
<1>6. goro'[c] = [goro[c] EXCEPT ![i] = w] /\ \A d \in Calls \ {c} : goro'[d] = goro[d]
  BY <1>1, <1>4
<1>7. goro' \in [Calls -> Seq(Worker)]
  BY <1>1, <1>4, <1>5
<1>8. DOMAIN goro'[c] = DOMAIN goro[c] /\ Len(goro'[c]) = Len(goro[c])
  BY <1>1, <1>3, <1>6
<1>9. \A j \in DOMAIN goro[c] : goro'[c][j] = IF j = i THEN w ELSE goro[c][j]
  BY <1>1, <1>6
<1> QED
  BY <1>3, <1>6, <1>7, <1>8, <1>9

LEMMA WorkersBegin ==
  ASSUME NEW names \in Seq(Names)
  PROVE  /\ Workers(names) \in Seq(Worker)
         /\ DOMAIN Workers(names) = DOMAIN names /\ Len(Workers(names)) = Len(names)
         /\ \A i \in DOMAIN names :
              Workers(names)[i].at = "delete" /\ Workers(names)[i].name = names[i]
<1>1. \A i \in DOMAIN names : [name |-> names[i], at |-> "delete"] \in Worker
  BY DEF Worker
<1>2. Workers(names) = [i \in 1 .. Len(names) |-> [name |-> names[i], at |-> "delete"]]
  BY DEF Workers
<1>3. \A i \in 1 .. Len(names) : [name |-> names[i], at |-> "delete"] \in Worker
  BY <1>1
<1>4. Workers(names) \in Seq(Worker)
  BY <1>2, <1>3, IsASeq
<1> QED
  BY <1>2, <1>4

\* The names a selector finds are listed once each.
LEMMA NamesListed ==
  ASSUME NEW c \in Calls
  PROVE  SetToSeq(NamesSelected(request[c])) \in Seq(Names)
<1> DEFINE S == NamesSelected(request[c])
           all == {k[3] : k \in Keys}
           name == [k \in Keys |-> k[3]]
<1>1. S \in SUBSET all
  BY DEF NamesSelected
<1>2. name \in Surjection(Keys, all)
  BY DEF Surjection
<1>3. IsFiniteSet(all)
  BY <1>2, ToolWritesAssumption, FS_Surjection DEF ToolWritesAssumption
<1>4. IsFiniteSet(S)
  BY <1>1, <1>3, FS_Subset
<1> HIDE DEF S, all, name
<1>5. PICK f \in Bijection(1 .. Cardinality(S), S) : TRUE
  BY <1>4, FS_CardinalityType DEF ExistsBijection
<1>6. f \in [1 .. Cardinality(S) -> S] /\ IsInjective(f)
  BY <1>5 DEF Bijection, Injection
<1>7. SetToSeq(S) \in [1 .. Cardinality(S) -> S]
  BY <1>6 DEF SetToSeq
<1>8. Cardinality(S) \in Nat
  BY <1>4, FS_CardinalityType
<1>9. SetToSeq(S) \in Seq(all)
  BY <1>1, <1>7, <1>8
<1>10. all \in SUBSET Names
  BY DEF all, Names
<1> QED
  BY <1>9, <1>10 DEF S

LEMMA InitBase == Init => Base
<1> SUFFICES ASSUME Init PROVE Base
  OBVIOUS
<1>1. PICK s \in Scenarios : objects = s.objects /\ request = s.request
  BY DEF Init, Atomic!Init
<1>2. /\ objects = [k \in Keys |-> objects[k]]
      /\ \A k \in Keys : objects[k] = Absent \/ objects[k].version = 1
      /\ \A k \in Keys : objects[k] # Absent =>
           objects[k].dying \in (IF k \in Lingering THEN BOOLEAN ELSE {FALSE})
      /\ request = [c \in Calls |-> request[c]]
      /\ \A c \in Calls : request[c].tool = "delete_resources" =>
           request[c].names \in Seq(Range(request[c].names))
  <2>1. /\ objects = [k \in Keys |-> objects[k]]
        /\ request = [c \in Calls |-> request[c]]
        /\ \A c \in Calls : request[c].tool = "delete_resources" =>
             request[c].names \in Seq(Range(request[c].names))
    BY <1>1, ToolWritesAssumption DEF ToolWritesAssumption
  <2>2. ASSUME NEW k \in Keys, objects[k] # Absent
        PROVE  /\ objects[k].version = 1
               /\ objects[k].dying \in (IF k \in Lingering THEN BOOLEAN ELSE {FALSE})
    <3> DEFINE o == s.objects[k]
    <3>1. /\ o = [version |-> 1, spec |-> o.spec, dying |-> o.dying]
          /\ o.dying \in (IF k \in Lingering THEN BOOLEAN ELSE {FALSE})
      BY <1>1, <2>2, ToolWritesAssumption, Zenon DEF ToolWritesAssumption
    <3>2. objects[k] = o
      BY <1>1
    <3> HIDE DEF o
    <3>3. o.version = 1
      BY <3>1
    <3> QED
      BY <3>1, <3>2, <3>3, Zenon
  <2> QED
    BY <2>1, <2>2, Zenon
<1>3. ASSUME NEW c \in Calls, request[c].tool = "delete_resources"
      PROVE  request[c].names \in Seq(Names)
  <2>1. Range(request[c].names) \in SUBSET Names
    BY <1>3 DEF Names
  <2> QED
    BY <1>2, <1>3, <2>1
<1>4. version = 1 /\ answer = [c \in Calls |-> Pending]
  BY DEF Init, Atomic!Init, Pending
<1>5. Shapes
  BY <1>2, <1>3, <1>4 DEF Init, Shapes
<1>6. TypeOK
  <2>1. ASSUME NEW k \in Keys, Dying(k) PROVE k \in Lingering
    <3>1. objects[k] # Absent /\ objects[k].dying
      BY <2>1 DEF Dying, Exists
    <3>2. objects[k].dying \in (IF k \in Lingering THEN BOOLEAN ELSE {FALSE})
      BY <1>2, <3>1
    <3> QED
      BY <3>1, <3>2
  <2> QED
    BY <1>2, <1>4, <2>1 DEF Init, TypeOK, At, Places, Range
<1>7. ReadCurrent /\ Supervised
  BY DEF Init, ReadCurrent, Supervised, At
<1> QED
  BY <1>5, <1>6, <1>7 DEF Base

-----------------------------------------------------------------------------
(* Every step keeps Base.                                                  *)

\* A call that was answered is at "answered".
LEMMA AnswerFields ==
  /\ Failure # Pending
  /\ \A action, old : Success(action, old) # Pending /\ Success(action, old) # Failure
BY DEF Failure, Pending, Success, Atomic!Failure, Atomic!Pending, Atomic!Success

LEMMA ReportFields ==
  ASSUME NEW c \in Calls PROVE Report(c) # Pending
BY AnswerFields DEF Report

\* What Base asks of a step of one call that writes nothing.
LEMMA QuietStep ==
  ASSUME Base, NEW c \in Calls, NEW place \in Places, NEW a, NEW o,
         UNCHANGED <<objects, version, request, goro, result, removed>>,
         at' = [at EXCEPT ![c] = place],
         answer' = [answer EXCEPT ![c] = a], read' = [read EXCEPT ![c] = o],
         a = Pending <=> place # "answered",
         place \in {"list", "spawn", "wait"} => request[c].tool = "delete_resources",
         place \notin {"wait", "answered"} => goro[c] = <<>>,
         \A i \in DOMAIN goro[c] : goro[c][i].at # "done" => place = "wait",
         o # Absent =>
           /\ o.version \in 1 .. version
           /\ Exists(Target(request[c])) /\ objects[Target(request[c])].version = o.version =>
                objects[Target(request[c])] = o,
         place = "write" /\ request[c].tool \in Updates =>
           o # Absent /\ Editable(request[c], o.spec)
  PROVE  Base'
<1>1. TypeOK /\ Shapes /\ ReadCurrent /\ Supervised
  BY DEF Base
<1>2. /\ \A d \in Calls : at'[d] = IF d = c THEN place ELSE at[d]
      /\ \A d \in Calls : answer'[d] = IF d = c THEN a ELSE answer[d]
      /\ \A d \in Calls : read'[d] = IF d = c THEN o ELSE read[d]
      /\ at' \in [Calls -> Places]
  BY <1>1 DEF Shapes, TypeOK
<1>3. TypeOK'
  <2>1. \A k : Dying(k)' = Dying(k)
    BY DEF Dying, Exists
  <2>2. \A k \in Keys : Dying(k)' => k \in Lingering
    BY <1>1, <2>1 DEF TypeOK
  <2>3. \A k \in Keys : objects'[k] = Absent \/ objects'[k].version \in 1 .. version'
    BY <1>1 DEF TypeOK
  <2>4. \A d \in Calls : (answer'[d] = Pending) <=> at'[d] # "answered"
    BY <1>1, <1>2 DEF TypeOK, At
  <2>5. \A d \in Calls : Range(result'[d].success) \cup Range(result'[d].failure)
                           \subseteq {goro'[d][i].name : i \in DOMAIN goro'[d]}
    BY <1>1 DEF TypeOK
  <2> QED
    BY <1>2, <2>2, <2>3, <2>4, <2>5, Zenon DEF TypeOK, At
<1>4. Shapes'
  <2>1. answer' = [d \in Calls |-> answer'[d]] /\ read' = [d \in Calls |-> read'[d]]
    BY <1>1 DEF Shapes
  <2>2. Names' = Names
    BY DEF Names
  <2>3. Worker' = Worker
    BY <2>2 DEF Worker
  <2> QED
    BY <1>1, <2>1, <2>2, <2>3 DEF Shapes
<1>5. \A r : Target(r)' = Target(r) /\ \A k : Exists(k)' = Exists(k)
  BY DEF Target, Exists
<1>6. ReadCurrent'
  BY <1>1, <1>2, <1>5 DEF ReadCurrent, At
<1>7. Supervised'
  BY <1>1, <1>2 DEF Supervised, At
<1> QED
  BY <1>3, <1>4, <1>6, <1>7 DEF Base

\* What was read before a write is still told apart from what was written.
LEMMA ReadsKept ==
  ASSUME Base, NEW k \in Keys, Written(k), UNCHANGED <<request, read>>,
         \A d \in Calls : At(d, "write")' => At(d, "write")
  PROVE  Versions' /\ ReadCurrent'
<1>1. TypeOK /\ Shapes /\ ReadCurrent /\ Versions
  BY DEF Base, TypeOK, Versions
<1>2. /\ Versions'
      /\ \A j \in Keys :
           objects'[j] # Absent /\ objects'[j].version <= version => objects'[j] = objects[j]
  BY <1>1, WriteKeeps
<1>3. version \in Nat /\ version' \in {version, version + 1}
  BY <1>1 DEF Shapes, Written, Fresh
<1>4. ASSUME NEW d \in Calls, read[d] # Absent, NEW t, t = Target(request[d])
      PROVE  /\ read[d].version \in 1 .. version'
             /\ Exists(t)' /\ objects'[t].version = read[d].version => objects'[t] = read[d]
  <2>1. /\ read[d].version \in 1 .. version
        /\ Exists(t) /\ objects[t].version = read[d].version => objects[t] = read[d]
    BY <1>1, <1>4 DEF ReadCurrent
  <2> QED
    BY <1>2, <1>3, <2>1 DEF Exists
<1>5. \A r : Target(r)' = Target(r)
  BY DEF Target
<1>6. \A d \in Calls : Target(request[d])' = Target(request[d])
  BY DEF Target
<1>7. ReadCurrent'
  BY <1>1, <1>4, <1>6 DEF ReadCurrent
<1> QED
  BY <1>2, <1>7

\* A write by a call that is answered with it.
LEMMA AnsweredWrite ==
  ASSUME Base, NEW k \in Keys, Written(k), NEW c \in Calls, NEW a \in {Report(c), Failure},
         At(c, "write"), Answer(c, a), UNCHANGED <<request, read, goro, result, removed>>
  PROVE  Base'
<1>1. TypeOK /\ Shapes /\ ReadCurrent /\ Supervised
  BY DEF Base
<1>2. Names' = Names /\ Worker' = Worker
  BY DEF Names, Worker
<1>3. objects' = [j \in Keys |-> objects'[j]] /\ version' \in Nat \ {0}
  BY <1>1 DEF Shapes, Written, Fresh
<1>4. /\ \A d \in Calls : at'[d] = IF d = c THEN "answered" ELSE at[d]
      /\ \A d \in Calls : answer'[d] = IF d = c THEN a ELSE answer[d]
      /\ at' \in [Calls -> Places] /\ answer' = [d \in Calls |-> answer'[d]]
  BY <1>1 DEF Shapes, TypeOK, Places, Answer, Goto
<1>5. Versions' /\ ReadCurrent'
  BY <1>4, ReadsKept DEF At
<1>6. Shapes'
  BY <1>1, <1>2, <1>3, <1>4 DEF Shapes
<1>7. TypeOK'
  <2>1. a # Pending
    BY ReportFields, AnswerFields
  <2>2. \A d \in Calls : (answer'[d] = Pending) <=> at'[d] # "answered"
    BY <1>1, <1>4, <2>1 DEF TypeOK, At
  <2> QED
    BY <1>1, <1>4, <1>5, <2>2 DEF TypeOK, Versions, At
<1>8. Supervised'
  BY <1>1, <1>4 DEF Supervised, At
<1> QED
  BY <1>5, <1>6, <1>7, <1>8 DEF Base

\* A write by others or by a goroutine, which stays the one of its name.
LEMMA SilentWrite ==
  ASSUME Base, NEW k \in Keys, Written(k),
         UNCHANGED <<request, answer, at, read, result>>,
         goro' \in [Calls -> Seq(Worker)],
         \A c \in Calls :
           /\ DOMAIN goro'[c] = DOMAIN goro[c]
           /\ goro[c] = <<>> => goro'[c] = <<>>
           /\ \A i \in DOMAIN goro[c] :
                /\ goro'[c][i].name = goro[c][i].name
                /\ goro'[c][i].at # "done" => goro[c][i].at # "done",
         removed' \in [Calls -> SUBSET (Names \X Nat)]
  PROVE  Base'
<1>1. TypeOK /\ Shapes /\ ReadCurrent /\ Supervised
  BY DEF Base
<1>2. Names' = Names /\ Worker' = Worker
  BY DEF Names, Worker
<1>3. objects' = [j \in Keys |-> objects'[j]] /\ version' \in Nat \ {0}
  BY <1>1 DEF Shapes, Written, Fresh
<1>4. Versions' /\ ReadCurrent'
  BY ReadsKept DEF At
<1>5. Shapes'
  BY <1>1, <1>2, <1>3 DEF Shapes
<1>6. TypeOK'
  <2>1. \A c \in Calls : {goro'[c][i].name : i \in DOMAIN goro'[c]}
                           = {goro[c][i].name : i \in DOMAIN goro[c]}
    <3> TAKE c \in Calls
    <3> DEFINE f == goro'[c]
               g == goro[c]
    <3>1. DOMAIN f = DOMAIN g /\ \A i \in DOMAIN g : f[i].name = g[i].name
      OBVIOUS
    <3> HIDE DEF f, g
    <3>2. ASSUME NEW x \in {f[i].name : i \in DOMAIN f}
          PROVE  x \in {g[i].name : i \in DOMAIN g}
      <4>1. PICK i \in DOMAIN f : x = f[i].name
        OBVIOUS
      <4> QED
        BY <3>1, <4>1
    <3>3. ASSUME NEW x \in {g[i].name : i \in DOMAIN g}
          PROVE  x \in {f[i].name : i \in DOMAIN f}
      <4>1. PICK i \in DOMAIN g : x = g[i].name
        OBVIOUS
      <4> QED
        BY <3>1, <4>1
    <3> QED
      BY <3>2, <3>3 DEF f, g
  <2> QED
    BY <1>1, <1>4, <2>1 DEF TypeOK, Versions, At
<1>7. Supervised'
  BY <1>1 DEF Supervised, At
<1> QED
  BY <1>4, <1>5, <1>6, <1>7 DEF Base

\* A variable of the calls that is left alone.
LEMMA LeftAlone ==
  ASSUME Shapes, NEW c \in Calls
  PROVE  /\ read = [read EXCEPT ![c] = read[c]]
         /\ answer = [answer EXCEPT ![c] = answer[c]]
BY DEF Shapes

LEMMA BeginBase == ASSUME Base, NEW c \in Calls, Begin(c) PROVE Base'
<1>1. TypeOK /\ Shapes /\ ReadCurrent /\ Supervised /\ At(c, "start")
  BY DEF Base, Begin
<1>2. answer[c] = Pending /\ goro[c] = <<>> /\ DOMAIN goro[c] = {}
  BY <1>1 DEF TypeOK, Supervised, At
<1>3. read[c] # Absent =>
        /\ read[c].version \in 1 .. version
        /\ Exists(Target(request[c])) /\ objects[Target(request[c])].version = read[c].version =>
             objects[Target(request[c])] = read[c]
  BY <1>1 DEF ReadCurrent
<1>4. UNCHANGED <<objects, version, request, goro, result, removed>> /\ read' = read
  BY DEF Begin
<1>5. CASE Answer(c, Failure)
  BY <1>1, <1>2, <1>3, <1>4, <1>5, QuietStep, LeftAlone, AnswerFields DEF Answer, Goto, Places
<1>6. ASSUME NEW place \in Places, Goto(c, place), UNCHANGED answer,
             place \in {"get", "write", "list", "spawn"},
             place = "write" => request[c].tool \notin Updates,
             place \in {"list", "spawn"} => request[c].tool = "delete_resources"
      PROVE  Base'
  BY <1>1, <1>2, <1>3, <1>4, <1>6, QuietStep, LeftAlone DEF Goto
<1> QED
  BY <1>5, <1>6 DEF Begin, Getters, Places

LEMMA GetBase == ASSUME Base, NEW c \in Calls, Get(c) PROVE Base'
<1> DEFINE r == request[c]
           k == Target(r)
<1>1. TypeOK /\ Shapes /\ ReadCurrent /\ Supervised /\ At(c, "get")
  BY DEF Base, Get
<1>2. answer[c] = Pending /\ goro[c] = <<>> /\ DOMAIN goro[c] = {}
  BY <1>1 DEF TypeOK, Supervised, At
<1>3. read[c] # Absent =>
        /\ read[c].version \in 1 .. version
        /\ Exists(k) /\ objects[k].version = read[c].version => objects[k] = read[c]
  BY <1>1 DEF ReadCurrent
<1>4. UNCHANGED <<objects, version, request, goro, result, removed>>
  BY DEF Get
<1>5. CASE Answer(c, Failure) /\ UNCHANGED read
  BY <1>1, <1>2, <1>3, <1>4, <1>5, QuietStep, LeftAlone, AnswerFields DEF Answer, Goto, Places
<1>6. CASE Exists(k) /\ Editable(r, objects[k].spec) /\ read' = [read EXCEPT ![c] = objects[k]]
           /\ Goto(c, "write") /\ UNCHANGED answer
  <2>1. objects[k] # Absent /\ objects[k].version \in 1 .. version
    BY <1>1, <1>6 DEF TypeOK, Exists
  <2> QED
    BY <1>1, <1>2, <1>4, <1>6, <2>1, QuietStep, LeftAlone DEF Goto, Places
<1>7. CASE r.tool = "apply_yaml" /\ Goto(c, "write") /\ UNCHANGED <<read, answer>>
  <2>1. /\ at' = [at EXCEPT ![c] = "write"] /\ "write" \in Places
        /\ answer' = [answer EXCEPT ![c] = answer[c]] /\ read' = [read EXCEPT ![c] = read[c]]
    BY <1>1, <1>7, LeftAlone DEF Goto, Places
  <2>2. request[c].tool \notin Updates
    BY <1>7 DEF Updates
  <2> QED
    BY <1>2, <1>3, <1>4, <2>1, <2>2, QuietStep
<1> QED
  BY <1>5, <1>6, <1>7 DEF Get

\* A handler that answers and writes nothing.
LEMMA AnswerBase ==
  ASSUME Base, NEW c \in Calls, NEW a, a # Pending, Answer(c, a),
         \A i \in DOMAIN goro[c] : goro[c][i].at = "done",
         UNCHANGED <<objects, version, request, read, goro, result, removed>>
  PROVE  Base'
<1>1. TypeOK /\ Shapes /\ ReadCurrent
  BY DEF Base
<1>2. read[c] # Absent =>
        /\ read[c].version \in 1 .. version
        /\ Exists(Target(request[c])) /\ objects[Target(request[c])].version = read[c].version =>
             objects[Target(request[c])] = read[c]
  BY <1>1 DEF ReadCurrent
<1>3. /\ at' = [at EXCEPT ![c] = "answered"] /\ "answered" \in Places
      /\ answer' = [answer EXCEPT ![c] = a] /\ read' = [read EXCEPT ![c] = read[c]]
  BY <1>1, LeftAlone DEF Answer, Goto, Places
<1> QED
  BY <1>2, <1>3, QuietStep

\* The goroutines of a batch begin.
LEMMA BatchBase ==
  ASSUME Base, NEW c \in Calls, NEW names \in Seq(Names),
         At(c, "list") \/ At(c, "spawn"), Goto(c, "wait"),
         goro' = [goro EXCEPT ![c] = Workers(names)],
         UNCHANGED <<objects, version, request, answer, read, result, removed>>
  PROVE  Base'
<1>1. TypeOK /\ Shapes /\ ReadCurrent /\ Supervised
  BY DEF Base
<1>2. /\ at' \in [Calls -> Places]
      /\ \A d \in Calls : at'[d] = IF d = c THEN "wait" ELSE at[d]
      /\ at[c] # "answered"
      /\ request[c].tool = "delete_resources" /\ goro[c] = <<>> /\ DOMAIN goro[c] = {}
  BY <1>1 DEF TypeOK, Goto, Places, At, Supervised
<1>3. /\ goro' \in [Calls -> Seq(Worker)]
      /\ \A d \in Calls \ {c} : goro'[d] = goro[d]
  BY <1>1, WorkersBegin DEF Shapes
<1>4. Range(result[c].success) \cup Range(result[c].failure) = {}
  BY <1>1, <1>2 DEF TypeOK
<1>5. TypeOK'
  <2>1. \A d \in Calls : Range(result'[d].success) \cup Range(result'[d].failure)
                           \subseteq {goro'[d][j].name : j \in DOMAIN goro'[d]}
    <3> TAKE d \in Calls
    <3>1. CASE d = c
      BY <1>4, <3>1
    <3>2. CASE d # c
      <4>1. goro'[d] = goro[d] /\ result'[d] = result[d]
        BY <1>3, <3>2
      <4>2. Range(result[d].success) \cup Range(result[d].failure)
              \subseteq {goro[d][j].name : j \in DOMAIN goro[d]}
        BY <1>1 DEF TypeOK
      <4> QED
        BY <4>1, <4>2
    <3> QED
      BY <3>1, <3>2
  <2> QED
    BY <1>1, <1>2, <2>1 DEF TypeOK, At, Dying, Exists
<1>6. Shapes'
  <2>1. Names' = Names /\ Worker' = Worker
    BY DEF Names, Worker
  <2> QED
    BY <1>1, <1>3, <2>1 DEF Shapes
<1>7. ReadCurrent'
  <2>1. \A r : Target(r)' = Target(r) /\ \A k : Exists(k)' = Exists(k)
    BY DEF Target, Exists
  <2> QED
    BY <1>1, <1>2, <2>1 DEF ReadCurrent, At
<1>8. Supervised'
  BY <1>1, <1>2, <1>3 DEF Supervised, At
<1> QED
  BY <1>5, <1>6, <1>7, <1>8 DEF Base

LEMMA AppendInRange ==
  ASSUME NEW S, NEW s \in Seq(S), NEW x \in S
  PROVE  Append(s, x) \in Seq(S) /\ Range(Append(s, x)) = Range(s) \cup {x}
<1>1. /\ Append(s, x) \in Seq(S) /\ Len(Append(s, x)) = Len(s) + 1
      /\ \A i \in 1 .. Len(s) : Append(s, x)[i] = s[i]
      /\ Append(s, x)[Len(s) + 1] = x
  OBVIOUS
<1> QED
  BY <1>1 DEF Range

\* A name is booked in one of the lists.
LEMMA ListGrows ==
  ASSUME Shapes, NEW c \in Calls, NEW name \in Names, NEW list \in {"success", "failure"},
         result' = [result EXCEPT ![c][list] = Append(@, name)]
  PROVE  /\ result' \in [Calls -> [success : Seq(Names), failure : Seq(Names)]]
         /\ \A d \in Calls \ {c} : result'[d] = result[d]
         /\ result'[c].success =
              IF list = "success" THEN Append(result[c].success, name) ELSE result[c].success
         /\ result'[c].failure =
              IF list = "failure" THEN Append(result[c].failure, name) ELSE result[c].failure
<1>1. /\ result \in [Calls -> [success : Seq(Names), failure : Seq(Names)]]
      /\ result[c] \in [success : Seq(Names), failure : Seq(Names)]
  BY DEF Shapes
<1> DEFINE succeeded == [result[c] EXCEPT !.success = Append(result[c].success, name)]
           failed == [result[c] EXCEPT !.failure = Append(result[c].failure, name)]
<1>2. /\ succeeded \in [success : Seq(Names), failure : Seq(Names)]
      /\ failed \in [success : Seq(Names), failure : Seq(Names)]
      /\ succeeded.success = Append(result[c].success, name)
      /\ succeeded.failure = result[c].failure
      /\ failed.failure = Append(result[c].failure, name)
      /\ failed.success = result[c].success
  <2>1. /\ Append(result[c].success, name) \in Seq(Names)
        /\ Append(result[c].failure, name) \in Seq(Names)
    BY <1>1
  <2> QED
    BY <1>1, <2>1
<1>3. /\ list = "success" => result' = [result EXCEPT ![c] = succeeded]
      /\ list = "failure" => result' = [result EXCEPT ![c] = failed]
  OBVIOUS
<1> HIDE DEF succeeded, failed
<1>4. /\ list = "success" => result'[c] = succeeded
      /\ list = "failure" => result'[c] = failed
      /\ \A d \in Calls \ {c} : result'[d] = result[d]
      /\ result' \in [Calls -> [success : Seq(Names), failure : Seq(Names)]]
  BY <1>1, <1>2, <1>3
<1> QED
  BY <1>2, <1>4

\* A goroutine that fails, or that books its outcome.
LEMMA GoroutineBase ==
  ASSUME Base, NEW c \in Calls, NEW i \in DOMAIN goro[c], goro[c][i].at # "done",
         NEW place \in {"success", "failure", "done"},
         goro' = [goro EXCEPT ![c][i].at = place],
         UNCHANGED <<objects, version, request, answer, at, read, removed>>,
         \/ UNCHANGED result
         \/ \E list \in {"success", "failure"} :
              result' = [result EXCEPT ![c][list] = Append(@, goro[c][i].name)]
  PROVE  Base'
<1>1. TypeOK /\ Shapes /\ ReadCurrent /\ Supervised
  BY DEF Base
<1>2. /\ goro' \in [Calls -> Seq(Worker)]
      /\ DOMAIN goro'[c] = DOMAIN goro[c]
      /\ \A j \in DOMAIN goro[c] : goro'[c][j].name = goro[c][j].name
      /\ \A j \in DOMAIN goro[c] \ {i} : goro'[c][j] = goro[c][j]
      /\ \A d \in Calls \ {c} : goro'[d] = goro[d]
  BY <1>1, WorkerMoves
<1>3. goro[c][i].name \in Names
  <2>1. goro[c] \in Seq(Worker)
    BY <1>1 DEF Shapes
  <2>2. goro[c][i] \in Worker
    BY <2>1
  <2> QED
    BY <2>2 DEF Worker
<1>4. /\ result' \in [Calls -> [success : Seq(Names), failure : Seq(Names)]]
      /\ \A d \in Calls \ {c} : result'[d] = result[d]
      /\ Range(result'[c].success) \cup Range(result'[c].failure) \subseteq
           Range(result[c].success) \cup Range(result[c].failure) \cup {goro[c][i].name}
  <2>1. CASE UNCHANGED result
    BY <1>1, <2>1 DEF Shapes
  <2>2. ASSUME NEW list \in {"success", "failure"},
               result' = [result EXCEPT ![c][list] = Append(@, goro[c][i].name)]
        PROVE  /\ result' \in [Calls -> [success : Seq(Names), failure : Seq(Names)]]
               /\ \A d \in Calls \ {c} : result'[d] = result[d]
               /\ Range(result'[c].success) \cup Range(result'[c].failure) \subseteq
                    Range(result[c].success) \cup Range(result[c].failure)
                      \cup {goro[c][i].name}
    <3>1. result[c].success \in Seq(Names) /\ result[c].failure \in Seq(Names)
      BY <1>1 DEF Shapes
    <3>2. /\ Range(Append(result[c].success, goro[c][i].name))
               = Range(result[c].success) \cup {goro[c][i].name}
          /\ Range(Append(result[c].failure, goro[c][i].name))
               = Range(result[c].failure) \cup {goro[c][i].name}
      BY <1>3, <3>1, AppendInRange
    <3>3. /\ result' \in [Calls -> [success : Seq(Names), failure : Seq(Names)]]
          /\ \A d \in Calls \ {c} : result'[d] = result[d]
          /\ result'[c].success \in
               {result[c].success, Append(result[c].success, goro[c][i].name)}
          /\ result'[c].failure \in
               {result[c].failure, Append(result[c].failure, goro[c][i].name)}
      BY <1>1, <1>3, <2>2, ListGrows
    <3> QED
      BY <3>2, <3>3
  <2> QED
    BY <2>1, <2>2
<1>5. TypeOK'
  <2>1. Range(result[c].success) \cup Range(result[c].failure)
          \subseteq {goro[c][j].name : j \in DOMAIN goro[c]}
    BY <1>1 DEF TypeOK
  <2>2. ASSUME NEW x \in {goro[c][j].name : j \in DOMAIN goro[c]}
        PROVE  x \in {goro'[c][j].name : j \in DOMAIN goro'[c]}
    <3>1. PICK j \in DOMAIN goro[c] : x = goro[c][j].name
      OBVIOUS
    <3>2. j \in DOMAIN goro'[c] /\ x = goro'[c][j].name
      BY <1>2, <3>1
    <3> QED
      BY <3>2
  <2>3. goro[c][i].name \in {goro[c][j].name : j \in DOMAIN goro[c]}
    OBVIOUS
  <2>4. Range(result'[c].success) \cup Range(result'[c].failure)
          \subseteq {goro'[c][j].name : j \in DOMAIN goro'[c]}
    BY <1>4, <2>1, <2>2, <2>3
  <2>5. \A d \in Calls : Range(result'[d].success) \cup Range(result'[d].failure)
                           \subseteq {goro'[d][j].name : j \in DOMAIN goro'[d]}
    <3> TAKE d \in Calls
    <3>1. CASE d = c
      BY <2>4, <3>1
    <3>2. CASE d # c
      <4>1. goro'[d] = goro[d] /\ result'[d] = result[d]
        BY <1>2, <1>4, <3>2
      <4>2. Range(result[d].success) \cup Range(result[d].failure)
              \subseteq {goro[d][j].name : j \in DOMAIN goro[d]}
        BY <1>1 DEF TypeOK
      <4> QED
        BY <4>1, <4>2
    <3> QED
      BY <3>1, <3>2
  <2> QED
    BY <1>1, <2>5 DEF TypeOK, At, Dying, Exists
<1>6. Shapes'
  <2>1. Names' = Names /\ Worker' = Worker
    BY DEF Names, Worker
  <2> QED
    BY <1>1, <1>2, <1>4, <2>1 DEF Shapes
<1>7. ReadCurrent'
  <2>1. \A r : Target(r)' = Target(r) /\ \A k : Exists(k)' = Exists(k)
    BY DEF Target, Exists
  <2> QED
    BY <1>1, <2>1 DEF ReadCurrent, At
<1>8. Supervised'
  <2>1. At(c, "wait")
    BY <1>1 DEF Supervised
  <2> QED
    BY <1>1, <1>2, <2>1 DEF Supervised, At
<1> QED
  BY <1>5, <1>6, <1>7, <1>8 DEF Base

\* The request of a handler, and that of a goroutine, writes one object.
LEMMA RequestWrites ==
  ASSUME Shapes, NEW c \in Calls, Update(c) \/ Apply(c) \/ Create(c) \/ Patch(c) \/ Delete(c)
  PROVE  \E k \in Keys : Written(k)
<1>1. CASE Update(c) \/ Create(c) \/ Patch(c) \/ Delete(c)
  BY <1>1, PutWrites, EraseWrites DEF Update, Create, Patch, Delete, Unchanged, Exists, Free
<1>2. CASE Apply(c)
  <2>1. Target(request[c]) \in Keys /\ Put(Target(request[c]), request[c].spec)
    BY <1>2 DEF Apply, Unchanged, Exists, Free
  <2> QED
    BY <2>1, PutWrites
<1> QED
  BY <1>1, <1>2

LEMMA OthersWrite ==
  ASSUME Shapes, Outside PROVE \E k \in Keys : Written(k)
<1>1. PICK k \in Contended :
        \/ Exists(k) /\ \E e \in Edits : Put(k, Patched(objects[k].spec, e))
        \/ Exists(k) /\ Erase(k)
        \/ Free(k) /\ Put(k, Foreign(k))
  BY DEF Outside
<1>2. k \in Keys
  BY ApiServerAssumption DEF ApiServerAssumption
<1> QED
  BY <1>1, <1>2, PutWrites, EraseWrites

LEMMA HandlerBase == ASSUME Base, NEW c \in Calls, Handler(c) PROVE Base'
<1>1. TypeOK /\ Shapes /\ Supervised
  BY DEF Base
<1>2. \A action, old : Success(action, old) # Pending
  BY AnswerFields
<1>3. CASE Begin(c) \/ Get(c)
  BY <1>3, BeginBase, GetBase
<1>4. CASE Write(c)
  <2>1. PICK k \in Keys : Written(k)
    BY <1>1, <1>4, RequestWrites DEF Write
  <2> QED
    BY <1>4, <2>1, AnsweredWrite DEF Write
<1>5. CASE Reject(c)
  <2>1. DOMAIN goro[c] = {}
    BY <1>1, <1>5 DEF Reject, At, Supervised
  <2> QED
    BY <1>5, <2>1, AnswerBase, AnswerFields DEF Reject
<1>6. CASE List(c)
  <2>0. at[c] = "list"
    BY <1>6 DEF List, At
  <2>1. DOMAIN goro[c] = {}
    BY <1>1, <2>0 DEF Supervised
  <2>2. CASE (\E a \in {Failure, Success("delete_resources", "")} : Answer(c, a))
             /\ UNCHANGED goro
    BY <1>2, <1>6, <2>1, <2>2, AnswerBase, AnswerFields DEF List
  <2>3. CASE goro' = [goro EXCEPT ![c] = Workers(SetToSeq(NamesSelected(request[c])))]
             /\ Goto(c, "wait") /\ UNCHANGED answer
    BY <1>6, <2>3, NamesListed, BatchBase DEF List
  <2> QED
    BY <1>6, <2>2, <2>3 DEF List
<1>7. CASE Spawn(c)
  <2>1. request[c].names \in Seq(Names)
    BY <1>1, <1>7 DEF Spawn, At, Supervised, Shapes
  <2> QED
    BY <1>7, <2>1, BatchBase DEF Spawn
<1>8. CASE Join(c)
  BY <1>2, <1>8, AnswerBase DEF Join
<1> QED
  BY <1>3, <1>4, <1>5, <1>6, <1>7, <1>8 DEF Handler

LEMMA WorkerBase ==
  ASSUME Base, NEW c \in Calls, NEW i \in DOMAIN goro[c], Goroutine(c, i) PROVE Base'
<1>1. TypeOK /\ Shapes /\ Supervised
  BY DEF Base
<1>2. CASE Book(c, i)
  BY <1>2, GoroutineBase DEF Book
<1>3. CASE DeleteName(c, i) /\ UNCHANGED <<objects, version, removed>>
           /\ goro' = [goro EXCEPT ![c][i].at = "failure"]
  BY <1>3, GoroutineBase DEF DeleteName
<1>4. ASSUME NEW o \in {"success", "failure"},
             DeleteName(c, i), Exists(NameKey(c, i)), Erase(NameKey(c, i)),
             goro' = [goro EXCEPT ![c][i].at = o],
             removed' = [removed EXCEPT ![c] =
               @ \cup {<<goro[c][i].name, objects[NameKey(c, i)].version>>}]
      PROVE  Base'
  <2>1. Written(NameKey(c, i)) /\ NameKey(c, i) \in Keys
    BY <1>1, <1>4, EraseWrites DEF Exists
  <2>2. /\ goro' \in [Calls -> Seq(Worker)]
        /\ DOMAIN goro'[c] = DOMAIN goro[c] /\ Len(goro'[c]) = Len(goro[c])
        /\ goro'[c][i].at # "done"
        /\ \A j \in DOMAIN goro[c] : goro'[c][j].name = goro[c][j].name
        /\ \A j \in DOMAIN goro[c] \ {i} : goro'[c][j] = goro[c][j]
        /\ \A d \in Calls \ {c} : goro'[d] = goro[d]
    BY <1>1, <1>4, WorkerMoves
  <2>3. goro[c][i].at # "done"
    BY <1>4 DEF DeleteName
  <2>4. goro[c][i].name \in Names
    <3>1. goro[c] \in Seq(Worker)
      BY <1>1 DEF Shapes
    <3>2. goro[c][i] \in Worker
      BY <3>1
    <3> QED
      BY <3>2 DEF Worker
  <2>5. objects[NameKey(c, i)].version \in Nat
    BY <1>1, <1>4 DEF TypeOK, Shapes, Exists
  <2>6. removed' \in [Calls -> SUBSET (Names \X Nat)]
    <3> DEFINE pair == <<goro[c][i].name, objects[NameKey(c, i)].version>>
    <3>1. pair \in Names \X Nat
      BY <2>4, <2>5
    <3>2. removed' = [removed EXCEPT ![c] = removed[c] \cup {pair}]
      BY <1>4
    <3>3. removed \in [Calls -> SUBSET (Names \X Nat)]
      BY <1>1 DEF Shapes
    <3> HIDE DEF pair
    <3> QED
      BY <3>1, <3>2, <3>3
  <2>7. \A d \in Calls :
          /\ DOMAIN goro'[d] = DOMAIN goro[d]
          /\ goro[d] = <<>> => goro'[d] = <<>>
          /\ \A j \in DOMAIN goro[d] :
               /\ goro'[d][j].name = goro[d][j].name
               /\ goro'[d][j].at # "done" => goro[d][j].at # "done"
    BY <2>2, <2>3
  <2>8. UNCHANGED <<request, answer, at, read, result>>
    BY <1>4 DEF DeleteName
  <2> QED
    BY <2>1, <2>2, <2>6, <2>7, <2>8, SilentWrite
<1> QED
  BY <1>2, <1>3, <1>4 DEF Goroutine, DeleteName

LEMMA StepBase == ASSUME Base, [Next]_vars PROVE Base'
<1>1. TypeOK /\ Shapes /\ ReadCurrent /\ Supervised
  BY DEF Base
<1>2. CASE UNCHANGED vars
  <2>1. Names' = Names /\ Worker' = Worker
    BY <1>2 DEF Names, Worker, vars
  <2>2. TypeOK'
    BY <1>1, <1>2 DEF TypeOK, vars, At, Dying, Exists
  <2>3. Shapes'
    BY <1>1, <1>2, <2>1 DEF Shapes, vars
  <2>4. ReadCurrent'
    BY <1>1, <1>2 DEF ReadCurrent, vars, At, Target, Exists
  <2>5. Supervised'
    BY <1>1, <1>2 DEF Supervised, vars, At
  <2> QED
    BY <2>2, <2>3, <2>4, <2>5 DEF Base
<1>3. CASE Others
  <2>1. PICK k \in Keys : Written(k)
    BY <1>1, <1>3, OthersWrite DEF Others
  <2>2. UNCHANGED <<request, answer, at, read, goro, result, removed>>
    BY <1>3 DEF Others
  <2>3. goro' \in [Calls -> Seq(Worker)] /\ removed' \in [Calls -> SUBSET (Names \X Nat)]
    BY <1>1, <2>2 DEF Shapes
  <2> QED
    BY <2>1, <2>2, <2>3, SilentWrite
<1> QED
  BY <1>2, <1>3, HandlerBase, WorkerBase DEF Next, Quiet

\* Every variable has its type, whatever is asked for at the same time; a caller
\* is told something exactly when its handler has returned.
THEOREM WritesTypes == Spec => []TypeOK
<1>1. Init => Base
  BY InitBase
<1>2. Base /\ [Next]_vars => Base'
  BY StepBase
<1>3. Base => TypeOK
  BY DEF Base
<1> QED
  BY <1>1, <1>2, <1>3, PTL DEF Spec

-----------------------------------------------------------------------------
(* ToolWrites implements AtomicWrites.                                     *)

abstract == <<objects, version, request, answer>>

\* The words of AtomicWrites' answers.
LEMMA SameAnswers ==
  /\ Atomic!Pending = Pending /\ Atomic!Failure = Failure
  /\ \A action, old : Atomic!Success(action, old) = Success(action, old)
BY DEF Pending, Failure, Success

\* What is written is the call's work, done now, and what is reported is true now:
\* an update finds the object it has read, for its version is the one read.
LEMMA WriteServes ==
  ASSUME Base, NEW c \in Calls, Write(c)
  PROVE  Atomic!Serve(c)
<1> DEFINE r == request[c]
           k == Target(r)
<1>1. TypeOK /\ ReadCurrent /\ At(c, "write")
  BY DEF Base, Write
<1>2. answer[c] = Atomic!Pending
  BY <1>1, SameAnswers DEF TypeOK, At
<1>3. UNCHANGED request /\ \E a \in {Report(c), Failure} : answer' = [answer EXCEPT ![c] = a]
  BY DEF Write, Answer
<1>4. SUFFICES Atomic!Work(r) /\ Atomic!Told(r) = Report(c)
  BY <1>2, <1>3, SameAnswers DEF Atomic!Serve
<1>5. read[c] # Absent /\ Exists(k) /\ objects[k].version = read[c].version =>
        objects[k] = read[c]
  BY <1>1 DEF ReadCurrent
<1>6. CASE Update(c)
  <2>1. r.tool \in Updates /\ Unchanged(c) /\ \E now \in Seconds : Put(k, Edited(r, read[c].spec, now))
    BY <1>6 DEF Update
  <2>2. read[c] # Absent /\ Editable(r, read[c].spec)
    BY <1>1, <2>1 DEF ReadCurrent
  <2>3. Exists(k) /\ objects[k] = read[c]
    BY <1>5, <2>1, <2>2 DEF Unchanged
  <2>4. Atomic!Work(r)
    BY <2>1, <2>2, <2>3, SameWords, SameWrites DEF Atomic!Work
  <2>5. Atomic!Told(r) = Report(c)
    <3>0. r.tool # "apply_yaml"
      BY <2>1 DEF Updates
    <3>1. Report(c) = Success(r.tool, OldValue(r, objects[k].spec))
      BY <2>1, <2>3, <3>0 DEF Report
    <3>2. r.tool \in Atomic!Updates
      BY <2>1, SameWords
    <3>3. Atomic!Told(r) = Atomic!Success(r.tool, Atomic!OldValue(r, objects[Atomic!Target(r)].spec))
      BY <3>0, <3>2 DEF Atomic!Told
    <3> QED
      BY <3>1, <3>3, SameWords, SameAnswers
  <2> QED
    BY <2>4, <2>5
<1>7. CASE Apply(c)
  <2>1. r.tool = "apply_yaml" /\ Put(k, r.spec) /\ k \in Keys
        /\ (read[c] # Absent <=> Exists(k))
    BY <1>5, <1>7 DEF Apply, Unchanged, Exists, Free
  <2>2. Atomic!Work(r)
    BY <2>1, SameWords, SameWrites DEF Atomic!Work
  <2>3. Atomic!Told(r) = Report(c)
    BY <2>1, SameWords, SameAnswers DEF Atomic!Told, Report, Updates
  <2> QED
    BY <2>2, <2>3
<1>8. CASE Create(c) \/ Patch(c) \/ Delete(c)
  <2>1. r.tool \in {"create", "create_from_yaml", "patch_resource", "delete"}
    BY <1>8 DEF Create, Patch, Delete
  <2>2. Atomic!Work(r)
    BY <1>8, SameWords, SameWrites DEF Atomic!Work, Create, Patch, Delete
  <2>3. Atomic!Told(r) = Report(c)
    BY <2>1, SameWords, SameAnswers DEF Atomic!Told, Report, Updates
  <2> QED
    BY <2>2, <2>3
<1> QED
  BY <1>6, <1>7, <1>8 DEF Write

\* A handler that writes nothing fails, ends a batch, or is not seen at all.
LEMMA HandlerRefines ==
  ASSUME Base, NEW c \in Calls, Handler(c)
  PROVE  Atomic!Next \/ UNCHANGED abstract
<1>1. TypeOK /\ Supervised
  BY DEF Base
<1>2. ASSUME Answer(c, Failure), at[c] # "answered", UNCHANGED <<objects, version, request>>
      PROVE  Atomic!Fail(c)
  BY <1>1, <1>2, SameAnswers DEF TypeOK, At, Answer, Atomic!Fail
<1>3. ASSUME Answer(c, Success("delete_resources", "")), at[c] \in {"list", "wait"},
             UNCHANGED <<objects, version, request>>
      PROVE  Atomic!Summarise(c)
  BY <1>1, <1>3, SameAnswers DEF TypeOK, At, Answer, Supervised, Atomic!Summarise
<1>4. CASE Begin(c) \/ Get(c) \/ Reject(c)
  BY <1>2, <1>4 DEF Begin, Get, Reject, At, abstract, Atomic!Next
<1>5. CASE List(c) \/ Spawn(c) \/ Join(c)
  BY <1>2, <1>3, <1>5 DEF List, Spawn, Join, At, abstract, Atomic!Next
<1>6. CASE Write(c)
  BY <1>6, WriteServes DEF Atomic!Next
<1> QED
  BY <1>4, <1>5, <1>6 DEF Handler

\* What a goroutine deletes, its batch may delete.
LEMMA WorkerRefines ==
  ASSUME Base, NEW c \in Calls, NEW i \in DOMAIN goro[c], Goroutine(c, i)
  PROVE  Atomic!Next \/ UNCHANGED abstract
<1>1. TypeOK /\ Supervised
  BY DEF Base
<1>2. CASE UNCHANGED <<objects, version>>
  BY <1>2 DEF Goroutine, DeleteName, Book, abstract
<1>3. CASE DeleteName(c, i) /\ Exists(NameKey(c, i)) /\ Erase(NameKey(c, i))
           /\ request[c].kind \in BatchKinds
  <2>1. at[c] = "wait" /\ request[c].tool = "delete_resources" /\ answer[c] = Atomic!Pending
    BY <1>1, <1>3, SameAnswers DEF DeleteName, Supervised, TypeOK, At
  <2>2. goro[c][i].name \in {k[3] : k \in Keys}
    BY <1>3 DEF NameKey, BatchKey, Exists
  <2>3. Atomic!DeleteOne(c)
    BY <1>3, <2>1, <2>2, SameWords, SameWrites DEF NameKey, BatchKey, DeleteName, Atomic!DeleteOne
  <2> QED
    BY <2>3 DEF Atomic!Next
<1> QED
  BY <1>2, <1>3 DEF Goroutine, DeleteName, Book

\* What the API server keeps and what the callers are told is what calls that do
\* their work at one instant would give: no update overwrites what somebody else
\* wrote after the read, and each reports what it replaced.
THEOREM WritesAtomic == Spec => ImplementsAtomicWrites
<1>1. Init => Base /\ Atomic!Init
  BY InitBase DEF Init
<1>2. Base /\ [Next]_vars => Base'
  BY StepBase
<1>3. ASSUME Base, [Next]_vars PROVE [Atomic!Next]_abstract
  <2>1. CASE UNCHANGED vars
    BY <2>1 DEF vars, abstract
  <2>2. CASE Others
    BY <2>2, SameWrites DEF Others, Atomic!Next
  <2> QED
    BY <1>3, <2>1, <2>2, HandlerRefines, WorkerRefines DEF Next, Quiet
<1> QED
  BY <1>1, <1>2, <1>3, PTL DEF Spec, ImplementsAtomicWrites, Atomic!Spec, abstract

-----------------------------------------------------------------------------
(* The books of a batch.                                                   *)

LEMMA SubsetsCount ==
  ASSUME NEW s, NEW S, s \in Seq(S), NEW T \in SUBSET (DOMAIN s)
  PROVE  IsFiniteSet(T) /\ Cardinality(T) \in Nat
<1>1. IsFiniteSet(DOMAIN s)
  BY FS_Interval
<1> QED
  BY <1>1, FS_Subset, FS_CardinalityType

LEMMA OneMoreOrLess ==
  ASSUME NEW T, IsFiniteSet(T), NEW x
  PROVE  /\ Cardinality(T) \in Nat
         /\ x \in T => Cardinality(T \cup {x}) = Cardinality(T)
         /\ x \notin T => Cardinality(T \cup {x}) = Cardinality(T) + 1
         /\ x \in T => Cardinality(T \ {x}) = Cardinality(T) - 1
         /\ x \notin T => Cardinality(T \ {x}) = Cardinality(T)
BY FS_CardinalityType, FS_AddElement, FS_RemoveElement

\* How often a name is in a list that grows.
LEMMA CountGrows ==
  ASSUME NEW S, NEW s \in Seq(S), NEW x \in S, NEW n
  PROVE  /\ Cardinality(Counted(s, n)) \in Nat
         /\ Cardinality(Counted(Append(s, x), n)) =
              Cardinality(Counted(s, n)) + IF x = n THEN 1 ELSE 0
         /\ x # n => Counted(Append(s, x), n) = Counted(s, n)
<1>1. IsFiniteSet(Counted(s, n)) /\ Cardinality(Counted(s, n)) \in Nat
  BY SubsetsCount DEF Counted
<1>2. DOMAIN Append(s, x) = DOMAIN s \cup {Len(s) + 1} /\ Len(s) + 1 \notin DOMAIN s
  OBVIOUS
<1>3. \A i \in DOMAIN s : Append(s, x)[i] = s[i]
  OBVIOUS
<1>4. Append(s, x)[Len(s) + 1] = x
  OBVIOUS
<1>5. Counted(Append(s, x), n) =
        IF x = n THEN Counted(s, n) \cup {Len(s) + 1} ELSE Counted(s, n)
  BY <1>2, <1>3, <1>4 DEF Counted
<1>6. Len(s) + 1 \notin Counted(s, n)
  BY <1>2 DEF Counted
<1>7. Cardinality(Counted(s, n) \cup {Len(s) + 1}) = Cardinality(Counted(s, n)) + 1
  BY <1>1, <1>6, OneMoreOrLess
<1> QED
  BY <1>1, <1>5, <1>7

\* What becomes of the numbers of goroutines at a place, and of those that are
\* to book a success of a name, when goroutine i gets to `to`.
PlacesCounted(c, i, to) ==
  \A place :
    /\ Cardinality(WorkersAt(c, place)) \in Nat
    /\ Cardinality(WorkersAt(c, place)') =
         Cardinality(WorkersAt(c, place))
           + (IF place = to THEN 1 ELSE IF place = goro[c][i].at THEN -1 ELSE 0)

NamesCounted(c, i, to) ==
  \A n :
    /\ Cardinality(WorkersOf(c, n)) \in Nat
    /\ Cardinality(WorkersOf(c, n)') =
         Cardinality(WorkersOf(c, n))
           + (IF n # goro[c][i].name THEN 0
              ELSE IF to = "success" THEN 1
              ELSE IF goro[c][i].at = "success" THEN -1 ELSE 0)

\* The goroutines at a place, when one of them gets further.
LEMMA WorkersCount ==
  ASSUME Shapes, NEW c \in Calls, NEW i \in DOMAIN goro[c],
         NEW to \in {"delete", "success", "failure", "done"}, goro[c][i].at # to,
         goro' = [goro EXCEPT ![c][i].at = to]
  PROVE  PlacesCounted(c, i, to) /\ NamesCounted(c, i, to)
<1> SUFFICES ASSUME NEW place, NEW n
    PROVE  /\ Cardinality(WorkersAt(c, place)') =
                Cardinality(WorkersAt(c, place))
                  + (IF place = to THEN 1 ELSE IF place = goro[c][i].at THEN -1 ELSE 0)
           /\ Cardinality(WorkersOf(c, n)') =
                Cardinality(WorkersOf(c, n))
                  + (IF n # goro[c][i].name THEN 0
                     ELSE IF to = "success" THEN 1
                     ELSE IF goro[c][i].at = "success" THEN -1 ELSE 0)
           /\ Cardinality(WorkersAt(c, place)) \in Nat
           /\ Cardinality(WorkersOf(c, n)) \in Nat
  BY DEF PlacesCounted, NamesCounted
<1>1. goro[c] \in Seq(Worker)
  BY DEF Shapes
<1>2. /\ DOMAIN goro'[c] = DOMAIN goro[c]
      /\ goro'[c][i].at = to
      /\ \A j \in DOMAIN goro[c] : goro'[c][j].name = goro[c][j].name
      /\ \A j \in DOMAIN goro[c] \ {i} : goro'[c][j] = goro[c][j]
  BY WorkerMoves
<1>3. /\ IsFiniteSet(WorkersAt(c, place)) /\ Cardinality(WorkersAt(c, place)) \in Nat
      /\ IsFiniteSet(WorkersOf(c, n)) /\ Cardinality(WorkersOf(c, n)) \in Nat
  BY <1>1, SubsetsCount DEF WorkersAt, WorkersOf
<1>4. WorkersAt(c, place)' =
        IF place = to THEN WorkersAt(c, place) \cup {i} ELSE WorkersAt(c, place) \ {i}
  BY <1>2 DEF WorkersAt
<1>5. i \in WorkersAt(c, place) <=> place = goro[c][i].at
  BY DEF WorkersAt
<1>6. WorkersOf(c, n)' =
        IF to = "success" /\ n = goro[c][i].name THEN WorkersOf(c, n) \cup {i}
        ELSE WorkersOf(c, n) \ {i}
  BY <1>2 DEF WorkersOf, WorkersAt
<1>7. i \in WorkersOf(c, n) <=> goro[c][i].at = "success" /\ n = goro[c][i].name
  BY DEF WorkersOf, WorkersAt
<1>8. Cardinality(WorkersAt(c, place)') =
        Cardinality(WorkersAt(c, place))
          + (IF place = to THEN 1 ELSE IF place = goro[c][i].at THEN -1 ELSE 0)
  <2> DEFINE before == WorkersAt(c, place)
             after == WorkersAt(c, place)'
  <2>1. /\ place = to => i \notin before /\ after = before \cup {i}
        /\ place # to => after = before \ {i}
        /\ place = goro[c][i].at <=> i \in before
    BY <1>4, <1>5
  <2>2. IsFiniteSet(before) /\ Cardinality(before) \in Nat
    BY <1>3
  <2> HIDE DEF before, after
  <2>3. Cardinality(after) = Cardinality(before)
          + (IF place = to THEN 1 ELSE IF place = goro[c][i].at THEN -1 ELSE 0)
    <3>1. CASE place = to
      BY <2>1, <2>2, <3>1, OneMoreOrLess
    <3>2. CASE place # to /\ i \in before
      BY <2>1, <2>2, <3>2, OneMoreOrLess
    <3>3. CASE place # to /\ i \notin before
      BY <2>1, <2>2, <3>3, OneMoreOrLess
    <3> QED
      BY <3>1, <3>2, <3>3
  <2> QED
    BY <2>3 DEF before, after
<1>9. Cardinality(WorkersOf(c, n)') =
        Cardinality(WorkersOf(c, n))
          + (IF n # goro[c][i].name THEN 0
             ELSE IF to = "success" THEN 1
             ELSE IF goro[c][i].at = "success" THEN -1 ELSE 0)
  <2> DEFINE before == WorkersOf(c, n)
             after == WorkersOf(c, n)'
             joins == to = "success" /\ n = goro[c][i].name
  <2>1. /\ joins => i \notin before /\ after = before \cup {i}
        /\ ~joins => after = before \ {i}
        /\ goro[c][i].at = "success" /\ n = goro[c][i].name <=> i \in before
    BY <1>6, <1>7
  <2>2. IsFiniteSet(before) /\ Cardinality(before) \in Nat
    BY <1>3
  <2> HIDE DEF before, after
  <2>3. Cardinality(after) = Cardinality(before)
          + (IF n # goro[c][i].name THEN 0
             ELSE IF to = "success" THEN 1
             ELSE IF goro[c][i].at = "success" THEN -1 ELSE 0)
    <3>1. CASE joins
      BY <2>1, <2>2, <3>1, OneMoreOrLess
    <3>2. CASE ~joins /\ i \in before
      BY <2>1, <2>2, <3>2, OneMoreOrLess
    <3>3. CASE ~joins /\ i \notin before
      <4>1. Cardinality(after) = Cardinality(before)
        BY <2>1, <2>2, <3>3, OneMoreOrLess
      <4> QED
        BY <2>1, <2>2, <3>3, <4>1
    <3> QED
      BY <3>1, <3>2, <3>3
  <2> QED
    BY <2>3 DEF before, after
<1> QED
  BY <1>3, <1>8, <1>9

\* A goroutine that does not get to "success" joins no name's successes.
LEMMA NoNewSuccess ==
  ASSUME Shapes, NEW c \in Calls, NEW i \in DOMAIN goro[c], NEW to \in {"failure", "done"},
         goro' = [goro EXCEPT ![c][i].at = to], NEW n
  PROVE  WorkersOf(c, n)' \subseteq WorkersOf(c, n)
<1>1. /\ DOMAIN goro'[c] = DOMAIN goro[c]
      /\ goro'[c][i].at # "success"
      /\ \A j \in DOMAIN goro[c] \ {i} : goro'[c][j] = goro[c][j]
  BY WorkerMoves
<1> QED
  BY <1>1 DEF WorkersOf, WorkersAt

\* Nor does one of another name.
LEMMA NoOthersSuccess ==
  ASSUME Shapes, NEW c \in Calls, NEW i \in DOMAIN goro[c], NEW to \in {"success", "failure"},
         goro' = [goro EXCEPT ![c][i].at = to], NEW n, n # goro[c][i].name
  PROVE  WorkersOf(c, n)' \subseteq WorkersOf(c, n)
<1>1. /\ DOMAIN goro'[c] = DOMAIN goro[c]
      /\ goro'[c][i].name = goro[c][i].name
      /\ \A j \in DOMAIN goro[c] \ {i} : goro'[c][j] = goro[c][j]
  BY WorkerMoves
<1> QED
  BY <1>1 DEF WorkersOf, WorkersAt

\* The object a name of the batch of c means.
Deletable(c, n) == BatchKey(request[c], n)

\* What a batch has deleted does not come back, whoever writes.
LEMMA StaysDeleted ==
  ASSUME Shapes, UNCHANGED <<objects, version>> \/ \E k \in Keys : Written(k),
         UNCHANGED request, NEW c \in Calls, NEW p \in removed[c],
         p[2] <= version,
         Removed(Deletable(c, p[1]), p[2])
  PROVE  /\ p[2] <= version'
         /\ Removed(Deletable(c, p[1]), p[2])'
<1>1. version \in Nat /\ p[2] \in Nat
  BY DEF Shapes
<1>2. Deletable(c, p[1])' = Deletable(c, p[1])
  BY DEF Deletable
<1>3. CASE UNCHANGED <<objects, version>>
  BY <1>2, <1>3 DEF Removed, Dying, Exists
<1>4. ASSUME NEW k \in Keys, Written(k)
      PROVE  /\ p[2] <= version'
             /\ Removed(Deletable(c, p[1]), p[2])'
  <2> DEFINE d == Deletable(c, p[1])
  <2>1. version' \in {version, version + 1}
    BY <1>4 DEF Written, Fresh
  <2>2. CASE d \in Keys /\ objects'[d] = objects[d]
    BY <1>1, <1>2, <2>1, <2>2 DEF Removed, Dying, Exists
  <2>3. CASE d = k /\ Fresh(k)
    BY <1>1, <1>2, <2>1, <2>3 DEF Fresh, Removed, Exists
  <2>4. CASE d \notin Keys
    BY <1>1, <1>2, <2>1, <2>4 DEF Removed, Exists
  <2> QED
    BY <1>4, <2>2, <2>3, <2>4 DEF Written
<1> QED
  BY <1>3, <1>4

\* The four facts about the batch of one call.
Booked(c) ==
  /\ Len(result[c].success) + Len(result[c].failure) = Cardinality(WorkersAt(c, "done"))
  /\ IsFiniteSet(removed[c])
  /\ \A n \in Names :
       /\ RemovedOf(c, n) = {} => Counted(result[c].success, n) = {} /\ WorkersOf(c, n) = {}
       /\ Deletable(c, n) \notin Lingering =>
            Cardinality(Counted(result[c].success, n)) + Cardinality(WorkersOf(c, n))
              <= Cardinality(RemovedOf(c, n))
  /\ \A p \in removed[c] : p[2] <= version /\ Removed(Deletable(c, p[1]), p[2])

LEMMA BooksOfCalls == BooksKept <=> \A c \in Calls : Booked(c)
BY DEF BooksKept, Booked, Deletable

\* A step that leaves the batch of c alone.
LEMMA OtherBooks ==
  ASSUME Shapes, NEW c \in Calls, Booked(c),
         UNCHANGED <<objects, version>> \/ \E k \in Keys : Written(k),
         UNCHANGED request,
         result'[c] = result[c], removed'[c] = removed[c],
         goro'[c] = goro[c] \/ (goro[c] = <<>> /\ \A i \in DOMAIN goro'[c] : goro'[c][i].at = "delete")
  PROVE  Booked(c)'
<1>1. WorkersAt(c, "done")' = WorkersAt(c, "done") /\ WorkersAt(c, "success")' = WorkersAt(c, "success")
  BY DEF WorkersAt
<1>2. \A n : WorkersOf(c, n)' = WorkersOf(c, n)
  BY <1>1 DEF WorkersOf, WorkersAt
<1>3. \A n : /\ RemovedOf(c, n)' = RemovedOf(c, n)
             /\ Counted(result[c].success, n)' = Counted(result[c].success, n)
  BY DEF RemovedOf, Counted
<1>4. Names' = Names
  BY DEF Names
<1>5. \A p \in removed'[c] :
        /\ p[2] <= version'
        /\ Removed(Deletable(c, p[1]), p[2])'
  BY StaysDeleted DEF Booked
<1>6. \A n : Deletable(c, n)' = Deletable(c, n)
  BY DEF Deletable
<1> QED
  BY <1>1, <1>2, <1>3, <1>4, <1>5, <1>6 DEF Booked

\* A goroutine books the outcome it has.
LEMMA BookBooks ==
  ASSUME Base, NEW c \in Calls, NEW i \in DOMAIN goro[c], Book(c, i), Booked(c)
  PROVE  Booked(c)'
<1> DEFINE name == goro[c][i].name
           succ == result[c].success
           fail == result[c].failure
<1>1. Shapes /\ goro[c][i] \in Worker /\ name \in Names
  <2>1. Shapes /\ goro[c] \in Seq(Worker)
    BY DEF Base, Shapes
  <2>2. goro[c][i] \in Worker
    BY <2>1
  <2> QED
    BY <2>1, <2>2 DEF Worker
<1>2. /\ goro[c][i].at \in {"success", "failure"}
      /\ goro' = [goro EXCEPT ![c][i].at = "done"]
      /\ result' = [result EXCEPT ![c][goro[c][i].at] = Append(@, name)]
      /\ UNCHANGED <<objects, version, request, removed>>
  BY DEF Book
<1>3. /\ result'[c].success = IF goro[c][i].at = "success" THEN Append(succ, name) ELSE succ
      /\ result'[c].failure = IF goro[c][i].at = "failure" THEN Append(fail, name) ELSE fail
  BY <1>1, <1>2, ListGrows
<1>4. succ \in Seq(Names) /\ fail \in Seq(Names)
  BY <1>1 DEF Shapes
<1>5. /\ Cardinality(WorkersAt(c, "done")') = Cardinality(WorkersAt(c, "done")) + 1
      /\ \A n : /\ Cardinality(WorkersOf(c, n)) \in Nat
                /\ Cardinality(WorkersOf(c, n)') = Cardinality(WorkersOf(c, n))
                     - IF n = name /\ goro[c][i].at = "success" THEN 1 ELSE 0
  <2>1. /\ goro[c][i].at # "done" /\ "done" \in {"delete", "success", "failure", "done"}
        /\ "done" # "success"
    BY <1>2
  <2>0. PlacesCounted(c, i, "done") /\ NamesCounted(c, i, "done")
    BY <1>1, <1>2, <2>1, WorkersCount
  <2>2. Cardinality(WorkersAt(c, "done")') = Cardinality(WorkersAt(c, "done")) + 1
    BY <2>0 DEF PlacesCounted
  <2>3. ASSUME NEW n
        PROVE  /\ Cardinality(WorkersOf(c, n)) \in Nat
               /\ Cardinality(WorkersOf(c, n)') = Cardinality(WorkersOf(c, n))
                    - IF n = name /\ goro[c][i].at = "success" THEN 1 ELSE 0
    <3>1. /\ Cardinality(WorkersOf(c, n)) \in Nat
          /\ Cardinality(WorkersOf(c, n)') = Cardinality(WorkersOf(c, n))
               + (IF n # name THEN 0 ELSE IF goro[c][i].at = "success" THEN -1 ELSE 0)
      BY <2>1, <2>0 DEF NamesCounted
    <3> QED
      BY <3>1
  <2> QED
    BY <2>2, <2>3
<1>6. Len(result'[c].success) + Len(result'[c].failure) = Len(succ) + Len(fail) + 1
  <2>1. Len(Append(succ, name)) = Len(succ) + 1 /\ Len(Append(fail, name)) = Len(fail) + 1
        /\ Len(succ) \in Nat /\ Len(fail) \in Nat
    BY <1>1, <1>4
  <2>2. CASE goro[c][i].at = "success"
    <3>1. result'[c].success = Append(succ, name) /\ result'[c].failure = fail
      BY <1>3, <2>2
    <3> HIDE DEF succ, fail, name
    <3> QED
      BY <2>1, <3>1
  <2>3. CASE goro[c][i].at = "failure"
    <3>1. result'[c].success = succ /\ result'[c].failure = Append(fail, name)
      BY <1>3, <2>3
    <3> HIDE DEF succ, fail, name
    <3> QED
      BY <2>1, <3>1
  <2> QED
    BY <1>2, <2>2, <2>3
<1>7. Len(result'[c].success) + Len(result'[c].failure) = Cardinality(WorkersAt(c, "done")')
  BY <1>5, <1>6 DEF Booked
<1>8. ASSUME NEW n \in Names
      PROVE  Deletable(c, n) \notin Lingering =>
               Cardinality(Counted(result'[c].success, n)) + Cardinality(WorkersOf(c, n)')
                 <= Cardinality(RemovedOf(c, n)')
  <2> SUFFICES ASSUME Deletable(c, n) \notin Lingering
      PROVE  Cardinality(Counted(result'[c].success, n)) + Cardinality(WorkersOf(c, n)')
               <= Cardinality(RemovedOf(c, n)')
    OBVIOUS
  <2>1. /\ Cardinality(Counted(succ, n)) \in Nat
        /\ Cardinality(Counted(Append(succ, name), n)) =
             Cardinality(Counted(succ, n)) + IF name = n THEN 1 ELSE 0
    BY <1>1, <1>4, CountGrows
  <2>2. RemovedOf(c, n)' = RemovedOf(c, n)
    BY <1>2 DEF RemovedOf
  <2>3. Cardinality(Counted(succ, n)) + Cardinality(WorkersOf(c, n)) <= Cardinality(RemovedOf(c, n))
    BY DEF Booked
  <2>4. CASE goro[c][i].at = "success" /\ n = name
    BY <1>3, <1>5, <2>1, <2>2, <2>3, <2>4
  <2>5. CASE goro[c][i].at = "success" /\ n # name
    BY <1>3, <1>5, <2>1, <2>2, <2>3, <2>5
  <2>6. CASE goro[c][i].at = "failure"
    BY <1>3, <1>5, <2>1, <2>2, <2>3, <2>6
  <2> QED
    BY <1>2, <2>4, <2>5, <2>6
<1>9. \A n : /\ Counted(result[c].success, n)' = Counted(result'[c].success, n)
             /\ Deletable(c, n)' = Deletable(c, n)
  BY <1>2 DEF Counted, Deletable
<1>10. Names' = Names
  BY <1>2 DEF Names
<1>11. \A p \in removed'[c] :
         /\ p[2] <= version'
         /\ Removed(Deletable(c, p[1]), p[2])'
  BY <1>1, <1>2, StaysDeleted DEF Booked
<1>12. ASSUME NEW n \in Names, RemovedOf(c, n)' = {}
       PROVE  Counted(result'[c].success, n) = {} /\ WorkersOf(c, n)' = {}
  <2>1. RemovedOf(c, n) = {}
    BY <1>2, <1>12 DEF RemovedOf
  <2>2. Counted(succ, n) = {} /\ WorkersOf(c, n) = {}
    BY <2>1 DEF Booked
  <2>3. WorkersOf(c, n)' = {}
    BY <1>1, <1>2, <2>2, NoNewSuccess
  <2>4. ~(goro[c][i].at = "success" /\ name = n)
    BY <2>2 DEF WorkersOf, WorkersAt
  <2>5. name # n => Counted(Append(succ, name), n) = Counted(succ, n)
    BY <1>1, <1>4, CountGrows
  <2> QED
    BY <1>3, <2>2, <2>3, <2>4, <2>5
<1> QED
  BY <1>2, <1>7, <1>8, <1>9, <1>10, <1>11, <1>12 DEF Booked

\* A goroutine fails, or deletes an object whose version no deletion had.
LEMMA DeleteBooks ==
  ASSUME Base, NEW c \in Calls, NEW i \in DOMAIN goro[c], DeleteName(c, i), Booked(c)
  PROVE  Booked(c)'
<1> DEFINE name == goro[c][i].name
           k == NameKey(c, i)
<1>1. TypeOK /\ Shapes /\ UNCHANGED <<request, result>> /\ goro[c][i].at = "delete"
  BY DEF Base, DeleteName
<1>2. PICK to \in {"success", "failure"} : goro' = [goro EXCEPT ![c][i].at = to]
  BY DEF DeleteName
<1>3. /\ Cardinality(WorkersAt(c, "done")') = Cardinality(WorkersAt(c, "done"))
      /\ \A n : /\ Cardinality(WorkersOf(c, n)) \in Nat
                /\ Cardinality(WorkersOf(c, n)') = Cardinality(WorkersOf(c, n))
                     + IF n = name /\ to = "success" THEN 1 ELSE 0
  <2>1. to \in {"delete", "success", "failure", "done"} /\ goro[c][i].at # to /\ to # "done"
    BY <1>1, <1>2
  <2>0. PlacesCounted(c, i, to) /\ NamesCounted(c, i, to)
    BY <1>1, <1>2, <2>1, WorkersCount
  <2>2. Cardinality(WorkersAt(c, "done")') = Cardinality(WorkersAt(c, "done"))
    <3>1. /\ Cardinality(WorkersAt(c, "done")) \in Nat
          /\ Cardinality(WorkersAt(c, "done")') = Cardinality(WorkersAt(c, "done"))
               + (IF "done" = to THEN 1 ELSE IF "done" = goro[c][i].at THEN -1 ELSE 0)
      BY <2>0 DEF PlacesCounted
    <3> QED
      BY <1>1, <2>1, <3>1
  <2>3. \A n :
          /\ Cardinality(WorkersOf(c, n)) \in Nat
          /\ Cardinality(WorkersOf(c, n)') =
               Cardinality(WorkersOf(c, n))
                 + (IF n # goro[c][i].name THEN 0
                    ELSE IF to = "success" THEN 1
                    ELSE IF goro[c][i].at = "success" THEN -1 ELSE 0)
    BY <2>0 DEF NamesCounted
  <2>4. ASSUME NEW n
        PROVE  Cardinality(WorkersOf(c, n)') = Cardinality(WorkersOf(c, n))
                 + IF n = name /\ to = "success" THEN 1 ELSE 0
    BY <1>1, <2>3
  <2> QED
    BY <2>2, <2>3, <2>4
<1>4. Names' = Names /\ \A n : Deletable(c, n)' = Deletable(c, n)
  BY <1>1 DEF Names, Deletable
<1>5. \A n : Counted(result[c].success, n)' = Counted(result[c].success, n)
  BY <1>1 DEF Counted
<1>6. \A n \in Names : Cardinality(Counted(result[c].success, n)) \in Nat
  <2>1. result[c].success \in Seq(Names)
    BY <1>1 DEF Shapes
  <2> QED
    BY <2>1, CountGrows
<1>7. CASE UNCHANGED <<objects, version, removed>> /\ to = "failure"
  <2>1. \A n : RemovedOf(c, n)' = RemovedOf(c, n)
    BY <1>7 DEF RemovedOf
  <2>2. \A p \in removed'[c] :
          /\ p[2] <= version'
          /\ Removed(Deletable(c, p[1]), p[2])'
    BY <1>1, <1>7, StaysDeleted DEF Booked
  <2>3. \A n \in Names : Cardinality(WorkersOf(c, n)') = Cardinality(WorkersOf(c, n))
    BY <1>3, <1>7
  <2>4. \A n \in Names : WorkersOf(c, n) = {} => WorkersOf(c, n)' = {}
    BY <1>1, <1>2, <1>7, NoNewSuccess
  <2> QED
    BY <1>1, <1>3, <1>4, <1>5, <1>7, <2>1, <2>2, <2>3, <2>4 DEF Booked
<1>8. CASE /\ Exists(k) /\ Erase(k)
           /\ removed' = [removed EXCEPT ![c] = @ \cup {<<name, objects[k].version>>}]
  <2> DEFINE new == <<name, objects[k].version>>
  <2>1. k = Deletable(c, name) /\ k \in Keys
    BY <1>8 DEF NameKey, Deletable, Exists
  <2>2. removed'[c] = removed[c] \cup {new}
    BY <1>1, <1>8 DEF Shapes
  <2>3. k \notin Lingering => new \notin removed[c]
    <3>1. SUFFICES ASSUME k \notin Lingering, new \in removed[c] PROVE FALSE
      OBVIOUS
    <3>4. Removed(k, objects[k].version) /\ ~Dying(k)
      BY <1>1, <2>1, <3>1 DEF Booked, TypeOK
    <3>2. objects[k].version > objects[k].version
      BY <1>8, <3>4 DEF Removed
    <3>3. objects[k].version \in Nat
      BY <1>1, <1>8 DEF TypeOK, Shapes, Exists
    <3> QED
      BY <3>2, <3>3
  <2>4. Written(k) /\ (objects'[k] # Absent => objects'[k].dying)
    BY <1>1, <1>8, <2>1, EraseWrites
  <2>5. ASSUME NEW p \in removed'[c]
        PROVE  /\ p[2] <= version'
               /\ Removed(Deletable(c, p[1]), p[2])'
    <3>1. CASE p \in removed[c]
      BY <1>1, <2>1, <2>4, <3>1, StaysDeleted DEF Booked
    <3>2. CASE p = new
      <4>1. /\ objects[k].version \in 1 .. version /\ version \in Nat
            /\ version' \in {version, version + 1}
        BY <1>1, <1>8, <2>4 DEF TypeOK, Shapes, Exists, Written, Fresh
      <4>2. p[2] <= version'
        BY <3>2, <4>1
      <4>3. Removed(Deletable(c, p[1]), p[2])'
        BY <1>4, <2>1, <2>4, <3>2 DEF Removed, Dying, Exists
      <4> QED
        BY <4>2, <4>3
    <3> QED
      BY <2>2, <3>1, <3>2
  <2>6. IsFiniteSet(removed[c]) /\ IsFiniteSet(removed'[c])
    BY <2>2, FS_AddElement DEF Booked
  <2>7. ASSUME NEW n \in Names, Deletable(c, n) \notin Lingering
        PROVE  Cardinality(Counted(result[c].success, n)) + Cardinality(WorkersOf(c, n)')
                 <= Cardinality(RemovedOf(c, n)')
    <3>1. IsFiniteSet(RemovedOf(c, n)) /\ Cardinality(RemovedOf(c, n)) \in Nat
      BY <2>6, FS_Subset, FS_CardinalityType DEF RemovedOf
    <3>2. RemovedOf(c, n)' = IF n = name THEN RemovedOf(c, n) \cup {new} ELSE RemovedOf(c, n)
      BY <2>2 DEF RemovedOf
    <3>5. Cardinality(Counted(result[c].success, n)) + Cardinality(WorkersOf(c, n))
            <= Cardinality(RemovedOf(c, n))
      BY <2>7 DEF Booked
    <3>6. CASE n = name
      <4>1. new \notin RemovedOf(c, n)
        BY <2>1, <2>3, <2>7, <3>6 DEF RemovedOf
      <4>2. Cardinality(RemovedOf(c, n) \cup {new}) = Cardinality(RemovedOf(c, n)) + 1
        BY <3>1, <4>1, OneMoreOrLess
      <4> QED
        BY <1>3, <1>6, <3>1, <3>2, <3>5, <3>6, <4>2
    <3>7. CASE n # name
      BY <1>3, <1>6, <3>1, <3>2, <3>5, <3>7
    <3> QED
      BY <3>6, <3>7
  <2>8. ASSUME NEW n \in Names, RemovedOf(c, n)' = {}
        PROVE  Counted(result[c].success, n) = {} /\ WorkersOf(c, n)' = {}
    <3>1. n # name
      <4>1. new \in removed'[c] /\ new[1] = name
        BY <2>2
      <4>2. \A p \in removed'[c] : p[1] # n
        BY <2>8 DEF RemovedOf
      <4> HIDE DEF new, name
      <4> QED
        BY <4>1, <4>2
    <3>2. RemovedOf(c, n) = {}
      BY <2>2, <2>8 DEF RemovedOf
    <3>3. WorkersOf(c, n)' \subseteq WorkersOf(c, n)
      BY <1>1, <1>2, <3>1, NoOthersSuccess
    <3> QED
      BY <3>2, <3>3 DEF Booked
  <2> HIDE DEF new
  <2> QED
    BY <1>1, <1>3, <1>4, <1>5, <2>5, <2>6, <2>7, <2>8 DEF Booked
<1> QED
  <2>1. \/ /\ UNCHANGED <<objects, version, removed>>
           /\ to = "failure"
        \/ /\ Exists(k) /\ Erase(k)
           /\ removed' = [removed EXCEPT ![c] = @ \cup {<<name, objects[k].version>>}]
    <3>1. CASE UNCHANGED <<objects, version, removed>> /\ goro' = [goro EXCEPT ![c][i].at = "failure"]
      <4>1. goro'[c][i].at = "failure"
        BY <1>1, <3>1, WorkerMoves
      <4>2. goro'[c][i].at = to
        BY <1>1, <1>2, WorkerMoves
      <4> QED
        BY <3>1, <4>1, <4>2
    <3>2. CASE /\ Exists(k) /\ Erase(k)
               /\ removed' = [removed EXCEPT ![c] = @ \cup {<<name, objects[k].version>>}]
      BY <3>2
    <3> QED
      BY <3>1, <3>2 DEF DeleteName
  <2> QED
    BY <1>7, <1>8, <2>1

-----------------------------------------------------------------------------
\* The books are kept by every step.

LEMMA InitBooks == Init => BooksKept
<1> SUFFICES ASSUME Init, NEW c \in Calls PROVE Booked(c)
  BY BooksOfCalls
<1>1. /\ goro[c] = <<>> /\ removed[c] = {}
      /\ result[c].success = <<>> /\ result[c].failure = <<>>
  BY DEF Init
<1>2. /\ WorkersAt(c, "done") = {} /\ \A n : WorkersOf(c, n) = {}
      /\ \A n : Counted(result[c].success, n) = {} /\ RemovedOf(c, n) = {}
  BY <1>1 DEF WorkersAt, WorkersOf, Counted, RemovedOf
<1>3. /\ IsFiniteSet({}) /\ Cardinality({}) = 0
      /\ Len(result[c].success) = 0 /\ Len(result[c].failure) = 0
  BY <1>1, FS_EmptySet
<1>4. Len(result[c].success) + Len(result[c].failure) = Cardinality(WorkersAt(c, "done"))
  BY <1>2, <1>3
<1>5. ASSUME NEW n \in Names
      PROVE  Cardinality(Counted(result[c].success, n)) + Cardinality(WorkersOf(c, n))
               <= Cardinality(RemovedOf(c, n))
  <2>1. /\ Counted(result[c].success, n) = {} /\ WorkersOf(c, n) = {}
        /\ RemovedOf(c, n) = {}
    BY <1>2
  <2> QED
    BY <1>3, <2>1
<1> QED
  BY <1>1, <1>2, <1>3, <1>4, <1>5 DEF Booked

LEMMA HandlerBooks ==
  ASSUME Base, BooksKept, NEW d \in Calls, Handler(d) PROVE BooksKept'
<1> SUFFICES ASSUME NEW c \in Calls PROVE Booked(c)'
  BY DEF BooksKept, Booked, Deletable
<1>1. Shapes /\ Supervised /\ Booked(c)
  BY BooksOfCalls DEF Base
<1>2. UNCHANGED <<objects, version>> \/ \E k \in Keys : Written(k)
  BY <1>1, RequestWrites DEF Handler, Begin, Get, Write, Reject, List, Spawn, Join
<1>3. UNCHANGED <<request, result, removed>>
  BY DEF Handler, Begin, Get, Write, Reject, List, Spawn, Join
<1>4. CASE UNCHANGED goro
  BY <1>1, <1>2, <1>3, <1>4, OtherBooks
<1>5. ASSUME NEW names \in Seq(Names), goro' = [goro EXCEPT ![d] = Workers(names)], goro[d] = <<>>
      PROVE  Booked(c)'
  <2>1. goro'[c] = IF c = d THEN Workers(names) ELSE goro[c]
    BY <1>1, <1>5 DEF Shapes
  <2>2. \A i \in DOMAIN Workers(names) : Workers(names)[i].at = "delete"
    BY WorkersBegin
  <2> QED
    BY <1>1, <1>2, <1>3, <1>5, <2>1, <2>2, OtherBooks
<1>6. List(d) => \/ UNCHANGED goro
                 \/ /\ goro[d] = <<>>
                    /\ \E names \in Seq(Names) : goro' = [goro EXCEPT ![d] = Workers(names)]
  BY <1>1, NamesListed DEF List, Supervised, At
<1>7. Spawn(d) => /\ goro[d] = <<>>
                  /\ \E names \in Seq(Names) : goro' = [goro EXCEPT ![d] = Workers(names)]
  BY <1>1 DEF Spawn, Supervised, Shapes, At
<1> QED
  BY <1>4, <1>5, <1>6, <1>7 DEF Handler, Begin, Get, Write, Reject, Join

LEMMA WorkerBooks ==
  ASSUME Base, BooksKept, NEW d \in Calls, NEW i \in DOMAIN goro[d], Goroutine(d, i)
  PROVE  BooksKept'
<1> SUFFICES ASSUME NEW c \in Calls PROVE Booked(c)'
  BY DEF BooksKept, Booked, Deletable
<1>1. Shapes /\ Booked(c)
  BY BooksOfCalls DEF Base
<1>2. CASE c = d
  BY <1>1, <1>2, BookBooks, DeleteBooks DEF Goroutine
<1>3. CASE c # d /\ Book(d, i)
  <2>1. goro[d] \in Seq(Worker)
    BY <1>1 DEF Shapes
  <2>2. goro[d][i] \in Worker
    BY <2>1
  <2>3. goro[d][i].name \in Names
    BY <2>2 DEF Worker
  <2>4. goro'[c] = goro[c]
    BY <1>1, <1>3, WorkerMoves DEF Book
  <2>5. result'[c] = result[c]
    BY <1>1, <1>3, <2>3, ListGrows DEF Book
  <2> QED
    BY <1>1, <1>3, <2>4, <2>5, OtherBooks DEF Book
<1>4. CASE c # d /\ DeleteName(d, i)
  <2>1. goro'[c] = goro[c]
    BY <1>1, <1>4, WorkerMoves DEF DeleteName
  <2>2. removed'[c] = removed[c]
    BY <1>1, <1>4 DEF DeleteName, Shapes
  <2>3. UNCHANGED <<objects, version>> \/ \E k \in Keys : Written(k)
    BY <1>1, <1>4, EraseWrites DEF DeleteName, Exists
  <2> QED
    BY <1>1, <1>4, <2>1, <2>2, <2>3, OtherBooks DEF DeleteName
<1> QED
  BY <1>2, <1>3, <1>4 DEF Goroutine

LEMMA StepBooks ==
  ASSUME Base, BooksKept, [Next]_vars PROVE BooksKept'
<1>1. Shapes
  BY DEF Base
<1>2. ASSUME UNCHANGED <<request, goro, result, removed>>,
             UNCHANGED <<objects, version>> \/ \E k \in Keys : Written(k)
      PROVE  BooksKept'
  <2> SUFFICES ASSUME NEW c \in Calls PROVE Booked(c)'
    BY DEF BooksKept, Booked, Deletable
  <2> QED
    BY <1>1, <1>2, BooksOfCalls, OtherBooks
<1>3. CASE UNCHANGED vars
  BY <1>2, <1>3 DEF vars
<1>4. CASE Others
  BY <1>1, <1>2, <1>4, OthersWrite DEF Others
<1> QED
  BY <1>3, <1>4, HandlerBooks, WorkerBooks DEF Next, Quiet

\* A batch that is answered has no goroutine left to wait for, its lists count
\* every name of it, what it reports as deleted does not live on, and no deletion
\* of an object that goes at once counts twice (deleteBatchByNames).
THEOREM BatchSums == Spec => []BatchAddsUp
<1>1. Init => Base /\ BooksKept
  BY InitBase, InitBooks
<1>2. Base /\ BooksKept /\ [Next]_vars => (Base /\ BooksKept)'
  BY StepBase, StepBooks
<1>3. Base /\ BooksKept => BatchAddsUp
  <2> SUFFICES ASSUME Base, BooksKept, NEW c \in Calls, At(c, "answered")
      PROVE  /\ Len(result[c].success) + Len(result[c].failure) = Len(goro[c])
             /\ \A n \in Range(result[c].success) :
                  /\ \E p \in RemovedOf(c, n) : Removed(Deletable(c, n), p[2])
                  /\ Deletable(c, n) \notin Lingering =>
                       Cardinality(Counted(result[c].success, n)) <= Cardinality(RemovedOf(c, n))
    BY AnswerFields DEF BatchAddsUp, Counted, RemovedOf, Deletable, Base, TypeOK
  <2>1. TypeOK /\ Shapes /\ Supervised /\ Booked(c)
    BY BooksOfCalls DEF Base
  <2>2. at[c] = "answered"
    BY DEF At
  <2>3. goro[c] \in Seq(Worker) /\ result[c].success \in Seq(Names)
    BY <2>1 DEF Shapes
  <2>4. WorkersAt(c, "done") = 1 .. Len(goro[c])
    <3>1. DOMAIN goro[c] = 1 .. Len(goro[c])
      BY <2>3
    <3>2. \A i \in DOMAIN goro[c] : goro[c][i].at = "done"
      BY <2>1, <2>2 DEF Supervised, At
    <3>3. WorkersAt(c, "done") = DOMAIN goro[c]
      BY <3>2 DEF WorkersAt
    <3> QED
      BY <3>1, <3>3
  <2>5. Cardinality(1 .. Len(goro[c])) = Len(goro[c])
    <3>1. Len(goro[c]) \in Nat
      BY <2>3
    <3> QED
      BY <3>1, FS_Interval
  <2>6. ASSUME NEW n \in Range(result[c].success)
        PROVE  /\ \E p \in RemovedOf(c, n) : Removed(Deletable(c, n), p[2])
               /\ Deletable(c, n) \notin Lingering =>
                    Cardinality(Counted(result[c].success, n)) <= Cardinality(RemovedOf(c, n))
    <3>0. PICK i \in DOMAIN result[c].success : n = result[c].success[i]
      BY DEF Range
    <3>1. n \in Names
      BY <2>3, <3>0
    <3>7. \E p \in RemovedOf(c, n) : Removed(Deletable(c, n), p[2])
      <4>1. Counted(result[c].success, n) # {}
        BY <3>0 DEF Counted
      <4>2. RemovedOf(c, n) # {}
        BY <2>1, <3>1, <4>1 DEF Booked
      <4> QED
        BY <2>1, <4>2 DEF Booked, RemovedOf
    <3> SUFFICES ASSUME Deletable(c, n) \notin Lingering
        PROVE  Cardinality(Counted(result[c].success, n)) <= Cardinality(RemovedOf(c, n))
      BY <3>7
    <3>2. Cardinality(Counted(result[c].success, n)) + Cardinality(WorkersOf(c, n))
            <= Cardinality(RemovedOf(c, n))
      BY <2>1, <3>1 DEF Booked
    <3>3. /\ Cardinality(Counted(result[c].success, n)) \in Nat
          /\ Cardinality(WorkersOf(c, n)) \in Nat
      BY <2>3, SubsetsCount DEF Counted, WorkersOf, WorkersAt
    <3>4. IsFiniteSet(RemovedOf(c, n)) /\ Cardinality(RemovedOf(c, n)) \in Nat
      BY <2>1, FS_Subset, FS_CardinalityType DEF Booked, RemovedOf
    <3> DEFINE counted == Cardinality(Counted(result[c].success, n))
               booked == Cardinality(WorkersOf(c, n))
               deleted == Cardinality(RemovedOf(c, n))
    <3>5. counted \in Nat /\ booked \in Nat /\ deleted \in Nat /\ counted + booked <= deleted
      BY <3>2, <3>3, <3>4
    <3> HIDE DEF counted, booked, deleted
    <3>6. counted <= deleted
      BY <3>5
    <3> QED
      BY <3>6 DEF counted, deleted
  <2> QED
    BY <2>1, <2>4, <2>5, <2>6 DEF Booked
<1> QED
  BY <1>1, <1>2, <1>3, PTL DEF Spec

-----------------------------------------------------------------------------
(* What the create tools made keeps the labels of its name.                *)

\* Whatever others made is theirs to label.
LEMMA UnmadeLabelled ==
  ASSUME NEW k, NEW spec, Unmade(spec) PROVE Labelled(k, spec)
BY DEF Unmade, Labelled

\* An edit that leaves three fields alone.
LEMMA EditLabelled ==
  ASSUME NEW k, NEW spec, NEW edited, Labelled(k, spec), DOMAIN edited = DOMAIN spec,
         "maker" \in DOMAIN spec => edited.maker = spec.maker,
         "template" \in DOMAIN spec => edited.template = spec.template,
         "selector" \in DOMAIN spec => edited.selector = spec.selector
  PROVE  Labelled(k, edited)
BY DEF Labelled

\* A patch that chooses a selector or the Pods' labels is no longer the maker's.
LEMMA PatchLabelled ==
  ASSUME NEW k, NEW spec, NEW patch, Labelled(k, spec)
  PROVE  Labelled(k, Patched(spec, patch))
<1> DEFINE new == Patched(spec, patch)
<1>1. DOMAIN new = DOMAIN spec /\ "maker" \in DOMAIN spec
  BY DEF Patched, Labelled
<1>2. CASE DOMAIN patch \cap {"selector", "template"} = {}
  <2>1. /\ new.maker = spec.maker
        /\ "template" \in DOMAIN spec => new.template = spec.template
        /\ "selector" \in DOMAIN spec => new.selector = spec.selector
    BY <1>1, <1>2 DEF Patched
  <2> QED
    BY <1>1, <2>1, EditLabelled
<1>3. CASE DOMAIN patch \cap {"selector", "template"} # {}
  <2>1. new.maker = "patch"
    BY <1>1, <1>3 DEF Patched
  <2> QED
    BY <1>1, <2>1 DEF Labelled
<1> QED
  BY <1>2, <1>3

LEMMA UpdateLabelled ==
  ASSUME NEW r, r.tool \in Updates, NEW k, NEW spec, NEW now, Labelled(k, spec)
  PROVE  Labelled(k, Edited(r, spec, now))
<1> DEFINE edited == Edited(r, spec, now)
<1>1. r.tool = "scale" \/ r.tool = "restart" \/ r.tool = "update_image"
  BY DEF Updates
<1>2. /\ DOMAIN edited = DOMAIN spec
      /\ "maker" \in DOMAIN spec => edited.maker = spec.maker
      /\ "template" \in DOMAIN spec => edited.template = spec.template
      /\ "selector" \in DOMAIN spec => edited.selector = spec.selector
  <2>1. CASE r.tool = "scale"
    BY <2>1 DEF Edited
  <2>2. CASE r.tool = "restart"
    BY <2>2 DEF Edited
  <2>3. CASE r.tool = "update_image"
    BY <2>3 DEF Edited
  <2> QED
    BY <1>1, <2>1, <2>2, <2>3
<1> QED
  BY <1>2, EditLabelled

\* The create tools label by the name, unless the caller chooses a selector.
LEMMA CreatedLabelled ==
  ASSUME NEW c \in Calls, request[c].tool = "create"
  PROVE  Labelled(Target(request[c]), Created(request[c]))
<1> DEFINE r == request[c]
<1>1. CASE r.kind = "Deployment"
  <2>1. Target(r) = <<"Deployment", Namespaced(r.namespace), r.name>>
    BY <1>1 DEF Target
  <2>2. Created(r) = CreatedDeployment(r)
    BY <1>1 DEF Created
  <2>3. /\ {"maker", "template"} \subseteq DOMAIN CreatedDeployment(r)
        /\ CreatedDeployment(r).template = {<<"app", r.name>>}
    BY DEF CreatedDeployment
  <2> QED
    BY <2>1, <2>2, <2>3 DEF Labelled, AppLabel
<1>2. CASE r.kind = "Service"
  <2>1. Target(r) = <<"Service", Namespaced(r.namespace), r.name>>
    BY <1>2 DEF Target
  <2>2. Created(r) = CreatedService(r)
    BY <1>2 DEF Created
  <2>3. /\ {"maker", "selector"} \subseteq DOMAIN CreatedService(r)
        /\ r.selector = {} => CreatedService(r).selector = {<<"app", r.name>>}
    BY DEF CreatedService
  <2>4. ~SelectorChosen(Target(r)) => r.selector = {}
    BY <1>2 DEF SelectorChosen
  <2> QED
    BY <2>1, <2>2, <2>3, <2>4 DEF Labelled, AppLabel
<1>3. CASE r.kind # "Deployment" /\ r.kind # "Service"
  <2>1. Target(r)[1] = r.kind
    BY <1>3 DEF Target
  <2>2. "maker" \in DOMAIN Created(r)
    <3>1. Created(r) \in {CreatedPod(r), CreatedSecret(r), CreatedConfig(r)}
      BY <1>3 DEF Created
    <3>2. /\ "maker" \in DOMAIN CreatedPod(r)
          /\ "maker" \in DOMAIN CreatedSecret(r)
          /\ "maker" \in DOMAIN CreatedConfig(r)
      BY DEF CreatedPod, CreatedSecret, CreatedConfig
    <3> QED
      BY <3>1, <3>2
  <2> QED
    BY <1>3, <2>1, <2>2 DEF Labelled
<1> QED
  BY <1>1, <1>2, <1>3

LEMMA PutLabelled ==
  ASSUME Shapes, LabelsKept, request' = request,
         NEW k \in Keys, NEW spec, Put(k, spec), Labelled(k, spec)
  PROVE  LabelsKept'
<1>1. /\ objects'[k].spec = spec
      /\ \A j \in Keys \ {k} : objects'[j] = objects[j]
  <2>1. Written(k) /\ objects'[k] = [version |-> version + 1, spec |-> spec, dying |-> Dying(k)]
    BY PutWrites
  <2>2. [version |-> version + 1, spec |-> spec, dying |-> Dying(k)].spec = spec
    OBVIOUS
  <2> QED
    BY <2>1, <2>2, Zenon DEF Written
<1>2. ASSUME NEW j \in Keys, objects'[j] # Absent
      PROVE  Labelled(j, objects'[j].spec)
  <2>1. CASE j = k
    BY <1>1, <2>1
  <2>2. CASE j # k
    BY <1>1, <1>2, <2>2 DEF LabelsKept, Exists
  <2> QED
    BY <2>1, <2>2
<1>3. ASSUME NEW j \in Keys, Exists(j)'
      PROVE  Labelled(j, objects[j].spec)'
  BY <1>2, <1>3 DEF Exists, Labelled, SelectorChosen
<1> QED
  BY <1>3 DEF LabelsKept

LEMMA EraseLabelled ==
  ASSUME Shapes, LabelsKept, request' = request, NEW k \in Keys, Exists(k), Erase(k)
  PROVE  LabelsKept'
<1>1. /\ objects'[k] # Absent => objects'[k].spec = objects[k].spec
      /\ \A j \in Keys \ {k} : objects'[j] = objects[j]
  BY EraseWrites DEF Written
<1>2. ASSUME NEW j \in Keys, Exists(j)'
      PROVE  Labelled(j, objects[j].spec)'
  <2>1. objects'[j].spec = objects[j].spec /\ Labelled(j, objects[j].spec)
    <3>1. CASE j = k
      BY <1>1, <1>2, <3>1 DEF LabelsKept, Exists
    <3>2. CASE j # k
      BY <1>1, <1>2, <3>2 DEF LabelsKept, Exists
    <3> QED
      BY <3>1, <3>2
  <2> QED
    BY <2>1 DEF Labelled, SelectorChosen
<1> QED
  BY <1>2 DEF LabelsKept

\* What the last request of a handler writes.
LEMMA RequestLabelled ==
  ASSUME Base, LabelsKept, RequestsKept, request' = request, NEW c \in Calls, At(c, "write"),
         Update(c) \/ Apply(c) \/ Create(c) \/ Patch(c) \/ Delete(c)
  PROVE  LabelsKept'
<1> DEFINE r == request[c]
           k == Target(r)
<1>1. Shapes /\ ReadCurrent
  BY DEF Base
<1>2. CASE Update(c)
  <2>1. r.tool \in Updates /\ Exists(k) /\ objects[k].version = read[c].version
    BY <1>2 DEF Update, Unchanged
  <2>2. objects[k] = read[c]
    BY <1>1, <2>1 DEF ReadCurrent
  <2>3. PICK now \in Seconds : Put(k, Edited(r, read[c].spec, now))
    BY <1>2 DEF Update
  <2>4. k \in Keys /\ Labelled(k, read[c].spec)
    BY <2>1, <2>2 DEF LabelsKept, Exists
  <2>5. Labelled(k, Edited(r, read[c].spec, now))
    BY <2>1, <2>4, UpdateLabelled
  <2> QED
    BY <1>1, <2>3, <2>4, <2>5, PutLabelled
<1>3. CASE Apply(c)
  <2>1. k \in Keys /\ Put(k, r.spec) /\ Unmade(r.spec)
    BY <1>3 DEF Apply, Unchanged, Exists, Free, RequestsKept
  <2> QED
    BY <1>1, <2>1, UnmadeLabelled, PutLabelled
<1>4. CASE Create(c)
  <2>1. k \in Keys /\ Put(k, Created(r))
    BY <1>4 DEF Create, Free
  <2>2. Labelled(k, Created(r))
    <3>1. CASE r.tool = "create"
      BY <3>1, CreatedLabelled
    <3>2. CASE r.tool = "create_from_yaml"
      <4>1. Created(r) = r.spec /\ Unmade(r.spec)
        BY <3>2 DEF Created, RequestsKept
      <4> QED
        BY <4>1, UnmadeLabelled
    <3> QED
      BY <1>4, <3>1, <3>2 DEF Create
  <2> QED
    BY <1>1, <2>1, <2>2, PutLabelled
<1>5. CASE Patch(c)
  <2>1. k \in Keys /\ Labelled(k, objects[k].spec) /\ Put(k, Patched(objects[k].spec, r.patch))
    BY <1>5 DEF Patch, Exists, LabelsKept
  <2>2. Labelled(k, Patched(objects[k].spec, r.patch))
    BY <2>1, PatchLabelled
  <2> QED
    BY <1>1, <2>1, <2>2, PutLabelled
<1>6. CASE Delete(c)
  <2>1. k \in Keys /\ Exists(k) /\ Erase(k)
    BY <1>6 DEF Delete, Exists
  <2> QED
    BY <1>1, <2>1, EraseLabelled
<1> QED
  BY <1>2, <1>3, <1>4, <1>5, <1>6

\* What others write.
LEMMA OthersLabelled ==
  ASSUME Base, LabelsKept, request' = request, Outside
  PROVE  LabelsKept'
<1>1. Shapes
  BY DEF Base
<1>2. PICK k \in Contended :
        \/ Exists(k) /\ \E e \in Edits : Put(k, Patched(objects[k].spec, e))
        \/ Exists(k) /\ Erase(k)
        \/ Free(k) /\ Put(k, Foreign(k))
  BY DEF Outside
<1>3. k \in Keys
  BY ApiServerAssumption DEF ApiServerAssumption
<1>4. ASSUME Exists(k), NEW e \in Edits, Put(k, Patched(objects[k].spec, e))
      PROVE  LabelsKept'
  <2>1. Labelled(k, objects[k].spec)
    BY <1>3, <1>4 DEF LabelsKept
  <2>2. Labelled(k, Patched(objects[k].spec, e))
    BY <2>1, PatchLabelled
  <2> QED
    BY <1>1, <1>3, <1>4, <2>2, PutLabelled
<1>5. CASE Exists(k) /\ Erase(k)
  BY <1>1, <1>3, <1>5, EraseLabelled
<1>6. CASE Put(k, Foreign(k))
  <2>1. Labelled(k, Foreign(k))
    BY <1>3, MakerAssumption, UnmadeLabelled DEF MakerAssumption
  <2> QED
    BY <1>1, <1>3, <1>6, <2>1, PutLabelled
<1> QED
  BY <1>2, <1>4, <1>5, <1>6

\* A step that leaves the objects alone.
LEMMA NothingWritten ==
  ASSUME LabelsKept, request' = request, objects' = objects
  PROVE  LabelsKept'
BY DEF LabelsKept, Exists, Labelled, SelectorChosen

LEMMA StepLabelled ==
  ASSUME Base, LabelsKept, RequestsKept, [Next]_vars
  PROVE  LabelsKept' /\ RequestsKept'
<1>1. request' = request
  <2>1. ASSUME NEW c \in Calls, Handler(c) PROVE request' = request
    BY <2>1, Zenon DEF Handler, Begin, Get, Write, Reject, List, Spawn, Join
  <2>2. ASSUME NEW c \in Calls, NEW i \in DOMAIN goro[c], Goroutine(c, i)
        PROVE  request' = request
    BY <2>2, Zenon DEF Goroutine, DeleteName, Book
  <2>3. ASSUME Others \/ UNCHANGED vars PROVE request' = request
    BY <2>3 DEF Others, vars
  <2> QED
    BY <2>1, <2>2, <2>3, Zenon DEF Next, Quiet
<1>2. RequestsKept'
  BY <1>1 DEF RequestsKept
<1>3. ASSUME NEW c \in Calls, Handler(c) PROVE LabelsKept'
  <2>1. CASE Write(c)
    BY <1>1, <2>1, RequestLabelled DEF Write
  <2>2. CASE ~Write(c)
    <3>1. objects' = objects
      BY <1>3, <2>2, Zenon DEF Handler, Begin, Get, Reject, List, Spawn, Join
    <3> QED
      BY <1>1, <3>1, NothingWritten
  <2> QED
    BY <2>1, <2>2
<1>4. ASSUME NEW c \in Calls, NEW i \in DOMAIN goro[c], Goroutine(c, i) PROVE LabelsKept'
  <2>1. CASE objects' = objects
    BY <1>1, <2>1, NothingWritten
  <2>2. CASE objects' # objects
    <3>1. NameKey(c, i) \in Keys /\ Exists(NameKey(c, i)) /\ Erase(NameKey(c, i))
      BY <1>4, <2>2 DEF Goroutine, DeleteName, Book, Exists
    <3> QED
      BY <1>1, <3>1, EraseLabelled DEF Base
  <2> QED
    BY <2>1, <2>2
<1>5. ASSUME Others PROVE LabelsKept'
  BY <1>1, <1>5, OthersLabelled DEF Others
<1>6. ASSUME UNCHANGED vars PROVE LabelsKept'
  BY <1>1, <1>6, NothingWritten DEF vars
<1>7. LabelsKept'
  BY <1>3, <1>4, <1>5, <1>6 DEF Next, Quiet
<1> QED
  BY <1>2, <1>7

LEMMA InitLabelled == Init => LabelsKept /\ RequestsKept
<1> SUFFICES ASSUME Init PROVE LabelsKept /\ RequestsKept
  OBVIOUS
<1>1. PICK s \in Scenarios : objects = s.objects /\ request = s.request
  BY DEF Init, Atomic!Init
<1>2. /\ \A k \in Keys : objects[k] # Absent =>
           Unmade(objects[k].spec) \/ ByName(k, objects[k].spec)
      /\ RequestsKept
  BY <1>1, MakerAssumption DEF MakerAssumption, RequestsKept
<1>3. ASSUME NEW k \in Keys, Exists(k) PROVE Labelled(k, objects[k].spec)
  <2>1. \A spec : ByName(k, spec) => Labelled(k, spec)
    BY DEF ByName, Labelled
  <2> QED
    BY <1>2, <1>3, <2>1, UnmadeLabelled DEF Exists
<1> QED
  BY <1>2, <1>3 DEF LabelsKept

\* Whatever is asked for, and whatever others write: a Service made without a
\* selector selects the Pods of the Deployment made under its name, as long as no
\* patch and no manifest chose the selector or the Pods' labels of either anew
\* (create_service.go:78, create_deployment.go).
THEOREM LabelsMeet == Spec => []DefaultsMeet
<1>1. Init => Base /\ LabelsKept /\ RequestsKept
  BY InitBase, InitLabelled
<1>2. (Base /\ LabelsKept /\ RequestsKept) /\ [Next]_vars => (Base /\ LabelsKept /\ RequestsKept)'
  BY StepBase, StepLabelled
<1>3. LabelsKept => DefaultsMeet
  <2>1. ASSUME LabelsKept, NEW s \in Keys, NEW w \in Keys,
               s[1] = "Service", w = <<"Deployment", s[2], s[3]>>,
               Made(s), Made(w), ~SelectorChosen(s)
        PROVE  objects[s].spec.selector \subseteq objects[w].spec.template
    <3>1. objects[s].spec.selector = AppLabel(s)
      BY <2>1 DEF LabelsKept, Labelled, Made
    <3>2. w[1] = "Deployment" /\ w[3] = s[3]
      BY <2>1
    <3>3. objects[w].spec.template = AppLabel(w)
      BY <2>1, <3>2 DEF LabelsKept, Labelled, Made
    <3> QED
      BY <3>1, <3>2, <3>3 DEF AppLabel
  <2> QED
    BY <2>1 DEF DefaultsMeet
<1> QED
  BY <1>1, <1>2, <1>3, PTL DEF Spec

=============================================================================
