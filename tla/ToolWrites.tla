------------------------------ MODULE ToolWrites ------------------------------
(***************************************************************************)
(* The calls of the writing tools as the handlers make them: one request   *)
(* to the API server after the other, with everybody else's writes in      *)
(* between.  The updating tools and ApplyYAML read the object, edit the    *)
(* copy and send it back with the resourceVersion they read, without a     *)
(* retry; the deleting tools read the object and delete it by name;        *)
(* DeleteResources deletes each name in a goroutine of its own and counts  *)
(* under a mutex.  A request to the API server can fail, also after it was *)
(* carried out: the deadline of the call's context strikes at any time.    *)
(***************************************************************************)
EXTENDS WriteTools, SequencesExt

CONSTANTS Calls, Seconds, Scenarios

ASSUME ToolWritesAssumption ==
  /\ IsFiniteSet(Keys)
  /\ \A s \in Scenarios :
       /\ s.objects = [k \in Keys |-> s.objects[k]]
       /\ \A k \in Keys : s.objects[k] # Absent =>
            /\ s.objects[k] = [version |-> 1, spec |-> s.objects[k].spec,
                              dying |-> s.objects[k].dying]
            /\ s.objects[k].dying \in (IF k \in Lingering THEN BOOLEAN ELSE {FALSE})
       /\ s.request = [c \in Calls |-> s.request[c]]
       /\ \A c \in Calls : s.request[c].tool = "delete_resources" =>
            s.request[c].names \in Seq(Range(s.request[c].names))

\* The field "maker" tells what the create tools made from everything else.
Unmade(spec) == "maker" \in DOMAIN spec /\ spec.maker # "create"

\* The labels the create tools give an object's Pods, or look for, by default.
AppLabel(k) == {<<"app", k[3]>>}

ByName(k, spec) ==
  /\ "maker" \in DOMAIN spec
  /\ k[1] = "Deployment" => "template" \in DOMAIN spec /\ spec.template = AppLabel(k)
  /\ k[1] = "Service" => "selector" \in DOMAIN spec /\ spec.selector = AppLabel(k)

ASSUME MakerAssumption ==
  /\ \A k \in Keys : Unmade(Foreign(k))
  /\ \A s \in Scenarios :
       /\ \A k \in Keys : s.objects[k] # Absent =>
            Unmade(s.objects[k].spec) \/ ByName(k, s.objects[k].spec)
       /\ \A c \in Calls : s.request[c].tool \in {"apply_yaml", "create_from_yaml"} =>
            Unmade(s.request[c].spec)

VARIABLES
  request,  \* the arguments of each call
  answer,   \* what its caller was told, or Pending
  at,       \* where its handler is
  read,     \* the object its handler has read
  goro,     \* delete_resources: the goroutine of each name
  result,   \* delete_resources: BatchDeleteResult's lists
  removed   \* history: <<name, version>> of the objects whose deletion the
            \* call's requests began, or asked for again

vars == <<objects, version, request, answer, at, read, goro, result, removed>>

Atomic == INSTANCE AtomicWrites

Pending == Atomic!Pending
Failure == Atomic!Failure
Success(action, old) == Atomic!Success(action, old)

Init ==
  /\ Atomic!Init
  /\ at = [c \in Calls |-> "start"]
  /\ read = [c \in Calls |-> Absent]
  /\ goro = [c \in Calls |-> <<>>]
  /\ result = [c \in Calls |-> [success |-> <<>>, failure |-> <<>>]]
  /\ removed = [c \in Calls |-> {}]

At(c, place) == at[c] = place
Goto(c, place) == at' = [at EXCEPT ![c] = place]

\* Mutant: the return after the answer is forgotten.
AnswerAndGoOn(c, a) ==
  /\ answer' = [answer EXCEPT ![c] = a]
  /\ UNCHANGED at

Answer(c, a) ==
  /\ answer' = [answer EXCEPT ![c] = a]
  /\ Goto(c, "answered")

\* The handler checks its arguments and asks for a client, which can fail.
Begin(c) ==
  /\ At(c, "start")
  /\ \/ Answer(c, Failure)
     \/ /\ ~Refused(request[c])
        /\ Goto(c, IF request[c].tool \in Getters THEN "get"
                   ELSE IF request[c].tool # "delete_resources" THEN "write"
                   ELSE IF request[c].names = <<>> THEN "list" ELSE "spawn")
        /\ UNCHANGED answer
  /\ UNCHANGED <<objects, version, request, read, goro, result, removed>>

\* The Get of the object.  An update or a deletion needs it; UpdateDeployment-
\* Image also needs the container.  ApplyYAML takes any error for "not there".
Get(c) ==
  LET r == request[c]
      k == Target(r)
  IN
  /\ At(c, "get")
  /\ \/ /\ Exists(k)
        /\ Editable(r, objects[k].spec)
        /\ read' = [read EXCEPT ![c] = objects[k]]
        /\ Goto(c, "write") /\ UNCHANGED answer
     \/ /\ r.tool = "apply_yaml"
        /\ Goto(c, "write") /\ UNCHANGED <<read, answer>>
     \/ /\ r.tool # "apply_yaml"
        /\ Answer(c, Failure) /\ UNCHANGED read
  /\ UNCHANGED <<objects, version, request, goro, result, removed>>

\* The API server compares the version an Update carries with the object's.
Unchanged(c) ==
  LET k == Target(request[c])
  IN  Exists(k) /\ objects[k].version = read[c].version

\* Mutant: the handler sends its copy without the resourceVersion it has read.
UpdateBlindly(c) ==
  LET r == request[c] IN
  /\ r.tool \in Updates
  /\ Exists(Target(r))
  /\ \E now \in Seconds : Put(Target(r), Edited(r, read[c].spec, now))

\* What the API server does with the last request of the handler.
Update(c) ==
  LET r == request[c] IN
  /\ r.tool \in Updates
  /\ Unchanged(c)
  /\ \E now \in Seconds : Put(Target(r), Edited(r, read[c].spec, now))

Apply(c) ==
  LET r == request[c] IN
  /\ r.tool = "apply_yaml"
  /\ IF read[c] # Absent THEN Unchanged(c) ELSE Free(Target(r))
  /\ Put(Target(r), r.spec)

Create(c) ==
  LET r == request[c] IN
  /\ r.tool \in {"create", "create_from_yaml"}
  /\ Free(Target(r))
  /\ Put(Target(r), Created(r))

Patch(c) ==
  LET k == Target(request[c]) IN
  /\ request[c].tool = "patch_resource"
  /\ Exists(k)
  /\ Put(k, Patched(objects[k].spec, request[c].patch))

Delete(c) ==
  LET k == Target(request[c]) IN
  /\ request[c].tool = "delete"
  /\ Exists(k)
  /\ Erase(k)

\* What the handler reports of it.
Report(c) ==
  LET r == request[c] IN
  CASE r.tool \in Updates -> Success(r.tool, OldValue(r, read[c].spec))
    [] r.tool = "apply_yaml" -> Success(IF read[c] # Absent THEN "Updated" ELSE "Created", "")
    [] OTHER -> Success(r.tool, "")

\* The request is carried out; its answer may still be lost.
Write(c) ==
  /\ At(c, "write")
  /\ Update(c) \/ Apply(c) \/ Create(c) \/ Patch(c) \/ Delete(c)
  /\ \E a \in {Report(c), Failure} : Answer(c, a)
  /\ UNCHANGED <<request, read, goro, result, removed>>

\* It is refused, or does not arrive.
Reject(c) ==
  /\ At(c, "write")
  /\ Answer(c, Failure)
  /\ UNCHANGED <<objects, version, request, read, goro, result, removed>>

-----------------------------------------------------------------------------
\* delete_resources.

Workers(names) == [i \in DOMAIN names |-> [name |-> names[i], at |-> "delete"]]

\* deleteBatchByLabelSelector: nothing found is a success of its own.
List(c) ==
  LET names == SetToSeq(NamesSelected(request[c])) IN
  /\ At(c, "list")
  /\ \/ Answer(c, Failure) /\ UNCHANGED goro
     \/ /\ request[c].kind \in BatchKinds
        /\ names = <<>>
        /\ Answer(c, Success("delete_resources", "")) /\ UNCHANGED goro
     \/ /\ request[c].kind \in BatchKinds
        /\ names # <<>>
        /\ goro' = [goro EXCEPT ![c] = Workers(names)]
        /\ Goto(c, "wait") /\ UNCHANGED answer
  /\ UNCHANGED <<objects, version, request, read, result, removed>>

Spawn(c) ==
  /\ At(c, "spawn")
  /\ goro' = [goro EXCEPT ![c] = Workers(request[c].names)]
  /\ Goto(c, "wait")
  /\ UNCHANGED <<objects, version, request, answer, read, result, removed>>

\* The object a batch means by a name.
BatchKey(r, n) == <<r.kind, Namespaced(r.namespace), n>>

NameKey(c, i) == BatchKey(request[c], goro[c][i].name)

\* deleteResourceByKind in the goroutine of one name.
DeleteName(c, i) ==
  /\ goro[c][i].at = "delete"
  /\ \/ /\ request[c].kind \in BatchKinds
        /\ Exists(NameKey(c, i))
        /\ Erase(NameKey(c, i))
        /\ removed' = [removed EXCEPT ![c] =
             @ \cup {<<goro[c][i].name, objects[NameKey(c, i)].version>>}]
        /\ \E o \in {"success", "failure"} : goro' = [goro EXCEPT ![c][i].at = o]
     \/ /\ goro' = [goro EXCEPT ![c][i].at = "failure"]
        /\ UNCHANGED <<objects, version, removed>>
  /\ UNCHANGED <<request, answer, at, read, result>>

\* Mutant: a goroutine that failed never gets to wg.Done.
BookSuccess(c, i) ==
  \/ goro[c][i].at = "failure" /\ UNCHANGED vars
  \/ /\ goro[c][i].at = "success"
     /\ result' = [result EXCEPT ![c].success = Append(@, goro[c][i].name)]
     /\ goro' = [goro EXCEPT ![c][i].at = "done"]
     /\ UNCHANGED <<objects, version, request, answer, at, read, removed>>

\* The goroutine books its outcome under the mutex and is done.
Book(c, i) ==
  /\ goro[c][i].at \in {"success", "failure"}
  /\ result' = [result EXCEPT ![c][goro[c][i].at] = Append(@, goro[c][i].name)]
  /\ goro' = [goro EXCEPT ![c][i].at = "done"]
  /\ UNCHANGED <<objects, version, request, answer, at, read, removed>>

\* Mutant: wg.Add(1) is called in the goroutine, and Wait can return before it.
JoinEarly(c) ==
  /\ At(c, "wait")
  /\ \A i \in DOMAIN goro[c] : goro[c][i].at \in {"delete", "done"}
  /\ Answer(c, Success("delete_resources", ""))
  /\ UNCHANGED <<objects, version, request, read, goro, result, removed>>

\* wg.Wait returns.
Join(c) ==
  /\ At(c, "wait")
  /\ \A i \in DOMAIN goro[c] : goro[c][i].at = "done"
  /\ Answer(c, Success("delete_resources", ""))
  /\ UNCHANGED <<objects, version, request, read, goro, result, removed>>

-----------------------------------------------------------------------------
Handler(c) == Begin(c) \/ Get(c) \/ Write(c) \/ Reject(c) \/ List(c) \/ Spawn(c) \/ Join(c)

Goroutine(c, i) == DeleteName(c, i) \/ Book(c, i)

Others == Outside /\ UNCHANGED <<request, answer, at, read, goro, result, removed>>

Quiet == (\A c \in Calls : At(c, "answered")) /\ UNCHANGED vars

Next ==
  \/ \E c \in Calls : Handler(c) \/ \E i \in DOMAIN goro[c] : Goroutine(c, i)
  \/ Others
  \/ Quiet

Spec == Init /\ [][Next]_vars

\* Every request to the API server ends, at the latest with the deadline of the
\* call's context, and Go runs every goroutine.  Nothing is assumed of others.
FairSpec ==
  /\ Spec
  /\ \A c \in Calls : WF_vars(Handler(c))
  /\ \A c \in Calls : WF_vars(\E i \in DOMAIN goro[c] : Goroutine(c, i))
-----------------------------------------------------------------------------
\* Properties.

Places == {"start", "get", "write", "list", "spawn", "wait", "answered"}

\* Every variable has its type; a handler is at "answered" exactly when its
\* caller has been told.
TypeOK ==
  /\ \A k \in Keys : objects[k] = Absent \/ objects[k].version \in 1 .. version
  /\ \A k \in Keys : Dying(k) => k \in Lingering
  /\ at \in [Calls -> Places]
  /\ \A c \in Calls : (answer[c] = Pending) <=> ~At(c, "answered")
  /\ \A c \in Calls : Range(result[c].success) \cup Range(result[c].failure)
                        \subseteq {goro[c][i].name : i \in DOMAIN goro[c]}

\* What the API server keeps and what the callers are told is what calls that
\* do their work at one instant would give: no update of the five getting tools
\* overwrites what somebody else wrote after the read, and each reports what it
\* really replaced (update_scale.go:41-53 and its like).
ImplementsAtomicWrites == Atomic!Spec

\* What a batch deleted is gone, or dying, or somebody has made it anew.
Removed(k, v) == Exists(k) => Dying(k) \/ objects[k].version > v

\* A batch that is answered has counted every name it was given, once.  Each name
\* it reports as deleted has an object that a request of its own deleted, and
\* that does not live on; an object that goes at once has one for each time it
\* is reported, where a Pod with a grace period can be reported twice for one
\* deletion (deleteBatchByNames).
BatchAddsUp ==
  \A c \in Calls :
    answer[c] = Success("delete_resources", "") =>
      /\ Len(result[c].success) + Len(result[c].failure) = Len(goro[c])
      /\ \A n \in Range(result[c].success) :
           LET k == BatchKey(request[c], n)
               own == {p \in removed[c] : p[1] = n}
           IN  /\ \E p \in own : Removed(k, p[2])
               /\ k \notin Lingering =>
                    Cardinality({i \in DOMAIN result[c].success : result[c].success[i] = n})
                      <= Cardinality(own)

Made(k) == Exists(k) /\ objects[k].spec.maker = "create"

\* Some call asks create_service for the Service with a selector of its own.
SelectorChosen(k) ==
  \E c \in Calls : /\ request[c].tool = "create" /\ request[c].kind = "Service"
                   /\ Target(request[c]) = k
                   /\ request[c].selector # {}

\* A Service that create_service made without a selector selects the Pods of the
\* Deployment that create_deployment made under its name, whatever labels were
\* given to either and whatever was scaled, restarted or re-imaged since, and
\* whatever was patched, unless a patch or a manifest chose the selector or the
\* Pods' labels anew.
DefaultsMeet ==
  \A s, w \in Keys :
    ( /\ s[1] = "Service" /\ w = <<"Deployment", s[2], s[3]>>
      /\ Made(s) /\ Made(w)
      /\ ~SelectorChosen(s) )
    => objects[s].spec.selector \subseteq objects[w].spec.template

\* Every call is answered: a batch does not wait for a goroutine that failed.
Answered == \A c \in Calls : <>At(c, "answered")

-----------------------------------------------------------------------------
\* The inductive invariant of the proofs.

Names ==
  {k[3] : k \in Keys}
    \cup UNION {Range(request[c].names) :
                 c \in {d \in Calls : request[d].tool = "delete_resources"}}

Worker == [name : Names, at : {"delete", "success", "failure", "done"}]

Shapes ==
  /\ objects = [k \in Keys |-> objects[k]]
  /\ version \in Nat \ {0}
  /\ request = [c \in Calls |-> request[c]]
  /\ \A c \in Calls :
       request[c].tool = "delete_resources" => request[c].names \in Seq(Names)
  /\ answer = [c \in Calls |-> answer[c]]
  /\ read = [c \in Calls |-> read[c]]
  /\ goro \in [Calls -> Seq(Worker)]
  /\ result \in [Calls -> [success : Seq(Names), failure : Seq(Names)]]
  /\ removed \in [Calls -> SUBSET (Names \X Nat)]

\* As long as the object has the version that was read, it is what was read.
ReadCurrent ==
  \A c \in Calls :
    LET r == request[c]
        k == Target(r)
    IN  /\ read[c] # Absent =>
             /\ read[c].version \in 1 .. version
             /\ Exists(k) /\ objects[k].version = read[c].version => objects[k] = read[c]
        /\ At(c, "write") /\ r.tool \in Updates =>
             read[c] # Absent /\ Editable(r, read[c].spec)

\* Only a batch has goroutines, and it waits for them.
Supervised ==
  \A c \in Calls :
    /\ at[c] \in {"list", "spawn", "wait"} => request[c].tool = "delete_resources"
    /\ at[c] \notin {"wait", "answered"} => goro[c] = <<>>
    /\ \A i \in DOMAIN goro[c] : goro[c][i].at # "done" => At(c, "wait")

\* The goroutines of c at a place, all of them or those of one name.
WorkersAt(c, place) == {i \in DOMAIN goro[c] : goro[c][i].at = place}
WorkersOf(c, n) == {i \in WorkersAt(c, "success") : goro[c][i].name = n}

Counted(s, n) == {i \in DOMAIN s : s[i] = n}
RemovedOf(c, n) == {p \in removed[c] : p[1] = n}

\* Every goroutine that is done is in one of the lists; every success booked or
\* to be booked has a deletion, and what was deleted does not live on.
BooksKept ==
  \A c \in Calls :
    /\ Len(result[c].success) + Len(result[c].failure) = Cardinality(WorkersAt(c, "done"))
    /\ IsFiniteSet(removed[c])
    /\ \A n \in Names :
         /\ RemovedOf(c, n) = {} => Counted(result[c].success, n) = {} /\ WorkersOf(c, n) = {}
         /\ BatchKey(request[c], n) \notin Lingering =>
              Cardinality(Counted(result[c].success, n)) + Cardinality(WorkersOf(c, n))
                <= Cardinality(RemovedOf(c, n))
    /\ \A p \in removed[c] : p[2] <= version /\ Removed(BatchKey(request[c], p[1]), p[2])

IInv == TypeOK /\ Shapes /\ ReadCurrent /\ Supervised /\ BooksKept

-----------------------------------------------------------------------------
\* The inductive form of DefaultsMeet: what the create tools made still has the
\* labels of its name.

Labelled(k, spec) ==
  /\ "maker" \in DOMAIN spec
  /\ spec.maker = "create" /\ k[1] = "Deployment" =>
       "template" \in DOMAIN spec /\ spec.template = AppLabel(k)
  /\ spec.maker = "create" /\ k[1] = "Service" /\ ~SelectorChosen(k) =>
       "selector" \in DOMAIN spec /\ spec.selector = AppLabel(k)

LabelsKept == \A k \in Keys : Exists(k) => Labelled(k, objects[k].spec)

\* The requests stay what the scenario says they are.
RequestsKept ==
  \A c \in Calls : request[c].tool \in {"apply_yaml", "create_from_yaml"} =>
    Unmade(request[c].spec)
=============================================================================
