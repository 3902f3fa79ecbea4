------------------------------ MODULE QueryTools ------------------------------
(***************************************************************************)
(* A call of a tool that reads (internal/tools), as its handler makes it:  *)
(* one request to the API server after the other, each chosen by what the  *)
(* ones before found, while the cluster changes in between.  The preview   *)
(* of a deletion reads in several goroutines.  A read may fail: some tools *)
(* fail with it, others go on without what it would have told.             *)
(***************************************************************************)
EXTENDS QueryFacts

CONSTANTS
  Scenes,       \* [request, index, before, after]: a call and what happens meanwhile
  MaxFailures   \* bound: the reads that fail for no reason of the cluster's

ASSUME QueryAssumption == MaxFailures \in Nat

\* The tools that match names (get_pod_filter, get_resource_filter) say how.
FilterTools == {"get_pod_filter", "get_resource_filter"}

\* What a call sees of cluster c.  The NodePort tools have their Services from
\* the indexer when it is ready, and know of no others: s.index is whatever it
\* holds, which may be behind the cluster, and have Services that were deleted
\* long ago while no watch was open (ServiceIndexer).
View(s, c) ==
  IF s.request.tool \in NodePortTools /\ s.request.indexed
  THEN (c \ Of(c, "Service")) \cup s.index ELSE c

\* What a tool that makes one read has no argument for (register_query.go) is
\* empty.
FitsTool(r) ==
  /\ r.tool \in {"top_pods", "top_nodes"} => r.name = "" /\ r.limit \in Int
  /\ r.tool \in FilterTools \cup {"describe_resource", "get_pod_logs", "top_pods", "top_nodes"} =>
       r.selector = {}
  /\ r.tool \in ResourceTools \ FilterTools => r.mode = "exact"

\* A field selector looks at the one object an Event is about.
EventsAboutOne(c) ==
  \A e \in Of(c, "Event") :
    /\ <<"involvedObject", e.about>> \in e.labels
    /\ \A l \in e.labels : l[1] = "involvedObject" => l[2] = e.about

ASSUME ScenesAssumption ==
  /\ ContextNamespace # ""
  /\ \A s \in Scenes :
       /\ FitsTool(s.request)
       /\ IsFiniteSet(s.index) /\ s.index = Of(s.index, "Service")
       /\ \A c \in {s.before, s.after} : IsFiniteSet(c) /\ EventsAboutOne(c)

\* A cluster has one object of every Id, and one object changes while a call
\* reads.  If several do, a trace may lead from a Service of the one moment over
\* a Pod of the other to what there was at no moment.
OneChanges(before, after) ==
  /\ \A c \in {before, after} : \A o, p \in c : Id(o) = Id(p) => o = p
  /\ \A o, p \in (before \ after) \cup (after \ before) : Id(o) = Id(p)

\* Services are namespaced and have names, paths and hosts are sequences, and a
\* workload's Pods have the labels its selector asks for (the API server takes
\* no other workload).
Traceable(r, c) ==
  /\ \A s \in Of(c, "Service") : s.ns # "" /\ s.name # ""
  /\ r.path \in Seq(Range(r.path)) /\ r.host \in Seq(Range(r.host))
  /\ \A i \in Of(c, "Ingress") : \A p \in i.paths :
       p.path \in Seq(Range(p.path)) /\ p.host \in Seq(Range(p.host))
  /\ \A w \in c : w.kind \in Range(WorkloadKinds) => w.selector \subseteq w.template

ASSUME TracesAssumption ==
  \A s \in Scenes :
    s.request.tool \in TracingTools =>
      /\ OneChanges(View(s, s.before), View(s, s.after))
      /\ \A c \in {s.before, s.after} : Traceable(s.request, View(s, c))

\* What a workload owns has the labels it selects: its controller gives up what
\* has them no more.
OwnersSelect(c) ==
  \A o \in c : o.kind \in Range(WorkloadKinds) => Collected(c, o) \subseteq Alike(c, o)

ASSUME PreviewsAssumption ==
  \A s \in Scenes :
    s.request.tool = "preview_delete_resources" => OwnersSelect(s.before) /\ OwnersSelect(s.after)

VARIABLES
  scene,
  changed,   \* whether the change has happened
  at,        \* where the handler is: "start", "reading", "done" or "dead"
  got,       \* what has been read: request |-> result
  lost,      \* how many reads failed
  booked,    \* preview: the goroutines that have booked their result
  preview,   \* preview: the result the goroutines write into
  answer     \* what the caller was told

vars == <<scene, changed, at, got, lost, booked, preview, answer>>

req == scene.request
Before == View(scene, scene.before)
After == View(scene, scene.after)
Cluster == IF changed THEN After ELSE Before

IsPreview == req.tool = "preview_delete_resources"

Pending == [status |-> "pending", told |-> {}]
Failure == [status |-> "error", told |-> {}]

Init ==
  /\ scene \in Scenes
  /\ changed = FALSE
  /\ at = "start"
  /\ got = <<>>
  /\ lost = 0
  /\ booked = {}
  /\ preview = [resources |-> <<>>, totalImpactCount |-> 0, maxRiskLevel |-> "low"]
  /\ answer = Pending

-----------------------------------------------------------------------------
\* The handlers.

Refused ==
  CASE req.tool \in ResourceTools -> ResourceRefused(req)
    [] req.tool \in TracingTools -> TraceRefused(req)
    [] IsPreview -> PreviewRefused(req)
    [] req.tool \in InspectionTools -> InspectionRefused(req)

Scripts ==
  CASE req.tool \in ResourceTools -> {<<ResourceRead(req)>>}
    [] req.tool \in TracingTools -> TraceScripts(req, got)
    [] IsPreview -> PreviewScripts(req, got)
    [] req.tool \in InspectionTools -> {InspectionScript(req)}

Fatal(r) ==
  CASE req.tool \in ResourceTools -> ResourceFatal(req)
    [] req.tool \in TracingTools -> TraceFatal(req, r)
    [] IsPreview -> PreviewFatal(req, r)
    [] req.tool \in InspectionTools -> InspectionFatal(req, r)

Panics == req.tool \in TracingTools /\ TracePanics(req, got)

Answers ==
  CASE req.tool \in ResourceTools -> ResourceAnswers(req, got)
    [] req.tool \in TracingTools -> {TraceFacts(req, got)}
    [] IsPreview -> {PreviewFacts(req, got)}
    [] req.tool \in InspectionTools -> InspectionAnswers(req, got)

Unread(s) == {i \in DOMAIN s : s[i] \notin DOMAIN got}

\* A script that was begun is gone through before the next; goroutines are not
\* held up by one another.  None is left when everything is read.
NextReads ==
  LET open == {s \in Scripts : Unread(s) # {}}
      begun == {s \in open : Head(s) \in DOMAIN got}
  IN  {s[Min(Unread(s))] : s \in IF IsPreview \/ begun = {} THEN open ELSE begun}

Goroutines == IF IsPreview THEN DOMAIN PreviewNames(req, got) ELSE {}

-----------------------------------------------------------------------------
Return(a) ==
  /\ answer' = a
  /\ at' = "done"

\* FindServiceByNodePort needs none when the index is ready.
NeedsClient == req.tool # "find_service_by_nodeport" \/ ~req.indexed

\* The arguments are checked and a client is asked for, which can fail.
Begin ==
  /\ at = "start"
  /\ \/ (Refused \/ NeedsClient) /\ Return(Failure)
     \/ ~Refused /\ at' = "reading" /\ UNCHANGED answer
  /\ UNCHANGED <<scene, changed, got, lost, booked, preview>>

\* What a read may give: the index is at hand, what the API server is asked for
\* may be lost.  A call that goes on without a client loses all of it.
Results(r) ==
  {Fetch(Cluster, r)}
  \cup IF r.op # "index" /\ (lost < MaxFailures \/ (~NeedsClient /\ lost > 0)) THEN {Lost} ELSE {}

Read(r) ==
  /\ at = "reading"
  /\ ~Panics
  /\ \E result \in Results(r) :
       /\ got' = [x \in DOMAIN got \cup {r} |-> IF x = r THEN result ELSE got[x]]
       /\ lost' = IF result = Lost THEN lost + 1 ELSE lost
       /\ IF ~result.ok /\ Fatal(r) THEN Return(Failure) ELSE UNCHANGED <<at, answer>>
  /\ UNCHANGED <<scene, changed, booked, preview>>

\* Mutant: the risk of the last goroutine is taken.
LastRisk(old, new) == new

Higher(old, new) == IF compareRiskLevel(new, old) > 0 THEN new ELSE old

\* A goroutine has its analysis and books it under the mutex.
Book(i) ==
  /\ at = "reading"
  /\ i \in Goroutines \ booked
  /\ Analysed(req, got, i)
  /\ preview' =
       [resources |-> Append(preview.resources,
          [name |-> PreviewNames(req, got)[i], riskLevel |-> RiskLevel(req, got, i),
           impacted |-> Impacts(req, got, i)]),
        totalImpactCount |-> preview.totalImpactCount + Cardinality(Impacts(req, got, i)),
        maxRiskLevel |-> Higher(preview.maxRiskLevel, RiskLevel(req, got, i))]
  /\ booked' = booked \cup {i}
  /\ UNCHANGED <<scene, changed, at, got, lost, answer>>

\* Everything is read, and wg.Wait of the preview has returned.
Answer ==
  /\ at = "reading"
  /\ ~Panics
  /\ NextReads = {}
  /\ booked = Goroutines
  /\ \/ /\ req.tool \in ResourceTools /\ ResourceMissing(req, got)
        /\ Return(Failure)
     \/ /\ ~(req.tool \in ResourceTools /\ ResourceMissing(req, got))
        /\ \E told \in Answers : Return([status |-> "ok", told |-> told])
  /\ UNCHANGED <<scene, changed, got, lost, booked, preview>>

\* The nil Backend.Service is dereferenced: the panic ends the process, for the
\* goroutine of the tool call has no recover of its own.
Panic ==
  /\ at = "reading"
  /\ Panics
  /\ at' = "dead"
  /\ UNCHANGED <<scene, changed, got, lost, booked, preview, answer>>

\* Somebody else changes the cluster.
Change ==
  /\ ~changed
  /\ at = "reading"
  /\ scene.before # scene.after
  /\ changed' = TRUE
  /\ UNCHANGED <<scene, at, got, lost, booked, preview, answer>>

Handler == Begin \/ (\E r \in NextReads : Read(r)) \/ (\E i \in Goroutines : Book(i)) \/ Answer \/ Panic

Next == Handler \/ Change

Spec == Init /\ [][Next]_vars

\* Every read ends, at the latest with the deadline of the call, and Go runs
\* every goroutine.
FairSpec == Spec /\ WF_vars(Handler)
-----------------------------------------------------------------------------
\* Properties.

Answered(status) == at = "done" /\ answer.status = status

\* Whatever is so before and after the change is told by every call that answers
\* and lost no read: that the reads see different moments hides nothing that
\* stays (query_reverse.go, delete_preview.go, inspect_*.go and the listing tools).
\* Of Services the NodePort tools tell what the index has: they are as fresh as
\* that (TracksCluster and EventuallyIndexed of ServiceIndexer).  A report that
\* is cut off still has its worst findings and their status, but for that of the
\* root causes of events, which prefers what happened often
\* (inspect_event_root_causes.go:111-126) and has these.
FindsWhatStays ==
  (Answered("ok") /\ lost = 0 /\ ~Cut(req, Before) /\ ~Cut(req, After)) =>
    Wanted(req, Before) \cap Wanted(req, After) \subseteq answer.told

\* inspect_namespace_health takes an Endpoints list it could not read for an
\* empty one (inspect_namespace_health.go:40): what it then says of Services,
\* and the status of the report with it, need not be so.
Misled ==
  IF /\ req.tool = "inspect_namespace_health"
     /\ \E r \in DOMAIN got : r.kind = "Endpoints" /\ got[r] = Lost
  THEN {f \in answer.told : f[1] \in {"NamespaceServiceNoEndpoints", "status"}}
  ELSE {}

\* Nothing is told that was so neither before nor after the change, also when
\* reads were lost: an address is never traced to what it does not lead to (by
\* the Services the call sees), a preview names only what refers to a resource,
\* serves it or has the labels it selects, and an inspection finds no fault the
\* cluster did not have and calls it no worse than it was.
TellsOnlyWhatWas ==
  Answered("ok") => answer.told \ Misled \subseteq May(req, Before) \cup May(req, After)

\* total is the sum of the impacts of all: the last of their running totals.
AddsUp(total, all) ==
  \E running \in [0 .. Len(all) -> 0 .. total] :
    /\ running[0] = 0
    /\ \A k \in 1 .. Len(all) : running[k] = running[k - 1] + Cardinality(all[k].impacted)
    /\ running[Len(all)] = total

\* A preview that is answered has analysed every name once, counts the groups
\* of impacts of all of them, and its risk is the highest of theirs
\* (delete_preview.go:78-110).
PreviewAddsUp ==
  (Answered("ok") /\ IsPreview) =>
    LET all == preview.resources
        names == PreviewNames(req, got)
    IN  /\ \A n \in Range(names) :
             Quantify(DOMAIN all, LAMBDA i : all[i].name = n)
               = Quantify(DOMAIN names, LAMBDA i : names[i] = n)
        /\ AddsUp(preview.totalImpactCount, all)
        /\ \A i \in DOMAIN all : compareRiskLevel(preview.maxRiskLevel, all[i].riskLevel) >= 0
        /\ preview.maxRiskLevel \in {"low"} \cup {all[i].riskLevel : i \in DOMAIN all}

\* A path without a Service on the way of the two tools that take every path of
\* an Ingress to have one (query_reverse.go:303, 1089).
MeetsResourceBackend ==
  \E c \in {Before, After} : \E i \in IngressesWanted(req, c) : \E p \in i.paths :
    /\ p.service = ""
    /\ \/ req.tool = "get_ingresses"
       \/ /\ req.tool = "trace_by_host" /\ HostMeets(p.host, req.host, req.mode)
          /\ \E k \in 0 .. Len(p.path) : req.path = SubSeq(p.path, 1, k)

\* Every call is answered: a preview does not wait for a goroutine that failed,
\* and no tool dies but of a path without a Service that it was asked about.
AnsweredAtLast == <>(at = "done" \/ (at = "dead" /\ MeetsResourceBackend))

-----------------------------------------------------------------------------
\* What holds of any tool while it reads and when it has answered.

\* What was read is of the cluster before or after the change, or was lost.
ReadsKept ==
  \A r \in DOMAIN got :
    got[r] = Lost \/ \E c \in {Before, After} : got[r] = Fetch(c, r)

LossesKept == lost \in Nat /\ (lost = 0 => \A r \in DOMAIN got : got[r] # Lost)

\* An answer is made of everything the tool had to read, for a request it took.
AnswerKept ==
  /\ at = "reading" \/ Answered("ok") => ~Refused
  /\ Answered("ok") => NextReads = {} /\ ~Panics /\ answer.told \in Answers

ReadingInv == scene \in Scenes /\ ReadsKept /\ LossesKept /\ AnswerKept

\* A tracing tool reads only what it has found a reason for: the Services of
\* the keys, and what goes with those that are there.
TraceKept ==
  req.tool \in TracingTools =>
    \A r \in DOMAIN got \ {TraceFirst(req)} :
      \E k \in ServiceKeys(req, got) :
        \/ req.tool \in HostTools /\ r = ServiceGet(k)
        \/ /\ ServiceObject(req, got, k) # {}
           /\ \/ WantsEndpoints(req) /\ r \in {SlicesList(k), EndpointsGet(k)}
              \/ WantsWorkloads(req) /\ r \in Range(WorkloadLists(k))

-----------------------------------------------------------------------------
\* The inductive form of PreviewAddsUp: what holds of a preview while its
\* goroutines still book.

\* The result is a record, and what was booked a sequence.
ResultKept ==
  /\ preview = [resources |-> preview.resources, totalImpactCount |-> preview.totalImpactCount,
                maxRiskLevel |-> preview.maxRiskLevel]
  /\ preview.resources \in Seq(Range(preview.resources))

\* Entry k is of goroutine by[k], and of no other.
NamesKept ==
  \E by \in [DOMAIN preview.resources -> booked] :
    /\ IsInjective(by)
    /\ Range(by) = booked
    /\ \A k \in DOMAIN by : preview.resources[k].name = PreviewNames(req, got)[by[k]]

\* Goroutines run only once the names are known, and then these stay.
BookedKept ==
  /\ booked \subseteq Goroutines
  /\ booked # {} /\ req.names = <<>> => NamesList(req) \in DOMAIN got

TotalKept ==
  /\ preview.totalImpactCount \in Nat
  /\ AddsUp(preview.totalImpactCount, preview.resources)

Levels == {RiskLevels[i] : i \in 1 .. 4}

RiskKept ==
  LET all == preview.resources IN
  /\ preview.maxRiskLevel \in Levels
  /\ \A k \in DOMAIN all :
       all[k].riskLevel \in Levels /\ compareRiskLevel(preview.maxRiskLevel, all[k].riskLevel) >= 0
  /\ preview.maxRiskLevel \in {"low"} \cup {all[k].riskLevel : k \in DOMAIN all}

\* wg.Wait has returned before anything is answered.
AllBooked == Answered("ok") => booked = Goroutines

PreviewInv == ResultKept /\ NamesKept /\ BookedKept /\ TotalKept /\ RiskKept /\ AllBooked
=============================================================================
