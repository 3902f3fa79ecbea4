------------------------------ MODULE Inspections ------------------------------
(***************************************************************************)
(* The inspections (internal/tools/inspect_*.go): each lists what it needs,*)
(* kind by kind, and then compares.  The kinds are read one after the      *)
(* other, so the lists that are compared are of different moments.  A Pod  *)
(* has one container here; texts and evidence of the findings are left     *)
(* out, a finding being its type, its object and what tells it apart.      *)
(***************************************************************************)
EXTENDS DeletePreview

InspectionTools == {"inspect_cluster_overview", "inspect_node_health",
  "inspect_workload_health", "inspect_events", "inspect_event_root_causes",
  "inspect_workload_references", "inspect_pod_diagnostics",
  "inspect_service_connectivity", "inspect_storage_diagnostics",
  "inspect_node_pressure", "inspect_namespace_health"}

\* These are about the whole cluster.
ClusterTools == {"inspect_cluster_overview", "inspect_node_health", "inspect_node_pressure"}

\* These take the namespace of the context unless one is given; one that is
\* given blank is every namespace.
NamespaceTools == {"inspect_pod_diagnostics", "inspect_service_connectivity",
  "inspect_storage_diagnostics", "inspect_namespace_health"}

InspectedNamespace(req) ==
  CASE req.tool \in ClusterTools -> ""
    [] req.tool \in NamespaceTools -> IF req.blank THEN "" ELSE Defaulted(req)
    [] OTHER -> req.ns

\* client-go refuses a Get by name in no namespace.
InspectionRefused(req) ==
  /\ req.tool \in NamespaceTools
  /\ InspectedNamespace(req) = ""
  /\ req.tool = "inspect_namespace_health" \/ req.name # ""

-----------------------------------------------------------------------------
\* The reads.

ClusterKinds == {"Node", "PersistentVolume", "StorageClass"}

\* The kinds in the order in which they are read.
InspectedKinds(req) ==
  CASE req.tool = "inspect_cluster_overview" ->
         <<"Node", "Pod", "Deployment", "StatefulSet", "DaemonSet", "Event">>
    [] req.tool = "inspect_node_health" -> <<"Node", "Pod">>
    [] req.tool = "inspect_workload_health" -> <<"Deployment", "StatefulSet", "DaemonSet", "Pod">>
    [] req.tool \in {"inspect_events", "inspect_event_root_causes"} -> <<"Event">>
    [] req.tool = "inspect_workload_references" ->
         <<"Service", "Pod", "Endpoints", "StatefulSet", "Deployment", "ReplicaSet", "DaemonSet">>
         \o (IF req.includeIngress THEN <<"Ingress">> ELSE <<>>)
         \o (IF req.includeHPA THEN <<"HorizontalPodAutoscaler">> ELSE <<>>)
         \o (IF req.includePDB THEN <<"PodDisruptionBudget">> ELSE <<>>)
    [] req.tool = "inspect_pod_diagnostics" ->
         <<"Pod">> \o (IF InspectedNamespace(req) # "" THEN <<"Event">> ELSE <<>>)
    [] req.tool = "inspect_service_connectivity" -> <<"Service", "Pod", "Endpoints">>
    [] req.tool = "inspect_storage_diagnostics" ->
         <<"PersistentVolumeClaim", "PersistentVolume", "StorageClass", "Event">>
    [] req.tool = "inspect_node_pressure" -> <<"Node", "Pod", "Event">>
    [] req.tool = "inspect_namespace_health" ->
         <<"Pod", "Service", "Endpoints", "PersistentVolumeClaim", "Event">>

\* The kind of which one object may be asked for by name.
NamedKind(req) ==
  CASE req.tool = "inspect_pod_diagnostics" -> "Pod"
    [] req.tool = "inspect_service_connectivity" -> "Service"
    [] req.tool = "inspect_node_pressure" -> "Node"
    [] OTHER -> ""

ListsWarnings == {"inspect_cluster_overview", "inspect_events", "inspect_event_root_causes"}

\* An HPA is listed with autoscaling/v2, or with v1 where there is no v2: one
\* read here, for both list the same objects.
InspectionRead(req, kind) ==
  LET one == kind = NamedKind(req) /\ req.name # "" IN
  Request(IF one THEN "get" ELSE "list", kind,
    IF kind \in ClusterKinds THEN "" ELSE InspectedNamespace(req),
    IF one THEN req.name ELSE "",
    (IF kind = "Event" /\ req.tool \in ListsWarnings THEN {<<"type", "Warning">>} ELSE {})
      \cup (IF kind = "Pod" /\ req.tool = "inspect_pod_diagnostics" /\ ~one
            THEN req.selector ELSE {}),
    <<>>)

InspectionScript(req) ==
  [i \in DOMAIN InspectedKinds(req) |-> InspectionRead(req, InspectedKinds(req)[i])]

\* The lists an inspection goes on without.
Dispensable(req) ==
  CASE req.tool = "inspect_namespace_health" -> {"Endpoints", "PersistentVolumeClaim", "Event"}
    [] req.tool \in {"inspect_pod_diagnostics", "inspect_storage_diagnostics",
                     "inspect_node_pressure"} -> {"Event"}
    [] OTHER -> {}

InspectionFatal(req, r) == r.kind \notin Dispensable(req)

AllInspectedKinds == ClusterKinds \cup
  {"Pod", "Deployment", "StatefulSet", "ReplicaSet", "DaemonSet", "Event", "Service",
   "Endpoints", "Ingress", "HorizontalPodAutoscaler", "PodDisruptionBudget",
   "PersistentVolumeClaim"}

\* What was read of a kind; nothing, if it was not.
Inspected(req, got, kind) == Items(got, InspectionRead(req, kind))

-----------------------------------------------------------------------------
\* Services, and what refers to what.

When(condition, finding) == IF condition THEN {finding} ELSE {}

podsMatchingSelector(ns, selector, pods) == {p \in pods : p.ns = ns /\ selector \subseteq p.labels}

endpointHasAddress(ep) == \E a \in ep.addresses : a[2]

\* The entry of the endpoint map is missing or has no ready address.
NoEndpoints(svc, endpoints) ==
  ~\E ep \in endpoints : ep.ns = svc.ns /\ ep.name = svc.name /\ endpointHasAddress(ep)

HasBackends(svc) == svc.type # "ExternalName" /\ svc.selector # {}

\* A port of a Service is its number and its target; target 0 is the number.
serviceTargetPortExists(port, pods) ==
  \E p \in pods : (IF port[2] = 0 THEN port[1] ELSE port[2]) \in p.ports

inspectServiceConnectivityOne(svc, pods, endpoints) ==
  LET matched == podsMatchingSelector(svc.ns, svc.selector, pods) IN
  IF ~HasBackends(svc) THEN {}
  ELSE IF matched = {} THEN {Fact("ServiceNoMatchedPods", Id(svc), <<>>)}
  ELSE When(\A p \in matched : ~p.ready, Fact("ServiceTargetsNotReady", Id(svc), <<>>))
       \cup When(NoEndpoints(svc, endpoints), Fact("ServiceNoEndpoints", Id(svc), <<>>))
       \cup {Fact("TargetPortMismatch", Id(svc), <<port>>) :
               port \in {q \in svc.ports : ~serviceTargetPortExists(q, matched)}}

inspectServiceReferences(svc, pods, endpoints) ==
  IF ~HasBackends(svc) THEN {}
  ELSE When(podsMatchingSelector(svc.ns, svc.selector, pods) = {},
            Fact("ServiceNoMatchedPods", Id(svc), <<>>))
       \cup When(NoEndpoints(svc, endpoints), Fact("ServiceNoEndpoints", Id(svc), <<>>))

NamedService(ns, name, services) == {s \in services : s.ns = ns /\ s.name = name}

inspectStatefulSetServiceReference(sts, services) ==
  When(sts.serviceName # "" /\ NamedService(sts.ns, sts.serviceName, services) = {},
       Fact("MissingService", Id(sts), <<sts.serviceName>>))

\* Backends that are not Services are passed over.
inspectIngressReferences(ing, services) ==
  UNION {LET found == NamedService(ing.ns, b.service, services) IN
         When(found = {}, Fact("MissingService", Id(ing), <<b.service>>))
         \cup When(\E s \in found : \A port \in s.ports : port[1] # b.port,
                   Fact("IngressBackendPortMissing", Id(ing), <<b.service, b.port>>)) :
           b \in {p \in ing.paths \cup ing.default : p.service # ""}}

normalizeWorkloadKind(kind) ==
  CASE kind \in {"deployment", "deployments"} -> "Deployment"
    [] kind \in {"statefulset", "statefulsets"} -> "StatefulSet"
    [] kind \in {"replicaset", "replicasets"} -> "ReplicaSet"
    [] kind \in {"daemonset", "daemonsets"} -> "DaemonSet"
    [] kind = "" -> "Unknown"
    [] OTHER -> kind

inspectHPAReference(hpa, workloads) ==
  LET kind == normalizeWorkloadKind(hpa.target[1]) IN
  When(<<kind, hpa.ns, hpa.target[2]>> \notin {Id(w) : w \in workloads},
       Fact("HPATargetMissing", Id(hpa), <<kind, hpa.target[2]>>))

\* A selector may be absent or not parse; an empty one is for every Pod.
inspectPDBReference(pdb, pods) ==
  CASE pdb.form = "none" -> {}
    [] pdb.form = "invalid" -> {Fact("PDBSelectorInvalid", Id(pdb), <<>>)}
    [] OTHER -> When(podsMatchingSelector(pdb.ns, pdb.selector, pods) = {},
                     Fact("PDBNoMatchedPods", Id(pdb), <<>>))

ConnectivityFindings(read) ==
  UNION {inspectServiceConnectivityOne(s, read["Pod"], read["Endpoints"]) : s \in read["Service"]}

\* `read` gives, here and below, what was read of each kind.
ReferenceFindings(read) ==
  LET services == read["Service"]
      workloads == UNION {read[k] : k \in {"Deployment", "StatefulSet", "ReplicaSet", "DaemonSet"}}
  IN  UNION {inspectStatefulSetServiceReference(s, services) : s \in read["StatefulSet"]}
      \cup UNION {inspectServiceReferences(s, read["Pod"], read["Endpoints"]) : s \in services}
      \cup UNION {inspectIngressReferences(i, services) : i \in read["Ingress"]}
      \cup UNION {inspectHPAReference(h, workloads) : h \in read["HorizontalPodAutoscaler"]}
      \cup UNION {inspectPDBReference(b, read["Pod"]) : b \in read["PodDisruptionBudget"]}

-----------------------------------------------------------------------------
\* Pods, volumes and namespaces.

highRestartThreshold == 10

About(e) == <<e.about[1], e.ns, e.about[2]>>

classifyContainerWaitingFinding(reason) ==
  CASE reason = "CrashLoopBackOff" -> reason
    [] reason \in {"ImagePullBackOff", "ErrImagePull"} -> "ImagePullFailure"
    [] reason \in {"CreateContainerConfigError", "CreateContainerError"} -> "ContainerConfigError"
    [] reason = "ContainerCreating" -> reason
    [] OTHER -> "ContainerWaiting"

buildPodDiagnosticFindings(p, events) ==
  LET unscheduled == \E e \in events : About(e) = Id(p) /\ e.reason = "FailedScheduling" IN
  When(p.phase = "Pending",
       Fact(IF unscheduled THEN "ScheduleFailure" ELSE "PodPending", Id(p), <<p.node>>))
  \cup When(p.phase = "Failed", Fact("PodFailed", Id(p), <<>>))
  \cup When(p.waiting # "",
            Fact(classifyContainerWaitingFinding(p.waiting), Id(p), <<p.waiting>>))
  \cup When(p.terminated # "",
            Fact(IF p.terminated = "OOMKilled" THEN "OOMKilled" ELSE "ContainerTerminated",
                 Id(p), <<p.terminated>>))
  \cup When(p.restarts >= highRestartThreshold, Fact("HighRestart", Id(p), <<p.restarts>>))

PodFindings(read) ==
  UNION {buildPodDiagnosticFindings(p, read["Event"]) : p \in read["Pod"]}

\* One finding for each Event: the text of the Event is in it, which its name
\* stands for here.
StorageFindings(read) ==
  LET classes == {s.name : s \in read["StorageClass"]} IN
  UNION {When(v.phase = "Pending", Fact("PVCPending", Id(v), <<>>))
         \cup When(v.storageClass \notin classes \cup {""},
                   Fact("StorageClassMissing", Id(v), <<v.storageClass>>)) :
           v \in read["PersistentVolumeClaim"]}
  \cup UNION {When(v.phase = "Released", Fact("PVReleased", Id(v), <<>>))
              \cup When(v.phase = "Failed", Fact("PVFailed", Id(v), <<>>)) :
                v \in read["PersistentVolume"]}
  \cup UNION {When(e.reason = "FailedMount", Fact("VolumeMountFailure", About(e), <<e.name>>))
              \cup When(e.reason = "FailedAttachVolume",
                   Fact("VolumeAttachFailure", About(e), <<e.name>>)) :
                e \in read["Event"]}

IsWarning(e) == <<"type", "Warning">> \in e.labels

\* The loop over the Warning events stops at the fifth.
WarningEventsShown == 5

FirstWarnings(events) ==
  LET warnings == {e \in events : IsWarning(e)} IN
  kSubset(Min({Cardinality(warnings), WarningEventsShown}), warnings)

NamespaceFindings(read, warnings) ==
  {Fact("NamespaceAbnormalPod", Id(p), <<PodStatus(p)>>) :
     p \in {q \in read["Pod"] : q.phase \notin {"Running", "Succeeded"}}}
  \cup {Fact("NamespaceServiceNoEndpoints", Id(s), <<>>) :
          s \in {t \in read["Service"] : HasBackends(t) /\ NoEndpoints(t, read["Endpoints"])}}
  \cup {Fact("NamespacePVCPending", Id(v), <<>>) :
          v \in {w \in read["PersistentVolumeClaim"] : w.phase = "Pending"}}
  \cup {Fact("NamespaceWarningEvent", About(e), <<e.reason, e.name>>) : e \in warnings}

-----------------------------------------------------------------------------
\* Nodes and workloads.

\* The Ready condition is true, is not, or is missing.
getNodeStatus(n) ==
  IF "Ready" \in n.conditions THEN "Ready"
  ELSE IF "NotReady" \in n.conditions THEN "NotReady" ELSE "Unknown"

On(n, pods) == {p \in pods : p.node = n.name}

buildUnhealthyNodeInfo(n) ==
  IF getNodeStatus(n) = "Ready" THEN {} ELSE {Fact("unhealthy", Id(n), <<c>>) : c \in n.conditions}

NodeFacts(read) ==
  UNION {{Fact("node", Id(n), <<getNodeStatus(n), Cardinality(On(n, read["Pod"]))>>)}
         \cup buildUnhealthyNodeInfo(n) : n \in read["Node"]}

Pressures == {"MemoryPressure", "DiskPressure", "PIDPressure"}

inspectNodePressureOne(n, pods) ==
  LET cpu == MapThenSumSet(LAMBDA p : p.cpu, pods)
      memory == MapThenSumSet(LAMBDA p : p.memory, pods)
  IN  {Fact(c, Id(n), <<>>) : c \in n.conditions \cap Pressures}
      \cup When(n.cpu > 0 /\ (cpu * 100) \div n.cpu >= 90, Fact("NodeCPURequestsHigh", Id(n), <<cpu>>))
      \cup When(n.memory > 0 /\ (memory * 100) \div n.memory >= 90,
                Fact("NodeMemoryRequestsHigh", Id(n), <<memory>>))
      \cup {Fact("NodeAbnormalPod", Id(n), <<p.ns, p.name>>) :
              p \in {q \in pods : q.phase = "Failed" \/ q.restarts >= highRestartThreshold}}

PressureFindings(read) ==
  UNION {inspectNodePressureOne(n, On(n, read["Pod"])) : n \in read["Node"]}

Unhealthy(workloads) == {w \in workloads : w.ready < w.replicas}

WorkloadFacts(read) ==
  {Fact("replicas", Id(w), <<w.replicas, w.ready>>) :
     w \in UNION {Unhealthy(read[k]) : k \in {"Deployment", "StatefulSet", "DaemonSet"}}}
  \cup UNION {When(PodStatus(p) \notin {"Running", "Completed"}, Fact("abnormal", Id(p), <<PodStatus(p)>>))
              \cup When(p.restarts >= highRestartThreshold, Fact("restarts", Id(p), <<p.restarts>>)) :
                p \in {q \in read["Pod"] : q.phase # "Succeeded"}}

\* The parts of the score; the code takes them as floats and cuts them off.
Deduction(part, whole, weight) == IF whole = 0 THEN 0 ELSE (part * weight) \div whole

WarningDeduction(n) == IF n > 50 THEN 10 ELSE IF n > 20 THEN 5 ELSE IF n > 0 THEN 2 ELSE 0

OverviewFacts(read) ==
  LET nodes == read["Node"]
      notReady == Cardinality({n \in nodes : getNodeStatus(n) # "Ready"})
      pods == read["Pod"]
      with(status) == Cardinality({p \in pods : PodStatus(p) = status})
      abnormal == <<with("CrashLoopBackOff"), with("Failed"), with("Pending")>>
      kinds == <<"Deployment", "StatefulSet", "DaemonSet">>
      all == MapThenSumSet(LAMBDA k : Cardinality(read[k]), Range(kinds))
      unhealthy == [i \in 1 .. 3 |-> Cardinality(Unhealthy(read[kinds[i]]))]
      sum(s) == s[1] + s[2] + s[3]
      warnings == Cardinality(read["Event"])
      score == 100 - Deduction(notReady, Cardinality(nodes), 40)
                   - Deduction(sum(abnormal), Cardinality(pods), 30)
                   - Deduction(sum(unhealthy), all, 20) - WarningDeduction(warnings)
  IN  {Fact("nodes", <<>>, <<Cardinality(nodes), notReady>>),
       Fact("pods", <<>>, <<Cardinality(pods), with("Running")>> \o abnormal),
       Fact("workloads", <<>>, <<all>> \o unhealthy),
       Fact("warnings", <<>>, <<warnings>>),
       Fact("score", <<>>, <<Max({score, 0})>>)}

-----------------------------------------------------------------------------
\* Events, by reason and object.

EventKey(e) == <<e.reason, About(e)>>

Latest(group) == Max({e.last : e \in group})

\* inspect_events adds up the counts as they are.
EventFacts(events) ==
  LET groups == {{e \in events : EventKey(e) = k} : k \in {EventKey(e) : e \in events}} IN
  {Fact("warning", EventKey(CHOOSE e \in g : TRUE),
        <<MapThenSumSet(LAMBDA e : e.count, g), Latest(g)>>) : g \in groups}

normalizedEventCount(n) == IF n <= 0 THEN 1 ELSE n

\* `says` is what strings.Contains finds in the message.
classifyEventFindingType(e) ==
  CASE e.reason = "Unhealthy" -> "ProbeFailure"
    [] e.reason = "FailedScheduling" -> "ScheduleFailure"
    [] e.reason \in {"FailedMount", "FailedAttachVolume"} -> "VolumeMountFailure"
    [] e.reason \in {"BackOff", "CrashLoopBackOff"} -> "ContainerRestart"
    [] e.reason = "FailedGetScale" -> "HPATargetMissing"
    [] OTHER -> CASE e.says = "scale" -> "HPATargetMissing"
                  [] e.says = "image" -> "ImagePullFailure"
                  [] e.says = "schedule" -> "ScheduleFailure"
                  [] e.says = "mount" -> "VolumeMountFailure"
                  [] OTHER -> "EventWarning"

\* The type of a group is that of the event that comes first in the list.
RootCauses(events) ==
  LET recent == {e \in events : e.recent}
      keys == {EventKey(e) : e \in recent}
      group(k) == {e \in recent : EventKey(e) = k}
      count(g) == MapThenSumSet(LAMBDA e : normalizedEventCount(e.count), g)
  IN  {{Fact(classifyEventFindingType(first[k]), k[2], <<k[1], count(group(k)), Latest(group(k))>>) :
          k \in keys} :
         first \in {f \in [keys -> recent] : \A k \in keys : f[k] \in group(k)}}

-----------------------------------------------------------------------------
\* The reports.

Severity(req, f) ==
  IF req.tool = "inspect_event_root_causes"
  THEN IF f[1] \in {"ImagePullFailure", "ScheduleFailure", "VolumeMountFailure"}
       THEN "critical" ELSE "warning"
  ELSE IF f[1] = "NamespaceWarningEvent" THEN "info"
  ELSE IF f[1] \in Pressures \cup {"PodFailed", "CrashLoopBackOff", "ImagePullFailure", "OOMKilled"}
  THEN "critical" ELSE "warning"

SeverityOrder == [critical |-> 0, warning |-> 1, info |-> 2]

\* The types as strings are sorted.
TypeOrder == <<"PVCPending", "PVFailed", "PVReleased", "ServiceNoEndpoints",
  "ServiceNoMatchedPods", "ServiceTargetsNotReady", "StorageClassMissing",
  "TargetPortMismatch", "VolumeAttachFailure", "VolumeMountFailure">>

Place(type) == CHOOSE i \in DOMAIN TypeOrder : TypeOrder[i] = type

\* Whether f is sorted before g; what ties is in the order of hashes.
SortedBefore(req, f, g) ==
  CASE req.tool \in {"inspect_service_connectivity", "inspect_storage_diagnostics"} ->
         Place(f[1]) < Place(g[1])
    [] req.tool = "inspect_event_root_causes" ->
         \/ f[3][2] > g[3][2]
         \/ f[3][2] = g[3][2] /\ f[3][3] > g[3][3]
    [] req.tool = "inspect_events" -> f[3][2] > g[3][2]
    [] OTHER -> SeverityOrder[Severity(req, f)] < SeverityOrder[Severity(req, g)]

\* topN, or the limit of the event tools; all references are shown.
ReportLimit(req, findings) ==
  IF req.tool = "inspect_workload_references" THEN Cardinality(findings)
  ELSE IF req.limit > 0 THEN req.limit
  ELSE CASE req.tool = "inspect_events" -> 50
         [] req.tool = "inspect_event_root_causes" -> 100
         [] OTHER -> 20

Truncated(req, findings) ==
  {s \in kSubset(Min({Cardinality(findings), ReportLimit(req, findings)}), findings) :
     \A f \in s, g \in findings \ s : ~SortedBefore(req, g, f)}

\* buildDiagnosticSummary, of the findings that are shown.
Status(req, findings) ==
  LET severities == {Severity(req, f) : f \in findings} IN
  IF "critical" \in severities THEN "Critical"
  ELSE IF "warning" \in severities THEN "Warning" ELSE "Healthy"

Report(req, findings) == findings \cup {Fact("status", <<>>, <<Status(req, findings)>>)}

\* The findings before they are cut.
Findings(req, read) ==
  CASE req.tool = "inspect_service_connectivity" -> {ConnectivityFindings(read)}
    [] req.tool = "inspect_workload_references" -> {ReferenceFindings(read)}
    [] req.tool = "inspect_pod_diagnostics" -> {PodFindings(read)}
    [] req.tool = "inspect_storage_diagnostics" -> {StorageFindings(read)}
    [] req.tool = "inspect_node_pressure" -> {PressureFindings(read)}
    [] req.tool = "inspect_namespace_health" ->
         {NamespaceFindings(read, w) : w \in FirstWarnings(read["Event"])}
    [] req.tool = "inspect_event_root_causes" -> RootCauses(read["Event"])

InspectionAnswers(req, got) ==
  LET read == [kind \in AllInspectedKinds |-> Inspected(req, got, kind)] IN
  CASE req.tool = "inspect_cluster_overview" -> {OverviewFacts(read)}
    [] req.tool = "inspect_node_health" -> {NodeFacts(read)}
    [] req.tool = "inspect_workload_health" -> {WorkloadFacts(read)}
    [] req.tool = "inspect_events" ->
         {shown \cup {Fact("total", <<>>, <<Cardinality(read["Event"])>>)} :
            shown \in Truncated(req, EventFacts(read["Event"]))}
    [] OTHER -> {Report(req, shown) : shown \in UNION {Truncated(req, f) : f \in Findings(req, read)}}
=============================================================================
