------------------------------ MODULE QueryFacts ------------------------------
(***************************************************************************)
(* What the answers are about, said of a cluster as it is at one instant:  *)
(* Wanted(req, c) is what a call that asks for req should tell of cluster  *)
(* c, May(req, c) what it may tell.  The steps of the handlers are not     *)
(* followed: relations are joins of the objects.  Where the code takes a   *)
(* likeness for the thing itself (a selector for the Pods of a workload or *)
(* for what it owns), Wanted is the less and May the more of the two.  The *)
(* names it gives to things (the status of a Pod, the type of an event,    *)
(* how bad a finding is) are taken as they are.                            *)
(***************************************************************************)
EXTENDS Inspections

Of(c, kind) == {o \in c : o.kind = kind}

-----------------------------------------------------------------------------
\* The tools that show objects of one kind.

ShownKind(req) ==
  CASE req.tool = "get_pods" -> "Pod"
    [] req.tool = "get_deployments" -> "Deployment"
    [] req.tool = "get_statefulsets" -> "StatefulSet"
    [] req.tool = "get_daemonsets" -> "DaemonSet"
    [] req.tool = "get_services" -> "Service"
    [] req.tool = "get_configmaps" -> "ConfigMap"
    [] req.tool = "get_secrets" -> "Secret"
    [] req.tool = "get_nodes" -> "Node"
    [] req.tool = "get_namespaces" -> "Namespace"
    [] req.tool = "get_events" -> "Event"
    [] req.tool = "top_pods" -> "PodMetrics"
    [] req.tool = "top_nodes" -> "NodeMetrics"
    [] req.tool = "get_pod_filter" -> "Pod"
    [] req.tool = "get_pod_logs" -> "PodLog"
    [] OTHER -> req.kind

HasNamespace(kind) == kind \notin {"Node", "Namespace", "NodeMetrics"}

InScope(req, o) ==
  \/ ~HasNamespace(o.kind)
  \/ req.tool \in {"get_pod_filter", "get_resource_filter"}
  \/ IF req.tool \in {"get_events", "top_pods", "describe_resource", "get_pod_logs"}
     THEN o.ns = Defaulted(req) ELSE req.ns \in {"", o.ns}

Described(req, o) ==
  /\ req.tool \in {"get_nodes", "get_namespaces", "get_events"} \/ req.name = ""
       \/ IF req.mode = "exact" THEN o.name = req.name ELSE req.name \in Parts[o.name]
  /\ (req.tool = "get_events" /\ req.kind # "" /\ req.name # "") => o.about = <<req.kind, req.name>>
  /\ req.selector \subseteq o.labels

ObjectsWanted(req, c) == {o \in Of(c, ShownKind(req)) : InScope(req, o) /\ Described(req, o)}

-----------------------------------------------------------------------------
\* The tracing tools.

\* What follows the dot at place k of host h is the domain d.
DomainAt(h, k, d) == h[k] = "." /\ SubSeq(h, k + 1, Len(h)) = d
Within(h, d) == \E k \in DOMAIN h : DomainAt(h, k, d)

\* No host is every host, and a host is itself.  Apart from these a part of the
\* text is meant, or what has labels in the place of the wildcard, or (any other
\* mode) one domain within the other.
HostMeets(pattern, host, mode) ==
  \/ pattern \in {<<>>, host}
  \/ CASE mode = "exact" -> FALSE
       [] mode = "prefix" -> \E k \in 1 .. Len(host) : SubSeq(host, 1, k) = pattern
       [] mode = "suffix" -> \E k \in 1 .. Len(host) : SubSeq(host, k, Len(host)) = pattern
       [] mode = "contains" ->
            \E j, k \in 1 .. Len(host) : j <= k /\ SubSeq(host, j, k) = pattern
       [] OTHER ->
            IF Wild(pattern)
            THEN \E k \in 2 .. Len(host) : DomainAt(host, k, SubSeq(pattern, 3, Len(pattern)))
            ELSE mode # "wildcard" /\ (Within(host, pattern) \/ Within(pattern, host))

PathsWanted(req, i) ==
  IF req.tool = "get_ingresses" THEN i.paths
  ELSE {p \in i.paths : /\ HostMeets(p.host, req.host, req.mode)
                        /\ \E k \in 0 .. Len(p.path) : req.path = SubSeq(p.path, 1, k)
                        /\ p.service # ""}

IngressesWanted(req, c) ==
  {i \in Of(c, "Ingress") :
     /\ i.ns = Defaulted(req)
     /\ req.tool = "get_ingresses" => req.name \in {"", i.name} /\ req.selector \subseteq i.labels}

ServicesWanted(req, c) ==
  {s \in Of(c, "Service") :
     CASE req.tool \in NodePortTools -> req.ns \in {"", s.ns} /\ req.nodePort \in s.nodePorts
       [] req.tool \in HostTools ->
            \E i \in IngressesWanted(req, c) :
              i.ns = s.ns /\ \E p \in PathsWanted(req, i) : p.service = s.name
       [] req.tool = "find_workload_by_service" -> s.ns = Defaulted(req) /\ s.name = req.name
       [] OTHER -> FALSE}

Serves(e, s) ==
  /\ e.ns = s.ns
  /\ \/ e.kind = "EndpointSlice" /\ <<"service", s.name>> \in e.labels
     \/ e.kind = "Endpoints" /\ e.name = s.name

\* Slices go before Endpoints.
Endpoints(c, s) ==
  LET slices == {e \in Of(c, "EndpointSlice") : Serves(e, s)}
  IN  IF slices # {} THEN slices ELSE {e \in Of(c, "Endpoints") : Serves(e, s)}

\* The Service selects Pods with these labels of the workload.
Backs(w, s, labels) ==
  /\ w.ns = s.ns /\ w.kind \in {"Deployment", "StatefulSet", "DaemonSet"}
  /\ s.selector # {} /\ \A l \in s.selector : l \in labels

TraceOf(req, c, endpoints(_), labels(_)) ==
  (UNION {{Fact("route", Id(i), <<p.host, p.path, p.service>>) : p \in PathsWanted(req, i)} :
            i \in IF req.tool \in {"get_ingresses", "trace_by_host"}
                  THEN IngressesWanted(req, c) ELSE {}})
  \cup (UNION {{Fact("service", Id(s), <<s.nodePorts>>)}
               \cup (IF WantsEndpoints(req)
                     THEN UNION {{Fact("endpoint", Id(s), a) : a \in e.addresses} : e \in endpoints(s)}
                     ELSE {})
               \cup (IF WantsWorkloads(req)
                     THEN {Fact("workload", Id(s), <<Id(w), w.replicas>>) : w \in {v \in c : Backs(v, s, labels(v))}}
                     ELSE {}) :
                 s \in ServicesWanted(req, c)})

\* A workload is wanted when its selector alone gives Pods the labels the
\* Service selects.  It may be told when its Pods have them; the handlers never
\* look at the labels of the template that the selector does not ask for, and
\* miss the workloads that back a Service by these (query_reverse.go:841-852).
TraceWanted(req, c) ==
  TraceOf(req, c, LAMBDA s : Endpoints(c, s), LAMBDA w : w.selector)
TraceMay(req, c) ==
  TraceOf(req, c, LAMBDA s : {e \in c : Serves(e, s)}, LAMBDA w : w.template)

-----------------------------------------------------------------------------
\* The preview of a deletion: <<type, id of the resource, what goes with it>>.

\* What the garbage collector deletes after an object: what it owns, and what
\* that owns.
OwnedBy(c, o) == {p \in c : p.kind \in {"Pod", "ReplicaSet"} /\ p.ns = o.ns /\ <<o.kind, o.name>> \in p.owners}
Collected(c, o) == OwnedBy(c, o) \cup UNION {OwnedBy(c, p) : p \in OwnedBy(c, o)}

\* What the selector of a workload covers: also Pods of another owner, which the
\* deletion leaves alone though the preview names them (delete_preview.go:198-217).
Alike(c, o) ==
  {p \in c : /\ p.ns = o.ns /\ o.selector \subseteq p.labels
             /\ p.kind = "Pod" \/ (p.kind = "ReplicaSet" /\ o.kind = "Deployment")}

\* The rest is not deleted with the object but goes without it from then on.
ImpactOf(req, c, o, taken(_)) ==
  CASE req.kind \in {"Deployment", "StatefulSet", "DaemonSet"} ->
         {Fact(m.kind, Id(o), <<m.name>>) : m \in taken(o)}
    [] req.kind = "Service" ->
         {Fact("Ingress", Id(o), <<i.name>>) :
            i \in {j \in Of(c, "Ingress") : j.ns = o.ns /\ \E p \in j.paths : p.service = o.name}}
         \cup UNION {{Fact("Endpoint", Id(o), <<a>>) : a \in {b \in e.addresses : b[2]}} :
                       e \in {f \in Of(c, "Endpoints") : Id(f) = <<"Endpoints", o.ns, o.name>>}}
    [] req.kind \in {"ConfigMap", "Secret"} ->
         {Fact("Pod", Id(o), <<p.name>>) :
            p \in {q \in Of(c, "Pod") : q.ns = o.ns /\ <<o.kind, o.name>> \in q.mounts}}
    [] OTHER -> {}

ImpactMay(req, c) ==
  UNION {ImpactOf(req, c, o, LAMBDA w : Alike(c, w)) : o \in {p \in Of(c, req.kind) : p.ns = Defaulted(req)}}

ImpactWanted(req, c) ==
  UNION {ImpactOf(req, c, o, LAMBDA w : Collected(c, w)) :
           o \in {p \in Of(c, req.kind) :
                    /\ p.ns = Defaulted(req)
                    /\ IF req.names # <<>> THEN p.name \in Range(req.names)
                       ELSE req.selector \subseteq p.labels}}

-----------------------------------------------------------------------------
\* The inspections.

Visible(req, o) ==
  \/ o.kind \in ClusterKinds \/ req.tool \in ClusterTools
  \/ IF req.tool \in NamespaceTools THEN req.blank \/ o.ns = Defaulted(req) ELSE req.ns \in {"", o.ns}

\* What an inspection is about: one object of a kind if it is named, else all.
Subject(req, c, kind) ==
  {o \in Of(c, kind) : /\ Visible(req, o)
                       /\ kind = NamedKind(req) => req.name \in {"", o.name}}

Exists(c, kind, ns, name) == \E o \in c : Id(o) = <<kind, ns, name>>
Covered(c, ns, selector) == {p \in Of(c, "Pod") : p.ns = ns /\ \A l \in selector : l \in p.labels}
Served(c, s) ==
  \E e \in Of(c, "Endpoints") : Serves(e, s) /\ {a \in e.addresses : a[2]} # {}

Target(port) == IF port[2] # 0 THEN port[2] ELSE port[1]

ServiceTroubles(req, c) ==
  LET backed == {s \in Subject(req, c, "Service") : s.type # "ExternalName" /\ s.selector # {}}
      pods(s) == Covered(c, s.ns, s.selector)
      follow == req.tool = "inspect_service_connectivity"
  IN  {Fact("ServiceNoMatchedPods", Id(s), <<>>) : s \in {t \in backed : pods(t) = {}}}
      \cup {Fact("ServiceNoEndpoints", Id(s), <<>>) :
              s \in {t \in backed : ~Served(c, t) /\ (follow => pods(t) # {})}}
      \cup IF ~follow THEN {}
           ELSE {Fact("ServiceTargetsNotReady", Id(s), <<>>) :
                   s \in {t \in backed : pods(t) # {} /\ ~\E p \in pods(t) : p.ready}}
                \cup UNION {{Fact("TargetPortMismatch", Id(s), <<q>>) :
                               q \in {r \in s.ports : ~\E p \in pods(s) : Target(r) \in p.ports}} :
                              s \in {t \in backed : pods(t) # {}}}

DanglingReferences(req, c) ==
  {Fact("MissingService", Id(w), <<w.serviceName>>) :
     w \in {v \in Subject(req, c, "StatefulSet") :
              v.serviceName # "" /\ ~Exists(c, "Service", v.ns, v.serviceName)}}
  \cup UNION {UNION {
         When(~Exists(c, "Service", i.ns, b.service), Fact("MissingService", Id(i), <<b.service>>))
         \cup {Fact("IngressBackendPortMissing", Id(i), <<b.service, b.port>>) :
                 s \in {t \in Of(c, "Service") : /\ t.ns = i.ns /\ t.name = b.service
                                                 /\ b.port \notin {q[1] : q \in t.ports}}} :
         b \in {p \in i.paths \cup i.default : p.service # ""}} :
       i \in IF req.includeIngress THEN Subject(req, c, "Ingress") ELSE {}}
  \cup {Fact("HPATargetMissing", Id(h), <<normalizeWorkloadKind(h.target[1]), h.target[2]>>) :
          h \in {g \in Subject(req, c, "HorizontalPodAutoscaler") :
                   /\ req.includeHPA
                   /\ ~\E k \in {"Deployment", "StatefulSet", "ReplicaSet", "DaemonSet"} :
                        normalizeWorkloadKind(g.target[1]) = k /\ Exists(c, k, g.ns, g.target[2])}}
  \cup {Fact(IF b.form = "invalid" THEN "PDBSelectorInvalid" ELSE "PDBNoMatchedPods", Id(b), <<>>) :
          b \in {d \in Subject(req, c, "PodDisruptionBudget") :
                   /\ req.includePDB
                   /\ d.form = "invalid" \/ (d.form = "labels" /\ Covered(c, d.ns, d.selector) = {})}}

\* Events of an object that give the reason.
Because(c, o, reason) ==
  \E e \in Of(c, "Event") : e.ns = o.ns /\ e.about = <<o.kind, o.name>> /\ e.reason = reason

PodTroubles(req, c, pending(_)) ==
  UNION {{f \in {Fact(pending(p), Id(p), <<p.node>>), Fact("PodFailed", Id(p), <<>>),
                 Fact(classifyContainerWaitingFinding(p.waiting), Id(p), <<p.waiting>>),
                 Fact("OOMKilled", Id(p), <<p.terminated>>),
                 Fact("ContainerTerminated", Id(p), <<p.terminated>>),
                 Fact("HighRestart", Id(p), <<p.restarts>>)} :
            CASE f[1] \in {"PodPending", "ScheduleFailure"} -> p.phase = "Pending"
              [] f[1] = "PodFailed" -> p.phase = "Failed"
              [] f[1] = "OOMKilled" -> p.terminated = "OOMKilled"
              [] f[1] = "ContainerTerminated" -> p.terminated \notin {"", "OOMKilled"}
              [] f[1] = "HighRestart" -> p.restarts >= 10
              [] OTHER -> p.waiting # ""} :
          p \in {q \in Subject(req, c, "Pod") : req.name # "" \/ req.selector \subseteq q.labels}}

StorageTroubles(req, c) ==
  {Fact("PVCPending", Id(v), <<>>) :
     v \in {w \in Subject(req, c, "PersistentVolumeClaim") : w.phase = "Pending"}}
  \cup {Fact("StorageClassMissing", Id(v), <<v.storageClass>>) :
          v \in {w \in Subject(req, c, "PersistentVolumeClaim") :
                   w.storageClass # "" /\ ~Exists(c, "StorageClass", "", w.storageClass)}}
  \cup {Fact(IF v.phase = "Failed" THEN "PVFailed" ELSE "PVReleased", Id(v), <<>>) :
          v \in {w \in Of(c, "PersistentVolume") : w.phase \in {"Failed", "Released"}}}
  \cup {Fact(IF e.reason = "FailedMount" THEN "VolumeMountFailure" ELSE "VolumeAttachFailure",
             About(e), <<e.name>>) :
          e \in {d \in Subject(req, c, "Event") : d.reason \in {"FailedMount", "FailedAttachVolume"}}}

WarningsOf(req, c) == {e \in Subject(req, c, "Event") : IsWarning(e)}

NamespaceTroubles(req, c) ==
  {Fact("NamespaceAbnormalPod", Id(p), <<PodStatus(p)>>) :
     p \in Subject(req, c, "Pod") \ {q \in c : q.kind = "Pod" /\ q.phase \in {"Running", "Succeeded"}}}
  \cup {Fact("NamespaceServiceNoEndpoints", Id(s), <<>>) :
          s \in {t \in Subject(req, c, "Service") :
                   t.type # "ExternalName" /\ t.selector # {} /\ ~Served(c, t)}}
  \cup {Fact("NamespacePVCPending", Id(v), <<>>) :
          v \in {w \in Subject(req, c, "PersistentVolumeClaim") : w.phase = "Pending"}}

WarningNotes(req, c) ==
  {Fact("NamespaceWarningEvent", About(e), <<e.reason, e.name>>) : e \in WarningsOf(req, c)}

Hosted(c, n) == {p \in Of(c, "Pod") : p.node = n.name}

NodeTroubles(req, c) ==
  UNION {{Fact(x, Id(n), <<>>) : x \in Pressures \cap n.conditions}
         \cup {Fact("NodeCPURequestsHigh", Id(n), <<t>>) :
                 t \in {u \in {MapThenSumSet(LAMBDA p : p.cpu, Hosted(c, n))} :
                          n.cpu > 0 /\ 10 * u >= 9 * n.cpu}}
         \cup {Fact("NodeMemoryRequestsHigh", Id(n), <<t>>) :
                 t \in {u \in {MapThenSumSet(LAMBDA p : p.memory, Hosted(c, n))} :
                          n.memory > 0 /\ 10 * u >= 9 * n.memory}}
         \cup {Fact("NodeAbnormalPod", Id(n), <<p.ns, p.name>>) :
                 p \in {q \in Hosted(c, n) : q.phase = "Failed" \/ q.restarts >= 10}} :
          n \in Subject(req, c, "Node")}

\* Recent warnings by reason and object: what they may be put down to.
Causes(req, c) ==
  LET recent == {e \in WarningsOf(req, c) : e.recent}
      alike(e) == {d \in recent : d.reason = e.reason /\ d.about = e.about /\ d.ns = e.ns}
  IN  UNION {{Fact(classifyEventFindingType(d), About(e),
                   <<e.reason,
                     MapThenSumSet(LAMBDA x : IF x.count > 0 THEN x.count ELSE 1, alike(e)),
                     Max({x.last : x \in alike(e)})>>) : d \in alike(e)} : e \in recent}

\* What an event tool can put down to one thing only.
Certain(facts) == {f \in facts : \A g \in facts : g[2] = f[2] /\ g[3] = f[3] => g = f}

\* Every finding that is so of the cluster.
Troubles(req, c) ==
  CASE req.tool = "inspect_service_connectivity" -> ServiceTroubles(req, c)
    [] req.tool = "inspect_workload_references" -> ServiceTroubles(req, c) \cup DanglingReferences(req, c)
    [] req.tool = "inspect_pod_diagnostics" ->
         PodTroubles(req, c, LAMBDA p : IF ~req.blank /\ Because(c, p, "FailedScheduling")
                                        THEN "ScheduleFailure" ELSE "PodPending")
    [] req.tool = "inspect_storage_diagnostics" -> StorageTroubles(req, c)
    [] req.tool = "inspect_node_pressure" -> NodeTroubles(req, c)
    [] req.tool = "inspect_namespace_health" ->
         NamespaceTroubles(req, c)
         \cup IF Cardinality(WarningsOf(req, c)) <= 5 THEN WarningNotes(req, c) ELSE {}
    [] req.tool = "inspect_event_root_causes" -> Causes(req, c)

\* A finding a report may have without knowing all: a Pod is pending whether or
\* not the reason is known.
TroublesMay(req, c) ==
  Troubles(req, c)
  \cup CASE req.tool = "inspect_pod_diagnostics" -> PodTroubles(req, c, LAMBDA p : "PodPending")
         [] req.tool = "inspect_namespace_health" -> WarningNotes(req, c)
         [] OTHER -> {}

Statuses == <<"Healthy", "Warning", "Critical">>

StatusFact(status) == Fact("status", <<>>, <<status>>)

\* A report that is cut off still shows a finding to which too few others are
\* preferred, and so the worst of them; a report of root causes prefers what
\* happened often to what is bad.
InspectionWanted(req, c) ==
  LET all == Troubles(req, c)
      limit == ReportLimit(req, all)
      certain == IF req.tool = "inspect_event_root_causes" THEN Certain(all) ELSE all
      worst == Status(req, all)
  IN  {f \in certain : Cardinality({g \in all : ~SortedBefore(req, f, g)}) <= limit}
      \cup When(req.tool # "inspect_event_root_causes" \/ (Cardinality(all) <= limit /\ certain = all),
                StatusFact(worst))

InspectionMay(req, c) ==
  TroublesMay(req, c)
  \cup {StatusFact(Statuses[i]) :
          i \in {j \in 1 .. 3 : \A k \in 1 .. 3 : Statuses[k] = Status(req, Troubles(req, c)) => j <= k}}

-----------------------------------------------------------------------------
\* The inspections that give an account and no findings.

Short(c, kind) == {w \in Of(c, kind) : ~(w.ready >= w.replicas)}

WorkloadAccount(req, c) ==
  UNION {{Fact("replicas", Id(w), <<w.replicas, w.ready>>) : w \in Short(c, k) \cap Subject(req, c, k)} :
           k \in {"Deployment", "StatefulSet", "DaemonSet"}}
  \cup UNION {{f \in {Fact("abnormal", Id(p), <<PodStatus(p)>>), Fact("restarts", Id(p), <<p.restarts>>)} :
                 IF f[1] = "abnormal" THEN p.deleted \/ (~p.ready /\ PodStatus(p) # "Running")
                 ELSE p.restarts >= 10} :
                p \in {q \in Subject(req, c, "Pod") : q.phase # "Succeeded"}}

NodeAccount(c) ==
  UNION {{Fact("node", Id(n), <<getNodeStatus(n), Cardinality(Hosted(c, n))>>)}
         \cup {Fact("unhealthy", Id(n), <<x>>) :
                 x \in {y \in n.conditions : "Ready" \notin n.conditions}} : n \in Of(c, "Node")}

EventAccount(req, c) ==
  LET alike(e) == {d \in WarningsOf(req, c) : d.reason = e.reason /\ d.about = e.about /\ d.ns = e.ns} IN
  {Fact("warning", <<e.reason, About(e)>>,
        <<MapThenSumSet(LAMBDA x : x.count, alike(e)), Max({x.last : x \in alike(e)})>>) :
     e \in WarningsOf(req, c)}

\* The numbers of the overview, without the score.
OverviewAccount(req, c) ==
  LET pods == Of(c, "Pod")
      kinds == <<"Deployment", "StatefulSet", "DaemonSet">>
      called(status) == Quantify(pods, LAMBDA p : PodStatus(p) = status)
  IN  {Fact("nodes", <<>>, <<Cardinality(Of(c, "Node")),
                             Quantify(Of(c, "Node"), LAMBDA n : "Ready" \notin n.conditions)>>),
       Fact("pods", <<>>, <<Cardinality(pods), called("Running"), called("CrashLoopBackOff"),
                            called("Failed"), called("Pending")>>),
       Fact("workloads", <<>>, <<Cardinality({w \in c : w.kind \in Range(kinds)})>>
                               \o [i \in 1 .. 3 |-> Cardinality(Short(c, kinds[i]))]),
       Fact("warnings", <<>>, <<Cardinality(WarningsOf(req, c))>>)}

\* A cluster without a fault has the score 100, one with a warning has not, and
\* without a node that is ready it is 60 at most.
ScoresMay(req, c) ==
  {Fact("score", <<>>, <<n>>) :
     n \in {m \in 0 .. 100 :
              /\ WarningsOf(req, c) # {} => m <= 98
              /\ Of(c, "Node") # {} /\ (\A n \in Of(c, "Node") : "Ready" \notin n.conditions) => m <= 60
              /\ (/\ WarningsOf(req, c) = {}
                  /\ \A n \in Of(c, "Node") : "Ready" \in n.conditions
                  /\ \A p \in Of(c, "Pod") : PodStatus(p) = "Running"
                  /\ \A k \in {"Deployment", "StatefulSet", "DaemonSet"} : Short(c, k) = {}) => m = 100}}

Account(req, c) ==
  CASE req.tool = "inspect_cluster_overview" -> OverviewAccount(req, c)
    [] req.tool = "inspect_node_health" -> NodeAccount(c)
    [] req.tool = "inspect_workload_health" -> WorkloadAccount(req, c)
    [] req.tool = "inspect_events" ->
         EventAccount(req, c) \cup {Fact("total", <<>>, <<Cardinality(WarningsOf(req, c))>>)}

Accounts == {"inspect_cluster_overview", "inspect_node_health", "inspect_workload_health",
  "inspect_events"}

AccountWanted(req, c) ==
  IF req.tool # "inspect_events" THEN Account(req, c)
  ELSE LET all == EventAccount(req, c) IN
       (Account(req, c) \ all)
       \cup {f \in all : Cardinality({g \in all : g[3][2] >= f[3][2]}) <= ReportLimit(req, all)}

AccountMay(req, c) ==
  Account(req, c) \cup IF req.tool = "inspect_cluster_overview" THEN ScoresMay(req, c) ELSE {}

-----------------------------------------------------------------------------
Wanted(req, c) ==
  CASE req.tool \in ResourceTools -> UNION {Told(o) : o \in ObjectsWanted(req, c)}
    [] req.tool \in TracingTools -> TraceWanted(req, c)
    [] req.tool = "preview_delete_resources" -> ImpactWanted(req, c)
    [] req.tool \in Accounts -> AccountWanted(req, c)
    [] req.tool \in InspectionTools \ Accounts -> InspectionWanted(req, c)

May(req, c) ==
  CASE req.tool \in TracingTools -> TraceMay(req, c)
    [] req.tool = "preview_delete_resources" -> ImpactMay(req, c)
    [] req.tool \in Accounts -> AccountMay(req, c)
    [] req.tool \in InspectionTools \ Accounts -> InspectionMay(req, c)
    [] OTHER -> Wanted(req, c)

\* The most used only are shown of these.
Cut(req, c) ==
  req.tool \in {"top_pods", "top_nodes"} /\ Cardinality(ObjectsWanted(req, c)) > Limit(req)
=============================================================================
