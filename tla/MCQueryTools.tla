------------------------------ MODULE MCQueryTools ------------------------------
(***************************************************************************)
(* A shop whose Service `web` is reached by a NodePort and by Ingresses and *)
(* backed by a Deployment and a DaemonSet; a ward where much is wrong, for  *)
(* the inspections; and one change of one object of either.                *)
(***************************************************************************)
EXTENDS QueryTools, TLC

PartsOf == [n \in {"web", "web-1", "web-2", "conf", "key", "dns", "db", "n1", "n2"} |->
  CASE n = "web-1" -> {"web", "web-1"}
    [] n = "web-2" -> {"web", "web-2"}
    [] OTHER -> {n}]

Object(kind, ns, name, labels) == [kind |-> kind, ns |-> ns, name |-> name, labels |-> labels]

App == <<"app", "web">>
Tier == <<"tier", "front">>

Workload(kind, name, selector, replicas) ==
  Object(kind, "shop", name, {App})
    @@ [selector |-> selector, template |-> {App, Tier}, replicas |-> replicas, ready |-> 1]

Web == Object("Service", "shop", "web", {}) @@
  [nodePorts |-> {30080}, selector |-> {App}, type |-> "NodePort"]
Dns == Object("Service", "infra", "dns", {}) @@
  [nodePorts |-> {30080}, selector |-> {}, type |-> "LoadBalancer"]

Deployment == Workload("Deployment", "web", {App, Tier}, 2)
Agent == Workload("DaemonSet", "web", {App}, 1)
Db == [Workload("StatefulSet", "db", {<<"app", "db">>}, 1) EXCEPT !.template = {<<"app", "db">>, Tier}]
ReplicaSet == Object("ReplicaSet", "shop", "web", {App, Tier})
  @@ [owners |-> {<<"Deployment", "web">>}]

Slice == Object("EndpointSlice", "shop", "s", {<<"service", "web">>})
  @@ [addresses |-> {<<"ip1", TRUE>>}]
WebEndpoints == Object("Endpoints", "shop", "web", {})
  @@ [addresses |-> {<<"ip1", TRUE>>, <<"ip2", FALSE>>}]

Pod1 == Object("Pod", "shop", "web-1", {App, Tier}) @@
  [phase |-> "Running", ready |-> TRUE, waiting |-> "", deleted |-> FALSE,
   owners |-> {<<"ReplicaSet", "web">>},
   mounts |-> {<<"ConfigMap", "conf">>, <<"Secret", "key">>}]
Pod2 == [Pod1 EXCEPT !.name = "web-2", !.phase = "Pending", !.ready = FALSE,
  !.waiting = "ImagePullBackOff", !.owners = {<<"DaemonSet", "web">>}, !.mounts = {}]

\* Hosts as pieces of text: myexample.com ends with example.com and is not of
\* that domain.
Example == <<"example", ".", "com">>
MyExample == <<"my">> \o Example
Below(label, host) == <<label, ".">> \o host

Path(host, path, service) == [host |-> host, path |-> path, service |-> service]
Ingress(name, paths) == Object("Ingress", "shop", name, {App}) @@ [paths |-> paths]

Edge == Ingress("edge", {Path(Below("www", Example), <<"/a">>, "web"),
                         Path(Example, <<"/a", "/b">>, "gone")})
Wildcard == Ingress("wild", {Path(Below("*", Example), <<>>, "web")})
Static == Ingress("wild", {Path(Example, <<"/s">>, "")})

Conf == Object("ConfigMap", "shop", "conf", {})
Key == Object("Secret", "shop", "key", {App})
Nodes == {Object("Node", "", n, {}) : n \in {"n1", "n2"}}
Spaces == {Object("Namespace", "", "shop", {})}
Event == Object("Event", "shop", "web-1", {<<"involvedObject", <<"Pod", "web-1">>>>})
  @@ [about |-> <<"Pod", "web-1">>]
Metrics == {Object("PodMetrics", "shop", "web-1", {}) @@ [cpu |-> 1],
            Object("PodMetrics", "shop", "web-2", {}) @@ [cpu |-> 2],
            Object("NodeMetrics", "", "n1", {}) @@ [cpu |-> 2],
            Object("NodeMetrics", "", "n2", {}) @@ [cpu |-> 2]}

PodLog == Object("PodLog", "shop", "web-1", {})

Base == {Web, PodLog, Dns, Deployment, Agent, Db, ReplicaSet, Slice, WebEndpoints, Pod1, Pod2, Edge,
         Wildcard, Conf, Key, Event} \cup Nodes \cup Spaces \cup Metrics

Gone(o) == <<Base, Base \ {o}>>
Back(o) == <<Base \ {o}, Base>>
Becomes(o, p) == <<Base, (Base \ {o}) \cup {p}>>

Changes ==
  {<<Base, Base>>}
  \cup {Gone(o) : o \in {Web, Slice, Deployment, Pod1, PodLog, Conf, Wildcard}}
  \cup {Back(o) : o \in {Web, Slice, WebEndpoints, Agent, Pod2, Edge}}
  \cup {Becomes(Web, [Web EXCEPT !.nodePorts = {30081}]),
        Becomes(Web, [Web EXCEPT !.selector = {}]),
        Becomes(Deployment, [Deployment EXCEPT !.selector = {Tier}, !.replicas = 1]),
        Becomes(Pod1, [Pod1 EXCEPT !.labels = {App}, !.mounts = {}, !.owners = {}]),
        Becomes(Edge, [Edge EXCEPT !.paths = {Path(MyExample, <<"/a">>, "web")}]),
        Becomes(Wildcard, Static)}

Plain ==
  [tool |-> "", kind |-> "", ns |-> "", name |-> "", selector |-> {}, mode |-> "exact",
   names |-> <<>>, limit |-> 1, nodePort |-> 30080, host |-> <<>>, path |-> <<>>,
   includeEndpoints |-> FALSE, indexed |-> FALSE, blank |-> FALSE, includeIngress |-> TRUE,
   includeHPA |-> TRUE, includePDB |-> TRUE]

Ask(tool) == [Plain EXCEPT !.tool = tool]

Listings ==
  {Ask(t) : t \in ResourceTools \ {"describe_resource", "get_pod_filter", "get_resource_filter"}}
  \cup {[Ask("get_pod_logs") EXCEPT !.name = "web-1"]}
  \cup {[Ask("get_pods") EXCEPT !.ns = "shop", !.selector = {Tier}],
        [Ask("get_events") EXCEPT !.kind = "Pod", !.name = "web-1"],
        [Ask("get_services") EXCEPT !.name = "web"],
        [Ask("top_pods") EXCEPT !.limit = 2], [Ask("top_nodes") EXCEPT !.limit = 0]}
  \cup {[Ask("describe_resource") EXCEPT !.kind = k, !.name = "web"] :
          k \in {"Service", "Deployment", "Job"}}
  \cup {[Ask("get_pod_filter") EXCEPT !.name = "web", !.mode = m] : m \in {"exact", "contains"}}
  \cup {[Ask("get_resource_filter") EXCEPT !.kind = k, !.name = "web", !.mode = "contains"] :
          k \in {"Service", "Pod", "Job"}}

Lookups ==
  {[Ask(t) EXCEPT !.ns = ns, !.indexed = i, !.includeEndpoints = TRUE] :
     t \in NodePortTools, ns \in {"", "infra"}, i \in BOOLEAN}
  \cup {[Ask("find_service_by_nodeport") EXCEPT !.nodePort = p] : p \in {0, 65535, 65536}}
  \cup {Ask("get_ingresses")}
  \cup {[Ask("find_workload_by_service") EXCEPT !.name = "web", !.includeEndpoints = b] : b \in BOOLEAN}
  \cup {[Ask(t) EXCEPT !.host = h, !.path = p, !.mode = "smart"] :
          t \in HostTools, h \in {Example, MyExample, Below("www", Example)},
          p \in {<<>>, <<"/a">>}}
  \cup {[Ask("find_service_by_ingress") EXCEPT !.host = Below("www", Example), !.mode = m] :
          m \in {"exact", "prefix", "suffix", "contains", "wildcard"}}
  \cup {Ask("trace_by_host")}

Previews ==
  {[Ask("preview_delete_resources") EXCEPT !.kind = k, !.names = <<n>>] :
     k \in PreviewedKinds \cup {"Job"}, n \in {"web"}}
  \cup {[Ask("preview_delete_resources") EXCEPT !.kind = k[1], !.names = k[2], !.selector = k[3]] :
          k \in {<<"Pod", <<"web-1", "web-2">>, {}>>, <<"Pod", <<>>, {App}>>, <<"Pod", <<>>, {}>>,
                 <<"Deployment", <<>>, {App}>>, <<"Secret", <<"key">>, {}>>,
                 <<"ConfigMap", <<"conf", "conf">>, {}>>, <<"Service", <<"web", "dns">>, {}>>,
                 <<"StatefulSet", <<"db", "web">>, {}>>, <<"Job", <<>>, {App}>>}}

-----------------------------------------------------------------------------
\* The ward.

Node(name, conditions, memory) ==
  Object("Node", "", name, {}) @@ [conditions |-> conditions, cpu |-> 20, memory |-> memory]
Node1 == Node("n1", {"Ready", "DiskPressure"}, 10)
Node2 == Node("n2", {"NotReady"}, 0)

Patient(name, labels, node) ==
  Object("Pod", "ward", name, labels) @@
  [phase |-> "Running", ready |-> FALSE, waiting |-> "", terminated |-> "", deleted |-> FALSE,
   restarts |-> 0, node |-> node, ports |-> {8080}, cpu |-> 9, memory |-> 1]
Well == [Patient("well", {App}, "n1") EXCEPT !.ready = TRUE]
Crashing == [Patient("crashing", {Tier}, "n1") EXCEPT !.waiting = "CrashLoopBackOff", !.restarts = 12]
Stuck == [Patient("stuck", {}, "") EXCEPT !.phase = "Pending"]
Dead == [Patient("dead", {}, "n2") EXCEPT !.phase = "Failed", !.terminated = "OOMKilled"]

Svc(name, type, selector, ports) ==
  Object("Service", "ward", name, {}) @@ [type |-> type, selector |-> selector, ports |-> ports]
Desk == Svc("front", "ClusterIP", {App}, {<<80, 8080>>, <<81, 0>>})
Nobody == Svc("nobody", "ClusterIP", {<<"app", "none">>}, {})
Crashed == Svc("crashed", "ClusterIP", {Tier}, {<<80, 8080>>})
Outside == Svc("outside", "ExternalName", {App}, {})
DeskEndpoints == Object("Endpoints", "ward", "front", {}) @@ [addresses |-> {<<"ip1", TRUE>>}]
CrashedEndpoints == Object("Endpoints", "ward", "crashed", {}) @@ [addresses |-> {<<"ip2", FALSE>>}]

Run(kind, name, replicas, ready) ==
  Object(kind, "ward", name, {}) @@ [replicas |-> replicas, ready |-> ready]
DeskRun == Run("Deployment", "front", 1, 1)
Store == Run("StatefulSet", "store", 2, 1) @@ [serviceName |-> "store-headless"]
Watch == Run("DaemonSet", "watch", 1, 1)
OldDesk == Object("ReplicaSet", "ward", "front-old", {})

Gate == Object("Ingress", "ward", "gate", {}) @@
  [paths |-> {[service |-> "front", port |-> 80], [service |-> "front", port |-> 443],
              [service |-> "", port |-> 0]},
   default |-> {[service |-> "gone", port |-> 80]}]

Scaler(name, target) == Object("HorizontalPodAutoscaler", "ward", name, {}) @@ [target |-> target]
Budget(name, form, selector) ==
  Object("PodDisruptionBudget", "ward", name, {}) @@ [form |-> form, selector |-> selector]

Claim == Object("PersistentVolumeClaim", "ward", "claim", {}) @@
  [phase |-> "Pending", storageClass |-> "fast"]
Volume == Object("PersistentVolume", "", "volume", {}) @@ [phase |-> "Released"]
Slow == Object("StorageClass", "", "slow", {})

Regarding(pod) == <<"involvedObject", <<"Pod", pod>>>>

Warning(name, reason, says, pod, count) ==
  Object("Event", "ward", name, {<<"type", "Warning">>, Regarding(pod)}) @@
  [reason |-> reason, says |-> says, about |-> <<"Pod", pod>>, count |-> count, last |-> count,
   recent |-> TRUE]
Unscheduled == Warning("e1", "FailedScheduling", "", "stuck", 0)
Unmounted == Warning("e2", "FailedMount", "", "crashing", 3)
Remounted == Warning("e7", "FailedMount", "mount", "crashing", 1)
Pulled == Warning("e3", "Failed", "image", "dead", 2)
Failed == [Pulled EXCEPT !.name = "e4", !.says = ""]
Long == [Warning("e5", "BackOff", "", "crashing", 9) EXCEPT !.recent = FALSE]
Calm == [Warning("e6", "Scheduled", "", "well", 1) EXCEPT !.labels = {Regarding("well")}]

Healthy == {Node1, Well, Desk, DeskEndpoints, DeskRun, Watch, OldDesk, Slow, Volume}

Ward == Healthy \cup {Node2, Crashing, Stuck, Dead, Nobody, Crashed, Outside, CrashedEndpoints,
  Store, Gate, Scaler("h1", <<"deployments", "front">>), Scaler("h2", <<"Rollout", "front">>),
  Budget("b1", "labels", {App}), Budget("b2", "labels", {<<"app", "none">>}),
  Budget("b3", "none", {}), Budget("b4", "invalid", {}), Claim, Unscheduled, Unmounted,
  Remounted, Pulled, Failed, Calm}

\* More warnings than a report of a namespace shows.
Noisy == Healthy \cup {[Warning(ToString(i), "Failed", "image", ToString(i), 2) EXCEPT !.last = i] : i \in 1 .. 6}

WardChanges ==
  {<<Ward, Ward>>, <<Noisy, Noisy>>, <<Healthy, Healthy>>}
  \cup {<<Ward, Ward \ {o}>> : o \in {Node2, Well, Desk, DeskEndpoints, DeskRun, Slow, Unscheduled}}
  \cup {<<Ward \ {o}, Ward>> : o \in {Dead, Stuck, Failed, CrashedEndpoints}}
  \cup {<<Ward, (Ward \ {o[1]}) \cup {o[2]}>> : o \in
          {<<Crashing, [Crashing EXCEPT !.ready = TRUE, !.waiting = ""]>>,
           <<Well, [Well EXCEPT !.labels = {}, !.ports = {}]>>,
           <<Desk, [Desk EXCEPT !.ports = {<<443, 8080>>}]>>,
           <<Node1, [Node1 EXCEPT !.conditions = {}]>>,
           <<Store, [Store EXCEPT !.serviceName = "front", !.ready = 2]>>,
           <<Claim, [Claim EXCEPT !.phase = "Bound", !.storageClass = "slow"]>>,
           <<Volume, [Volume EXCEPT !.phase = "Failed"]>>,
           <<Unmounted, [Unmounted EXCEPT !.count = 4, !.last = 4]>>}}

Inspect(tool) == [Ask(tool) EXCEPT !.ns = "ward", !.limit = 0]

Examinations ==
  {Inspect(t) : t \in InspectionTools}
  \cup {[Inspect(t) EXCEPT !.limit = 2] :
          t \in {"inspect_events", "inspect_event_root_causes", "inspect_pod_diagnostics",
                 "inspect_service_connectivity", "inspect_storage_diagnostics",
                 "inspect_node_pressure", "inspect_namespace_health"}}
  \cup {[Inspect(t) EXCEPT !.blank = TRUE] : t \in NamespaceTools}
  \cup {[Inspect("inspect_pod_diagnostics") EXCEPT !.name = "stuck"],
        [Inspect("inspect_pod_diagnostics") EXCEPT !.selector = {Tier}],
        [Inspect("inspect_service_connectivity") EXCEPT !.name = "front"],
        [Inspect("inspect_service_connectivity") EXCEPT !.name = "front", !.blank = TRUE],
        [Inspect("inspect_node_pressure") EXCEPT !.name = "n2"],
        [Inspect("inspect_workload_health") EXCEPT !.ns = ""],
        [Inspect("inspect_workload_references") EXCEPT !.ns = "", !.includeHPA = FALSE],
        [Inspect("inspect_workload_references") EXCEPT !.includeIngress = FALSE, !.includePDB = FALSE]}

-----------------------------------------------------------------------------
\* An index that has all there is, one that is behind the making of a Service,
\* one behind a change of it, and one with a Service deleted long ago.
Old == [Web EXCEPT !.name = "old", !.selector = {Tier}]
Indexes == {{Web, Dns}, {Dns}, {[Web EXCEPT !.nodePorts = {30081}], Dns}, {Old, Web, Dns}}

Scene(r, i, c) == [request |-> r, index |-> i, before |-> c[1], after |-> c[2]]

AllScenes ==
  {Scene(r, {}, c) : r \in {q \in Listings \cup Lookups \cup Previews : ~q.indexed}, c \in Changes}
  \cup {Scene(r, i, c) : r \in {q \in Lookups : q.indexed}, i \in Indexes, c \in Changes}
  \cup {Scene(r, {}, c) : r \in Examinations, c \in WardChanges}
=============================================================================
