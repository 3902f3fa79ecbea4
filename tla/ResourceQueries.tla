---------------------------- MODULE ResourceQueries ----------------------------
(***************************************************************************)
(* The tools that show objects of one kind (internal/tools: query_workload,*)
(* query_network, query_config, query_cluster, query_events, describe,     *)
(* query_top_metrics, query_pod_filter and query_get_filter): each makes   *)
(* one read and tells what it found.                                       *)
(***************************************************************************)
EXTENDS ClusterReads

CONSTANTS
  ContextNamespace,  \* the namespace the context stands for
  Parts              \* name |-> what strings.Contains finds in it

\* getContextAndNamespace; only some tools use what it fills in.
Defaulted(req) == IF req.ns = "" THEN ContextNamespace ELSE req.ns

\* The listing tools: every namespace unless one is given.
Listed(kind, req) == Request("list", kind, req.ns, req.name, req.selector, <<>>)

GetPods(req) == Listed("Pod", req)
GetDeployments(req) == Listed("Deployment", req)
GetStatefulSets(req) == Listed("StatefulSet", req)
GetDaemonSets(req) == Listed("DaemonSet", req)
GetServices(req) == Listed("Service", req)
GetConfigMaps(req) == Listed("ConfigMap", req)
GetSecrets(req) == Listed("Secret", req)

\* Nodes and Namespaces have no namespace, and no name is asked for.
GetNodes(req) == Request("list", "Node", "", "", req.selector, <<>>)
GetNamespaces(req) == Request("list", "Namespace", "", "", req.selector, <<>>)

\* Events of the context's namespace; the object counts only with its kind.
GetEvents(req) ==
  Request("list", "Event", Defaulted(req), "",
    req.selector \cup IF req.kind # "" /\ req.name # ""
                      THEN {<<"involvedObject", <<req.kind, req.name>>>>} ELSE {}, <<>>)

\* The metrics API; it sends what it has of every Pod or Node.
TopPods(req) == List("PodMetrics", Defaulted(req))
TopNodes(req) == List("NodeMetrics", "")

DescribedKinds == {"Pod", "Deployment", "Service", "ConfigMap", "Secret", "Node",
  "Namespace", "StatefulSet", "DaemonSet"}

\* DescribeResource: one Get, in the context's namespace where there is one.
DescribeResource(req) ==
  Get(req.kind, IF req.kind \in {"Node", "Namespace"} THEN "" ELSE Defaulted(req), req.name)

\* GetPodLogs: the log of one Pod, streamed and read to its end.
GetPodLogs(req) == Get("PodLog", IF Defaulted(req) = "" THEN "default" ELSE Defaulted(req), req.name)

FilteredKinds == {"Pod", "Deployment", "Service", "StatefulSet", "DaemonSet",
  "ConfigMap", "Secret"}

\* GetResourceFilter and GetPodFilter: over all namespaces; the API server
\* filters by name only for an exact match.
GetResourceFilter(req) ==
  Request("list", req.kind, "", IF req.mode = "exact" THEN req.name ELSE "", {}, <<>>)
GetPodFilter(req) ==
  Request("list", "Pod", "", IF req.mode = "exact" THEN req.name ELSE "", {}, <<>>)

NameMatches(req, o) ==
  IF req.mode = "exact" THEN o.name = req.name ELSE req.name \in Parts[o.name]

ResourceRead(req) ==
  CASE req.tool = "get_pods" -> GetPods(req)
    [] req.tool = "get_deployments" -> GetDeployments(req)
    [] req.tool = "get_statefulsets" -> GetStatefulSets(req)
    [] req.tool = "get_daemonsets" -> GetDaemonSets(req)
    [] req.tool = "get_services" -> GetServices(req)
    [] req.tool = "get_configmaps" -> GetConfigMaps(req)
    [] req.tool = "get_secrets" -> GetSecrets(req)
    [] req.tool = "get_nodes" -> GetNodes(req)
    [] req.tool = "get_namespaces" -> GetNamespaces(req)
    [] req.tool = "get_events" -> GetEvents(req)
    [] req.tool = "top_pods" -> TopPods(req)
    [] req.tool = "top_nodes" -> TopNodes(req)
    [] req.tool = "describe_resource" -> DescribeResource(req)
    [] req.tool = "get_pod_logs" -> GetPodLogs(req)
    [] req.tool = "get_pod_filter" -> GetPodFilter(req)
    [] req.tool = "get_resource_filter" -> GetResourceFilter(req)

ResourceTools == {"get_pods", "get_deployments", "get_statefulsets", "get_daemonsets",
  "get_services", "get_configmaps", "get_secrets", "get_nodes", "get_namespaces",
  "get_events", "top_pods", "top_nodes", "describe_resource", "get_pod_logs",
  "get_pod_filter", "get_resource_filter"}

ResourceRefused(req) ==
  \/ /\ req.tool = "describe_resource"
     /\ req.kind \notin DescribedKinds \/ req.name = ""
  \/ /\ req.tool = "get_resource_filter"
     /\ req.kind \notin FilteredKinds \/ req.name = ""
  \/ req.tool \in {"get_pod_filter", "get_pod_logs"} /\ req.name = ""

\* A failed read is an error, but for the metrics: they are unavailable then.
ResourceFatal(req) == req.tool \notin {"top_pods", "top_nodes"}

-----------------------------------------------------------------------------
\* getPodStatus: what the tools call the status of a Pod.
PodStatus(p) ==
  IF p.deleted THEN "Terminating"
  ELSE IF p.ready THEN "Running"
  ELSE IF p.phase = "Pending" /\ p.waiting # "" THEN p.waiting ELSE p.phase

\* What is told of an object besides that it is there.
Shown(o) ==
  CASE o.kind = "Pod" -> {Fact("status", Id(o), <<PodStatus(o)>>)}
    [] o.kind \in {"Deployment", "StatefulSet", "DaemonSet"} ->
         {Fact("replicas", Id(o), <<o.replicas, o.ready>>)}
    [] o.kind = "Service" -> {Fact("nodePort", Id(o), <<p>>) : p \in o.nodePorts}
    [] OTHER -> {}

Told(o) == {Fact("object", Id(o), <<>>)} \cup Shown(o)

Limit(req) == IF req.limit <= 0 THEN 20 ELSE req.limit

\* The most used first; what has the same use is in no order.
TopOf(items, limit) ==
  {s \in SUBSET items :
     /\ Cardinality(s) = IF Cardinality(items) <= limit THEN Cardinality(items) ELSE limit
     /\ \A i \in s, j \in items \ s : i.cpu >= j.cpu}

ResourceFound(req, got) ==
  LET items == Items(got, ResourceRead(req))
  IN  IF req.tool \in {"get_pod_filter", "get_resource_filter"}
      THEN {o \in items : NameMatches(req, o)} ELSE items

\* buildResourceResponse: nothing found is an error of the filtering tools.
ResourceMissing(req, got) ==
  /\ req.tool \in {"get_pod_filter", "get_resource_filter"}
  /\ ResourceFound(req, got) = {}

\* The choices of what is told.
ResourceAnswers(req, got) ==
  {UNION {Told(o) : o \in s} :
     s \in IF req.tool \in {"top_pods", "top_nodes"}
           THEN TopOf(ResourceFound(req, got), Limit(req))
           ELSE {ResourceFound(req, got)}}
=============================================================================
