----------------------------- MODULE ServiceTracing -----------------------------
(***************************************************************************)
(* The tools that go from an address to what serves it                     *)
(* (internal/tools/query_reverse.go): from a NodePort or a host to         *)
(* Services, to their endpoints and to the workloads behind them.  Each    *)
(* read depends on what the reads before it found.                         *)
(***************************************************************************)
EXTENDS ResourceQueries

NodePortTools == {"find_service_by_nodeport", "trace_by_nodeport"}
HostTools == {"find_service_by_ingress", "trace_by_host"}
TracingTools == NodePortTools \cup HostTools \cup {"get_ingresses", "find_workload_by_service"}

Ports == 1 .. 65535

TraceRefused(req) ==
  \/ req.tool \in NodePortTools /\ req.nodePort \notin Ports
  \/ req.tool \in HostTools /\ req.host = <<>>
  \/ req.tool = "find_workload_by_service" /\ req.name = ""

-----------------------------------------------------------------------------
\* matchHostWithMode.  A host is the sequence of its pieces, the dots among
\* them.  Case is folded before and left out, and no host asked for is empty.
Wild(pattern) == Len(pattern) >= 2 /\ pattern[1] = "*" /\ pattern[2] = "."

matchWildcard(pattern, host) ==
  IF Wild(pattern) THEN IsStrictSuffix(Tail(pattern), host) ELSE pattern = host

matchHostWithMode(pattern, host, mode) ==
  \/ pattern = <<>>
  \/ CASE mode = "exact" -> pattern = host
       [] mode = "prefix" -> IsPrefix(pattern, host)
       [] mode = "suffix" -> IsSuffix(pattern, host)
       [] mode = "contains" -> pattern \in SubSeqs(host)
       [] mode = "wildcard" -> matchWildcard(pattern, host)
       [] OTHER -> \/ matchWildcard(pattern, host)
                   \/ ~Wild(pattern) /\ IsSuffix(<<".">> \o pattern, host)
                   \/ ~Wild(pattern) /\ IsSuffix(<<".">> \o host, pattern)

\* Mutant: the roles of the two selectors are swapped.
matchSelectorSwapped(workload, service) == service # {} /\ workload \subseteq service

matchSelector(workload, service) == service # {} /\ service \subseteq workload

-----------------------------------------------------------------------------
\* The reads.

\* The NodePort tools ask the indexer when it is ready, else the API server.
TraceFirst(req) ==
  CASE req.tool \in NodePortTools ->
         Request(IF req.indexed THEN "index" ELSE "list", "Service", req.ns, "", {}, <<>>)
    [] req.tool \in HostTools -> List("Ingress", Defaulted(req))
    [] req.tool = "get_ingresses" ->
         Request("list", "Ingress", Defaulted(req), req.name, req.selector, <<>>)
    [] req.tool = "find_workload_by_service" -> Get("Service", Defaulted(req), req.name)

\* Mutant: the path is not compared.
MatchedAnyPath(req, ingress) ==
  {p \in ingress.paths : matchHostWithMode(p.host, req.host, req.mode)}

Matched(req, ingress) ==
  {p \in ingress.paths :
     /\ matchHostWithMode(p.host, req.host, req.mode)
     /\ IsPrefix(req.path, p.path)}

\* matchedSvcKeys.
matchedSvcKeys(req, ingresses) ==
  UNION {{<<i.ns, p.service>> : p \in {q \in Matched(req, i) : q.service # ""}} :
           i \in ingresses}

\* The Services the handler goes through, as <<namespace, name>>.
ServiceKeys(req, got) ==
  LET first == Items(got, TraceFirst(req)) IN
  CASE req.tool \in NodePortTools ->
         {<<s.ns, s.name>> : s \in {t \in first : req.nodePort \in t.nodePorts}}
    [] req.tool \in HostTools -> matchedSvcKeys(req, first)
    [] req.tool = "find_workload_by_service" -> {<<s.ns, s.name>> : s \in first}
    [] OTHER -> {}

ServiceGet(key) == For(key, Get("Service", key[1], key[2]))

\* The Service itself, or nothing: a Service that is not there is skipped.
ServiceObject(req, got, key) ==
  {s \in Items(got, IF req.tool \in HostTools THEN ServiceGet(key) ELSE TraceFirst(req)) :
     <<s.ns, s.name>> = key}

\* getServiceEndpoints: the slices, and the Endpoints when there are none.
SlicesList(key) ==
  For(key, Request("list", "EndpointSlice", key[1], "", {<<"service", key[2]>>}, <<>>))
EndpointsGet(key) == For(key, Get("Endpoints", key[1], key[2]))

getServiceEndpoints(got, key) ==
  <<SlicesList(key)>> \o IF Items(got, SlicesList(key)) = {} THEN <<EndpointsGet(key)>> ELSE <<>>

\* findWorkloadsForService, and the same steps in FindWorkloadByService.
WorkloadKinds == <<"Deployment", "StatefulSet", "DaemonSet">>
WorkloadLists(key) == [i \in 1 .. 3 |-> For(key, List(WorkloadKinds[i], key[1]))]

WantsEndpoints(req) == req.tool \in {"trace_by_nodeport", "trace_by_host"} \/ req.includeEndpoints
WantsWorkloads(req) ==
  req.tool \in {"trace_by_nodeport", "trace_by_host", "find_workload_by_service"}

ServiceScript(req, got, key) ==
  LET found == ServiceObject(req, got, key) IN
  (IF req.tool \in HostTools THEN <<ServiceGet(key)>> ELSE <<>>)
  \o (IF found # {} /\ WantsEndpoints(req) THEN getServiceEndpoints(got, key) ELSE <<>>)
  \o (IF WantsWorkloads(req) /\ \E s \in found : s.selector # {} THEN WorkloadLists(key) ELSE <<>>)

\* The reads that are known of so far: one script after the other is gone
\* through, the Services in the order of a Go map.
TraceScripts(req, got) ==
  {<<TraceFirst(req)>>} \cup {ServiceScript(req, got, k) : k \in ServiceKeys(req, got)}

TraceFatal(req, r) == r = TraceFirst(req)

\* A path with a resource backend has no Service to take the name of.
TracePanics(req, got) ==
  \E i \in Items(got, TraceFirst(req)) :
    \/ req.tool = "get_ingresses" /\ \E p \in i.paths : p.service = ""
    \/ req.tool = "trace_by_host" /\ \E p \in Matched(req, i) : p.service = ""

-----------------------------------------------------------------------------
\* What is told.

ServiceFacts(req, got, key) ==
  LET id == <<"Service", key[1], key[2]>>
      found == ServiceObject(req, got, key)
      slices == Items(got, SlicesList(key))
      endpoints == IF slices # {} THEN slices ELSE Items(got, EndpointsGet(key))
      workloads == UNION {Items(got, WorkloadLists(key)[i]) : i \in 1 .. 3}
  IN  {Fact("service", id, <<s.nodePorts>>) : s \in found}
      \cup (UNION {{Fact("endpoint", id, a) : a \in e.addresses} : e \in endpoints})
      \cup {Fact("workload", id, <<Id(w), w.replicas>>) :
              w \in {v \in workloads : \E s \in found : matchSelector(v.selector, s.selector)}}

Routes(req, ingress) ==
  CASE req.tool = "get_ingresses" -> ingress.paths
    [] req.tool = "trace_by_host" -> {p \in Matched(req, ingress) : p.service # ""}
    [] OTHER -> {}

TraceFacts(req, got) ==
  (UNION {{Fact("route", Id(i), <<p.host, p.path, p.service>>) : p \in Routes(req, i)} :
            i \in {j \in Items(got, TraceFirst(req)) : j.kind = "Ingress"}})
  \cup (UNION {ServiceFacts(req, got, k) : k \in ServiceKeys(req, got)})
=============================================================================
