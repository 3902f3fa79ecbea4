----------------------------- MODULE DeletePreview -----------------------------
(***************************************************************************)
(* preview_delete_resources (internal/tools/delete_preview.go): what the   *)
(* deletion of some names would take with it.  Each name is analysed in a  *)
(* goroutine of its own, which books its result under a mutex.             *)
(***************************************************************************)
EXTENDS ServiceTracing

PreviewedKinds == {"Pod", "Deployment", "StatefulSet", "DaemonSet", "Service", "ConfigMap",
  "Secret"}

PreviewRefused(req) ==
  \/ req.kind = ""
  \/ req.names = <<>> /\ req.selector = {}
  \/ req.names = <<>> /\ req.kind \notin PreviewedKinds

\* listResourceNamesByKind, when no names are given.
NamesList(req) == Request("list", req.kind, Defaulted(req), "", req.selector, <<>>)

PreviewNames(req, got) ==
  IF req.names # <<>> THEN req.names
  ELSE SetToSeq({o.name : o \in Items(got, NamesList(req))})

\* The reads of goroutine i.
Resource(req, got, i) == For(<<i>>, Get(req.kind, Defaulted(req), PreviewNames(req, got)[i]))

Related(req, i, kind, selector) ==
  For(<<i>>, Request("list", kind, Defaulted(req), "", selector, <<>>))

EndpointsOf(req, got, i) == For(<<i>>, Get("Endpoints", Defaulted(req), PreviewNames(req, got)[i]))

\* The analyze...Deletion functions: first the object, then what hangs on it.
Analysis(req, got, i) ==
  LET o == CHOOSE x \in Items(got, Resource(req, got, i)) : TRUE IN
  IF req.kind \notin PreviewedKinds THEN <<>>
  ELSE <<Resource(req, got, i)>> \o
       (IF Items(got, Resource(req, got, i)) = {} THEN <<>>
        ELSE CASE req.kind = "Pod" -> <<>>
               [] req.kind = "Deployment" ->
                    <<Related(req, i, "Pod", o.selector), Related(req, i, "ReplicaSet", o.selector)>>
               [] req.kind \in {"StatefulSet", "DaemonSet"} -> <<Related(req, i, "Pod", o.selector)>>
               [] req.kind = "Service" ->
                    <<Related(req, i, "Ingress", {}), EndpointsOf(req, got, i)>>
               [] OTHER -> <<Related(req, i, "Pod", {})>>)

PreviewScripts(req, got) ==
  (IF req.names = <<>> THEN {<<NamesList(req)>>} ELSE {})
  \cup {Analysis(req, got, i) : i \in DOMAIN PreviewNames(req, got)}

PreviewFatal(req, r) == r = NamesList(req)

\* Mutant: a goroutine whose resource cannot be read never gets to wg.Done.
AnalysedIfFound(req, got, i) ==
  /\ \A j \in DOMAIN Analysis(req, got, i) : Analysis(req, got, i)[j] \in DOMAIN got
  /\ Items(got, Resource(req, got, i)) # {}

Analysed(req, got, i) == \A j \in DOMAIN Analysis(req, got, i) : Analysis(req, got, i)[j] \in DOMAIN got

\* What a related object has to do with the resource.
Hangs(req, o, r) ==
  IF o.kind = "Ingress" THEN \E p \in o.paths : p.service = r.name
  ELSE req.kind \in {"ConfigMap", "Secret"} => <<req.kind, r.name>> \in o.mounts

\* ImpactedResources: one entry for each type that has anything.
ImpactGroup(type, members) == IF members = {} THEN {} ELSE {<<type, members>>}

\* What the later reads of goroutine i found of a kind.
FoundRelated(req, got, i, kind) ==
  LET reads == Analysis(req, got, i)
  IN  UNION {{o \in Items(got, reads[j]) : o.kind = kind} : j \in 2 .. Len(reads)}

HangingNames(req, got, i, kind) ==
  {o.name : o \in {p \in FoundRelated(req, got, i, kind) :
                     \E r \in Items(got, Resource(req, got, i)) : Hangs(req, p, r)}}

ActiveAddresses(req, got, i) ==
  UNION {{a \in e.addresses : a[2]} : e \in FoundRelated(req, got, i, "Endpoints")}

Impacts(req, got, i) ==
  IF Items(got, Resource(req, got, i)) = {} \/ req.kind \notin PreviewedKinds THEN {}
  ELSE (UNION {ImpactGroup(k, HangingNames(req, got, i, k)) : k \in {"Pod", "ReplicaSet", "Ingress"}})
       \cup ImpactGroup("Endpoint", ActiveAddresses(req, got, i))

RiskLevels == <<"low", "medium", "high", "critical">>

compareRiskLevel(a, b) ==
  (CHOOSE i \in 1 .. 4 : RiskLevels[i] = a) - (CHOOSE i \in 1 .. 4 : RiskLevels[i] = b)

\* The risk of one resource; "medium" when it could not be read.
RiskLevel(req, got, i) ==
  LET used == Impacts(req, got, i) # {} IN
  IF req.kind \notin PreviewedKinds \/ Items(got, Resource(req, got, i)) = {} THEN "medium"
  ELSE LET o == CHOOSE x \in Items(got, Resource(req, got, i)) : TRUE IN
       CASE req.kind = "Pod" -> IF o.owners # {} THEN "medium" ELSE "low"
         [] req.kind = "Deployment" -> IF o.replicas > 1 THEN "high" ELSE "medium"
         [] req.kind = "StatefulSet" -> "high"
         [] req.kind = "DaemonSet" -> "critical"
         [] req.kind = "Service" -> IF o.type = "LoadBalancer" THEN "high" ELSE "medium"
         [] req.kind = "ConfigMap" -> IF used THEN "high" ELSE "low"
         [] req.kind = "Secret" -> IF used THEN "critical" ELSE "medium"

ImpactFacts(id, groups) == UNION {{Fact(g[1], id, <<m>>) : m \in g[2]} : g \in groups}

PreviewFacts(req, got) ==
  UNION {ImpactFacts(<<req.kind, Defaulted(req), PreviewNames(req, got)[i]>>, Impacts(req, got, i)) :
           i \in DOMAIN PreviewNames(req, got)}
=============================================================================
