------------------------------ MODULE WriteTools ------------------------------
(***************************************************************************)
(* What the tools that write ask of the API server (internal/tools:        *)
(* update_*.go, create_*.go, delete_*.go): the object a call names, the    *)
(* arguments its handler refuses, the object it creates and the edit it    *)
(* makes of one it has read.  How the calls interleave is in ToolWrites,   *)
(* what they promise is in AtomicWrites.                                   *)
(*                                                                         *)
(* Of an object's specification the fields that the tools read or set are  *)
(* kept; "note" stands for all the others.  A map of labels is the set of  *)
(* its pairs.                                                              *)
(***************************************************************************)
EXTENDS ApiServer

CONSTANTS
  ContextNamespace,  \* the default namespace of the call's context
  IntMax,            \* 2^31: an int32 is in -IntMax .. IntMax-1
  Unrepresentable(_) \* what the build makes of a number that is not

ASSUME WriteToolsAssumption ==
  /\ IntMax \in Nat \ {0}
  /\ ContextNamespace # ""

\* getInt32Arg: for a float64 out of range Go leaves the result of int32(val) to
\* the implementation.
Int32(x) == IF x \in -IntMax .. IntMax - 1 THEN x ELSE Unrepresentable(x)

\* isNamespacedResource.
ClusterScoped == {"Namespace", "Node", "PersistentVolume", "ClusterRole",
  "ClusterRoleBinding", "StorageClass", "PriorityClass", "CustomResourceDefinition"}

\* getGVRForKind.
PatchKinds == {"Pod", "Service", "ConfigMap", "Secret", "Namespace", "Node",
  "PersistentVolume", "PersistentVolumeClaim", "ServiceAccount", "Deployment",
  "StatefulSet", "DaemonSet", "ReplicaSet", "Job", "CronJob", "Ingress", "Role",
  "RoleBinding", "ClusterRole", "ClusterRoleBinding"}

\* deleteResourceByKind and listResourceNamesByKind.
BatchKinds == {"Pod", "Deployment", "StatefulSet", "DaemonSet", "Service",
  "ConfigMap", "Secret"}

SystemNamespaces == {"default", "kube-system", "kube-public", "kube-node-lease"}

\* getContextAndNamespace: every known context has a default namespace.
Namespaced(ns) == IF ns # "" THEN ns ELSE ContextNamespace

\* The object that ApplyYAML addresses: a namespace is filled in for every kind.
ApplyTarget(r) ==
  <<r.kind, IF r.yamlNamespace # "" THEN r.yamlNamespace ELSE Namespaced(r.namespace), r.name>>

\* The object that CreateFromYAML creates: cluster kinds get no namespace.
YAMLTarget(r) == IF r.kind \in ClusterScoped THEN <<r.kind, "", r.name>> ELSE ApplyTarget(r)

\* The object a call is about.
Target(r) ==
  CASE r.tool = "apply_yaml" -> ApplyTarget(r)
    [] r.tool = "create_from_yaml" -> YAMLTarget(r)
    [] r.tool \in {"create", "delete"} /\ r.kind = "Namespace" -> <<"Namespace", "", r.name>>
    [] OTHER -> <<r.kind, Namespaced(r.namespace), r.name>>

Updates == {"scale", "update_image", "restart"}

\* The tools that read the object before they write.
Getters == Updates \cup {"apply_yaml", "delete"}

\* Arguments a handler refuses before it asks the API server for anything.
RefusedScale(r) == r.tool = "scale" /\ Int32(r.replicas) < 0

RefusedImage(r) == r.tool = "update_image" /\ r.image = ""

RefusedPatch(r) ==
  /\ r.tool = "patch_resource"
  /\ r.patchType \notin {"json", "merge", "strategic"} \/ r.kind \notin PatchKinds

RefusedCreate(r) ==
  /\ r.tool = "create"
  /\ \/ r.kind \in {"Deployment", "Pod"} /\ r.image = ""
     \/ r.kind = "Service" /\ Int32(r.port) = 0

RefusedBatch(r) ==
  /\ r.tool = "delete_resources"
  /\ r.token = "" \/ (r.names = <<>> /\ r.selector = {})

\* The handlers that delete one object, one for each kind: each wants a token,
\* gets the object and deletes it by name; a system namespace is protected.
DeletePod(r) == r.kind = "Pod" /\ r.token # ""
DeleteDeployment(r) == r.kind = "Deployment" /\ r.token # ""
DeleteService(r) == r.kind = "Service" /\ r.token # ""
DeleteConfigMap(r) == r.kind = "ConfigMap" /\ r.token # ""
DeleteSecret(r) == r.kind = "Secret" /\ r.token # ""
DeleteNamespace(r) ==
  r.kind = "Namespace" /\ r.token # "" /\ r.name \notin SystemNamespaces

RefusedDelete(r) ==
  /\ r.tool = "delete"
  /\ ~ \/ DeletePod(r) \/ DeleteDeployment(r) \/ DeleteService(r)
       \/ DeleteConfigMap(r) \/ DeleteSecret(r) \/ DeleteNamespace(r)

Refused(r) ==
  \/ r.tool \notin {"delete_resources", "create_from_yaml"} /\ r.name = ""
  \/ RefusedScale(r) \/ RefusedImage(r) \/ RefusedPatch(r)
  \/ RefusedCreate(r) \/ RefusedDelete(r) \/ RefusedBatch(r)

-----------------------------------------------------------------------------
\* What is created.

\* Mutant: the caller's labels go to the Pods, too.
LabelsForPods(r) ==
  [maker |-> "create", note |-> "", labels |-> r.labels, replicas |-> Int32(r.replicas),
   template |-> IF r.labels = {} THEN {<<"app", r.name>>} ELSE r.labels,
   containers |-> <<[name |-> r.name, image |-> r.image]>>, restartedAt |-> 0]

\* CreateDeployment: the selector and the Pods' labels are the name's, whatever
\* labels the caller gives the Deployment itself.
CreatedDeployment(r) ==
  [maker |-> "create", note |-> "",
   labels |-> IF \E p \in r.labels : p[1] = "app" THEN r.labels
              ELSE r.labels \cup {<<"app", r.name>>},
   replicas |-> Int32(r.replicas),
   template |-> {<<"app", r.name>>},
   containers |-> <<[name |-> IF r.container = "" THEN r.name ELSE r.container,
                     image |-> r.image]>>,
   restartedAt |-> 0]

CreatedService(r) ==
  [maker |-> "create", note |-> "", labels |-> r.labels,
   selector |-> IF r.selector = {} THEN {<<"app", r.name>>} ELSE r.selector,
   port |-> Int32(r.port),
   targetPort |-> Int32(IF r.targetPort = 0 THEN r.port ELSE r.targetPort),
   nodePort |-> IF r.type \in {"NodePort", "LoadBalancer"} /\ Int32(r.nodePort) > 0
                THEN Int32(r.nodePort) ELSE 0]

CreatedPod(r) ==
  [maker |-> "create", note |-> "", labels |-> r.labels,
   containers |-> <<[name |-> IF r.container = "" THEN r.name ELSE r.container,
                     image |-> r.image]>>]

\* CreateConfigMap, CreateNamespace.
CreatedConfig(r) == [maker |-> "create", note |-> r.data, labels |-> r.labels]

\* CreateSecret: the client encodes Data again when it sends it, so what is
\* stored for "data" is the base64 text of the value the caller gave.
CreatedSecret(r) == [maker |-> "create", note |-> <<"base64", r.data>>, labels |-> r.labels]

Created(r) ==
  IF r.tool = "create_from_yaml" THEN r.spec
  ELSE CASE r.kind = "Deployment" -> CreatedDeployment(r)
         [] r.kind = "Service" -> CreatedService(r)
         [] r.kind = "Pod" -> CreatedPod(r)
         [] r.kind = "Secret" -> CreatedSecret(r)
         [] OTHER -> CreatedConfig(r)

-----------------------------------------------------------------------------
\* What is changed.

\* The container UpdateDeploymentImage changes: the one that is named, or the
\* first; 0 when there is none.
ContainerIndex(r, spec) ==
  LET named == {i \in DOMAIN spec.containers : spec.containers[i].name = r.container}
  IN  IF r.container = "" THEN (IF spec.containers = <<>> THEN 0 ELSE 1)
      ELSE IF named = {} THEN 0
      ELSE CHOOSE i \in named : \A j \in named : i <= j

Editable(r, spec) == r.tool = "update_image" => ContainerIndex(r, spec) # 0

\* The specification an updating tool sends back, and the old value it reports.
Edited(r, spec, now) ==
  CASE r.tool = "scale" -> [spec EXCEPT !.replicas = Int32(r.replicas)]
    [] r.tool = "restart" -> [spec EXCEPT !.restartedAt = now]
    [] OTHER -> [spec EXCEPT !.containers[ContainerIndex(r, spec)].image = r.image]

OldValue(r, spec) ==
  CASE r.tool = "scale" -> spec.replicas
    [] r.tool = "restart" -> ""
    [] OTHER -> spec.containers[ContainerIndex(r, spec)].image

\* The names a label selector finds: listResourceNamesByKind.
NamesSelected(r) ==
  {k[3] : k \in {k \in Keys : /\ Exists(k)
                              /\ k[1] = r.kind
                              /\ k[2] = Namespaced(r.namespace)
                              /\ r.selector \subseteq objects[k].spec.labels}}
=============================================================================
