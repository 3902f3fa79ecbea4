------------------------------ MODULE MCToolWrites ------------------------------
(***************************************************************************)
(* One Deployment, one Service, two Pods and two namespaces; every two of  *)
(* the requests below that can be about the same objects are made at the   *)
(* same time.  Pod p has a grace period, Pod q none.                       *)
(***************************************************************************)
EXTENDS ToolWrites, TLC

CONSTANTS c1, c2

Web == <<"Deployment", "shop", "web">>
Svc == <<"Service", "shop", "web">>
PodP == <<"Pod", "shop", "p">>
PodQ == <<"Pod", "shop", "q">>
Default == <<"Namespace", "", "default">>
Shop == <<"Namespace", "", "shop">>

AllKeys == {Web, Svc, PodP, PodQ, Default, Shop}
Busy == {Web, PodP}
Graceful == {PodP}
Annotate == {[note |-> "n"]}

\* CVTTSD2SL of amd64.
Indefinite(x) == -IntMax

Plain == [maker |-> "outside", note |-> "", labels |-> {<<"app", "p">>}]

Workload ==
  [maker |-> "outside", note |-> "", labels |-> {}, replicas |-> 1,
   template |-> {<<"app", "web">>}, restartedAt |-> 0,
   containers |-> <<[name |-> "main", image |-> "i1"], [name |-> "side", image |-> "i1"]>>]

ForeignSpec(k) == IF k[1] = "Deployment" THEN Workload ELSE Plain

\* Made by earlier calls of the create tools.
Earlier(k) ==
  CASE k[1] = "Deployment" -> [Workload EXCEPT !.maker = "create"]
    [] k[1] = "Service" -> [maker |-> "create", note |-> "", labels |-> {}, port |-> 1,
                            selector |-> {<<"app", "web">>}, targetPort |-> 1, nodePort |-> 0]
    [] OTHER -> Plain

Given(present, made) ==
  [k \in AllKeys |->
     IF k \notin present THEN Absent
     ELSE [version |-> 1, spec |-> IF made THEN Earlier(k) ELSE ForeignSpec(k), dying |-> FALSE]]

Call(tool, kind, name) ==
  [tool |-> tool, kind |-> kind, name |-> name, namespace |-> "", token |-> "t"]

Batch(names, selector) ==
  Call("delete_resources", "Pod", "") @@ [names |-> names, selector |-> selector]

UpdateRequests ==
  << Call("scale", "Deployment", "web") @@ [replicas |-> 2],
    Call("scale", "Deployment", "web") @@ [replicas |-> IntMax],
    Call("restart", "Deployment", "web"),
    Call("update_image", "Deployment", "web") @@ [image |-> "i2", container |-> "side"],
    Call("update_image", "Deployment", "web") @@ [image |-> "i2", container |-> ""],
    Call("apply_yaml", "Deployment", "web") @@
      [yamlNamespace |-> "", spec |-> [Workload EXCEPT !.maker = "yaml"]],
    Call("apply_yaml", "Namespace", "shop") @@ [yamlNamespace |-> "", spec |-> Plain],
    Call("patch_resource", "Deployment", "web") @@
      [patchType |-> "merge", patch |-> [note |-> "p", template |-> {<<"app", "web">>, <<"tier", "x">>}]],
    Call("patch_resource", "Service", "web") @@
      [patchType |-> "json", patch |-> [selector |-> {<<"app", "x">>}]] >>

CreateRequests ==
  << Call("create", "Deployment", "web") @@
      [labels |-> {<<"app", "x">>}, replicas |-> 1, container |-> "", image |-> "i1"],
    Call("create", "Service", "web") @@
      [labels |-> {}, selector |-> {}, port |-> 1, targetPort |-> 0, nodePort |-> 0,
       type |-> "ClusterIP"],
    Call("create_from_yaml", "Namespace", "shop") @@ [yamlNamespace |-> "", spec |-> Plain] >>

DeleteRequests ==
  << Call("delete", "Deployment", "web"),
    Call("delete", "Namespace", "default"),
    [Call("delete", "Pod", "p") EXCEPT !.token = ""],
    Batch(<<"p", "p">>, {}),
    Batch(<<>>, {<<"app", "p">>}),
    [Batch(<<"default">>, {}) EXCEPT !.kind = "Namespace", !.namespace = ""] >>

AllRequests == UpdateRequests \o CreateRequests \o DeleteRequests

\* Requests that can be about the same objects, with what is there: the
\* Deployment, neither it nor its Service, or both as the create tools made them;
\* the Pods; the namespaces.
About(kinds) == {i \in DOMAIN AllRequests : AllRequests[i].kind \in kinds}

Meeting(kinds, there) ==
  {[objects |-> objs, request |-> (c1 :> AllRequests[i] @@ c2 :> AllRequests[j])] :
     objs \in there, <<i, j>> \in {p \in About(kinds) \X About(kinds) : p[1] <= p[2]}}

Scenes ==
  Meeting({"Deployment", "Service"},
          {Given({Web}, FALSE), Given({}, FALSE), Given({Web, Svc}, TRUE)})
  \cup Meeting({"Pod"}, {Given({Web, PodP, PodQ}, FALSE)})
  \cup Meeting({"Namespace"}, {Given({Default}, FALSE), Given({Default, Shop}, FALSE)})
=============================================================================
