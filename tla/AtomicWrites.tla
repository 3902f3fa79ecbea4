----------------------------- MODULE AtomicWrites -----------------------------
(***************************************************************************)
(* What a tool that writes promises its caller, however many calls, other  *)
(* clients and controllers write at the same time: a call that is answered *)
(* with success did all of its work at one instant.  It changed its own    *)
(* field of the object as the object was at that instant, and the old      *)
(* value, or the word "Created" or "Updated", it reports is that of the    *)
(* object at that instant.  A call answered with an error changed nothing, *)
(* or did its work and lost the API server's answer.  A batch promises     *)
(* less: it deletes objects of its own kind and namespace, one by one.     *)
(***************************************************************************)
EXTENDS WriteTools

CONSTANTS
  Calls,      \* the calls of write tools
  Seconds,    \* the readings of the clock, in whole seconds
  Scenarios   \* the objects to begin with and the calls' requests

VARIABLES
  request,    \* the request of each call
  answer      \* what its caller was told, or Pending

Pending == [status |-> "pending"]
Failure == [status |-> "error"]
Success(action, old) == [status |-> "ok", action |-> action, old |-> old]

Init ==
  /\ \E s \in Scenarios : objects = s.objects /\ request = s.request
  /\ version = 1
  /\ answer = [c \in Calls |-> Pending]

\* The work of request r, done at once.
Work(r) ==
  LET k == Target(r) IN
  \/ /\ r.tool \in Updates
     /\ Exists(k) /\ Editable(r, objects[k].spec)
     /\ \E now \in Seconds : Put(k, Edited(r, objects[k].spec, now))
  \/ r.tool = "apply_yaml" /\ k \in Keys /\ Put(k, r.spec)
  \/ r.tool \in {"create", "create_from_yaml"} /\ Free(k) /\ Put(k, Created(r))
  \/ /\ r.tool = "patch_resource"
     /\ Exists(k)
     /\ Put(k, Patched(objects[k].spec, r.patch))
  \/ r.tool = "delete" /\ Exists(k) /\ Erase(k)

\* What the caller is told when the work is done now.
Told(r) ==
  CASE r.tool \in Updates -> Success(r.tool, OldValue(r, objects[Target(r)].spec))
    [] r.tool = "apply_yaml" -> Success(IF Exists(Target(r)) THEN "Updated" ELSE "Created", "")
    [] OTHER -> Success(r.tool, "")

Serve(c) ==
  /\ answer[c] = Pending
  /\ Work(request[c])
  /\ \E a \in {Told(request[c]), Failure} : answer' = [answer EXCEPT ![c] = a]
  /\ UNCHANGED request

Fail(c) ==
  /\ answer[c] = Pending
  /\ answer' = [answer EXCEPT ![c] = Failure]
  /\ UNCHANGED <<objects, version, request>>

DeleteOne(c) ==
  /\ answer[c] = Pending
  /\ request[c].tool = "delete_resources"
  /\ request[c].kind \in BatchKinds
  /\ \E n \in {k[3] : k \in Keys} :
       LET k == <<request[c].kind, Namespaced(request[c].namespace), n>>
       IN  Exists(k) /\ Erase(k)
  /\ UNCHANGED <<request, answer>>

Summarise(c) ==
  /\ answer[c] = Pending
  /\ request[c].tool = "delete_resources"
  /\ answer' = [answer EXCEPT ![c] = Success("delete_resources", "")]
  /\ UNCHANGED <<objects, version, request>>

Next ==
  \/ \E c \in Calls : Serve(c) \/ Fail(c) \/ DeleteOne(c) \/ Summarise(c)
  \/ Outside /\ UNCHANGED <<request, answer>>

Spec == Init /\ [][Next]_<<objects, version, request, answer>>
=============================================================================
