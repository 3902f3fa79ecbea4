------------------------------- MODULE ApiServer -------------------------------
(***************************************************************************)
(* The objects of one Kubernetes cluster as the tools of internal/tools    *)
(* meet them through client-go: every write of an object gives it a new    *)
(* resourceVersion, an Update that carries a version is refused unless it  *)
(* is the object's own, a Create is refused when the name is taken, and    *)
(* other clients and controllers change, delete and create objects too.  A *)
(* deletion may be graceful: the object is marked, can still be read and   *)
(* written, and goes later; until then it can be deleted again.            *)
(* External: the API server is not in the repository.                      *)
(***************************************************************************)
EXTENDS Integers, Sequences, FiniteSets

CONSTANTS
  Keys,        \* <<kind, namespace, name>> of every object that can exist
  Contended,   \* bound: the keys that others write
  Lingering,   \* the keys whose object a DELETE may leave marked: a Pod with a
               \* grace period, an object with finalizers
  Edits,       \* the patches others make
  Foreign(_),  \* the specification others create a key's object with
  MaxVersion   \* bound: others stop writing at this version

ASSUME ApiServerAssumption ==
  /\ Contended \subseteq Keys /\ Lingering \subseteq Keys
  /\ MaxVersion \in Nat

VARIABLES
  objects,     \* key |-> Absent or [version, spec, dying]
  version      \* the last resourceVersion given out

Absent == [version |-> 0]

Exists(k) == k \in Keys /\ objects[k] # Absent

\* A name that is not taken, under a path the API server serves.
Free(k) == k \in Keys /\ objects[k] = Absent

\* Marked for deletion: it has a deletionTimestamp.
Dying(k) == Exists(k) /\ objects[k].dying

Put(k, spec) ==
  /\ objects' = [objects EXCEPT ![k] =
       [version |-> version + 1, spec |-> spec, dying |-> Dying(k)]]
  /\ version' = version + 1

Vanish(k) ==
  /\ objects' = [objects EXCEPT ![k] = Absent]
  /\ version' = version + 1

Mark(k) ==
  /\ k \in Lingering /\ ~Dying(k)
  /\ objects' = [objects EXCEPT ![k] =
       [version |-> version + 1, spec |-> objects[k].spec, dying |-> TRUE]]
  /\ version' = version + 1

\* What a DELETE does that succeeds; that of a dying object need change nothing.
Erase(k) ==
  \/ Vanish(k)
  \/ Mark(k)
  \/ Dying(k) /\ UNCHANGED <<objects, version>>

\* What a patch makes of a specification: it replaces any of its fields.  maker
\* is history: "create" while the selector and the Pods' labels are the ones a
\* create tool chose.
Patched(spec, patch) ==
  [f \in DOMAIN spec |->
     CASE f = "maker" -> IF DOMAIN patch \cap {"selector", "template"} = {} THEN spec.maker
                         ELSE "patch"
       [] f # "maker" /\ f \in DOMAIN patch -> patch[f]
       [] OTHER -> spec[f]]

\* Another client or a controller: an edit, a deletion, a creation, the end of
\* an object that was marked.
Outside ==
  /\ version < MaxVersion
  /\ \E k \in Contended :
       \/ Exists(k) /\ \E e \in Edits : Put(k, Patched(objects[k].spec, e))
       \/ Exists(k) /\ Erase(k)
       \/ Free(k) /\ Put(k, Foreign(k))
=============================================================================
