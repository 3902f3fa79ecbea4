----------------------------- MODULE ClusterReads -----------------------------
(***************************************************************************)
(* What the tools that only read ask of the API server, and what it        *)
(* answers.  A cluster is a set of objects; of an object the fields that   *)
(* some tool reads are kept.  Its labels are pairs, and so are the fields  *)
(* a field selector can name.  A read gives the objects there are at the   *)
(* moment it is served; a call that makes several sees several moments.    *)
(***************************************************************************)
EXTENDS Integers, FiniteSets, SequencesExt

Id(o) == <<o.kind, o.ns, o.name>>

\* A read on behalf of what `owner` names; ns "" is every namespace, name ""
\* is any name.
Request(op, kind, ns, name, selector, owner) ==
  [op |-> op, kind |-> kind, ns |-> ns, name |-> name, selector |-> selector,
   owner |-> owner]

List(kind, ns) == Request("list", kind, ns, "", {}, <<>>)
Get(kind, ns, name) == Request("get", kind, ns, name, {}, <<>>)
For(owner, r) == [r EXCEPT !.owner = owner]

Asked(o, r) ==
  /\ o.kind = r.kind
  /\ r.ns \in {"", o.ns}
  /\ r.name \in {"", o.name}
  /\ r.selector \subseteq o.labels

\* A List finds what there is; a Get of an object that is not there fails.
Fetch(cluster, r) ==
  LET found == {o \in cluster : Asked(o, r)}
  IN  [ok |-> r.op # "get" \/ found # {}, items |-> found]

\* The read was refused or did not arrive.  A list comes back empty.
Lost == [ok |-> FALSE, items |-> {}]

\* What a handler has of a read so far.
Items(got, r) == IF r \in DOMAIN got THEN got[r].items ELSE {}

\* A fact an answer tells: a relation, an object and what it is related to.
Fact(relation, id, detail) == <<relation, id, detail>>
=============================================================================
