------------------------------ MODULE MCToolCalls ------------------------------
(***************************************************************************)
(* Two contexts, two tools and the requests that differ in what ToolCalls  *)
(* tells apart.  "alias" gives the tool in the field name.                 *)
(***************************************************************************)
EXTENDS ToolCalls

CONSTANTS x1, x2

Param(type, flagged, enum) == [type |-> type, flagged |-> flagged, enum |-> enum]

Tools ==
  [t \in {"get_pods", "patch_resource"} |->
     IF t = "get_pods"
     THEN [required |-> {}, properties |-> [context |-> Param("string", FALSE, {})]]
     ELSE [required |-> {"name", "patch"},
           properties |-> [name |-> Param("string", TRUE, {}),
                           patch |-> Param("string", TRUE, {}),
                           patchType |-> Param("string", FALSE, {"json", "merge"})]]]

Str(v) == [kind |-> "string", val |-> v]
Null == [kind |-> "null", val |-> Unset]

Query == [tool |-> "get_pods", name |-> Unset, wellFormed |-> TRUE, context |-> Unset,
          route |-> Unset, verbosity |-> Unset, pagination |-> Unset, arguments |-> <<>>]
Patch == [Query EXCEPT !.tool = "patch_resource",
            !.arguments = [name |-> Str("n"), patch |-> Str("p")]]
Pages(p, n) == [Query EXCEPT !.pagination = [page |-> p, pageSize |-> n]]

\* Texts with a phrase of a later and of an earlier class beside their own.
FewFailures ==
  { [reason |-> "AlreadyExists", phrases |-> {"already exists", "forbidden"}],
    [reason |-> "Forbidden", phrases |-> {"forbidden", "not found"}] }

FewRequests ==
  { Query,
    [Query EXCEPT !.route = x2],
    Pages(1, MaxPageSize + 1),
    [Patch EXCEPT !.context = x2],
    [Patch EXCEPT !.arguments = [name |-> Str("n"), patch |-> Null]] }
=============================================================================
