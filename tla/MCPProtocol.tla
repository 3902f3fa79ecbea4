------------------------------ MODULE MCPProtocol ------------------------------
(***************************************************************************)
(* What internal/mcp and the tool registry decide about one tool call,     *)
(* apart from running it: whether the request and its arguments are        *)
(* accepted, which class and HTTP status an error gets, and how pages are  *)
(* normalised.  Nothing here keeps state.                                  *)
(*                                                                         *)
(* A name, a context or a verbosity is a member of a small set.  The text  *)
(* of an error is the set of the phrases classifyError looks for that      *)
(* occur in it; messages and suggestions are left out.                     *)
(***************************************************************************)
EXTENDS Integers, Sequences, SequencesExt

CONSTANTS
  Contexts,  \* names of the contexts of the kubeconfig
  Registry,  \* tool name |-> InputSchema: [required, properties]
  Unset      \* the zero value of a string, or a missing field

DefaultPageSize == 50
MaxPageSize == 500
Verbosities == {"brief", "standard", "detailed"}

\* GetToolName: the field tool, and name where there is none.
GetToolName(req) == IF req.tool # Unset THEN req.tool ELSE req.name

(***************************************************************************)
(* ValidateRequest runs its checks in order and reports the first one that *)
(* fails.  pagination is [page, pageSize] or Unset.  wellFormed stands for *)
(* isValidToolName: letters, digits, underscores and hyphens only.         *)
(***************************************************************************)
ValidateRequest(req) ==
  LET name == GetToolName(req)
      p == req.pagination
  IN  IF name = Unset \/ ~req.wellFormed THEN "INVALID_TOOL_NAME"
      ELSE IF name \notin DOMAIN Registry THEN "TOOL_NOT_FOUND"
      ELSE IF req.context # Unset /\ req.context \notin Contexts THEN "CONTEXT_NOT_FOUND"
      ELSE IF \/ req.verbosity \notin Verbosities \cup {Unset}
              \/ p # Unset /\ (p.page < 0 \/ p.pageSize < 0 \/ p.pageSize > MaxPageSize)
           THEN "INVALID_ARGUMENTS"
      ELSE "OK"

\* NormalizePagination, for the cache key and for the arguments of the tool.
NormalizePagination(p) ==
  IF p = Unset THEN [page |-> 1, pageSize |-> DefaultPageSize]
  ELSE [page |-> IF p.page < 1 THEN 1 ELSE p.page,
        pageSize |-> IF p.pageSize < 1 THEN DefaultPageSize
                     ELSE IF p.pageSize > MaxPageSize THEN MaxPageSize ELSE p.pageSize]

(***************************************************************************)
(* Arguments are a function from the names given to values [kind, val].    *)
(* Extra arguments are accepted, a null is refused only where the          *)
(* parameter itself is flagged as required, and a fraction is an integer.  *)
(***************************************************************************)
FitsType(type, v) ==
  CASE type = "string"  -> v.kind = "string"
    [] type = "integer" -> v.kind = "number"
    [] type = "boolean" -> v.kind = "boolean"
    [] type = "array"   -> v.kind = "array"
    [] type = "object"  -> v.kind = "object"
    [] OTHER -> TRUE

ValidateParamType(v, schema) ==
  IF v.kind = "null" THEN ~schema.flagged
  ELSE FitsType(schema.type, v) /\ (schema.enum = {} \/ v.val \in schema.enum)

ValidateArgs(schema, args) ==
  /\ schema.required \subseteq DOMAIN args
  /\ \A n \in DOMAIN args \cap DOMAIN schema.properties :
       ValidateParamType(args[n], schema.properties[n])

-----------------------------------------------------------------------------
(* Errors.                                                                 *)

\* The cases of classifyError, in order: phrases looked for, type and code.
ErrorClasses ==
  << [any |-> {"not found"}, type |-> "NOT_FOUND", code |-> "RESOURCE_NOT_FOUND"],
     [any |-> {"already exists"}, type |-> "CONFLICT", code |-> "RESOURCE_ALREADY_EXISTS"],
     [any |-> {"forbidden"}, type |-> "AUTH", code |-> "PERMISSION_DENIED"],
     [any |-> {"unauthorized"}, type |-> "AUTH", code |-> "AUTH_FAILED"],
     [any |-> {"timeout"}, type |-> "TIMEOUT", code |-> "CONNECTION_TIMEOUT"],
     [any |-> {"connection refused"}, type |-> "NETWORK", code |-> "CLUSTER_UNREACHABLE"],
     [any |-> {"argument"}, type |-> "CLIENT", code |-> "INVALID_ARGUMENTS"] >>

\* Mutant: a refused permission is looked for first.
ForbiddenFirst(phrases) ==
  IF "forbidden" \in phrases THEN ErrorClasses[3]
  ELSE LET i == SelectInSeq(ErrorClasses, LAMBDA c : c.any \cap phrases # {})
       IN  IF i = 0 THEN [any |-> {}, type |-> "SERVER", code |-> "INTERNAL_ERROR"]
           ELSE ErrorClasses[i]

\* classifyError.
ClassifyError(phrases) ==
  LET i == SelectInSeq(ErrorClasses, LAMBDA c : c.any \cap phrases # {})
  IN  IF i = 0 THEN [any |-> {}, type |-> "SERVER", code |-> "INTERNAL_ERROR"]
      ELSE ErrorClasses[i]

\* getHTTPStatusFromError.
HTTPStatus(type, code) ==
  CASE type = "CLIENT"    -> 400
    [] type = "AUTH"      -> IF code = "UNAUTHORIZED" THEN 401 ELSE 403
    [] type = "NOT_FOUND" -> 404
    [] type = "CONFLICT"  -> 409
    [] type = "TIMEOUT"   -> 504
    [] type = "NETWORK"   -> 502
    [] OTHER -> 500

\* formatErrorFromError: a validation error keeps its own code.
ValidationStatus == HTTPStatus("CLIENT", "INVALID_ARGUMENTS")
ErrorStatus(phrases) ==
  HTTPStatus(ClassifyError(phrases).type, ClassifyError(phrases).code)
=============================================================================
