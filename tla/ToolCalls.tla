------------------------------- MODULE ToolCalls -------------------------------
(***************************************************************************)
(* What a call of POST /tool is answered with: handleToolCall of           *)
(* internal/server/http.go over MCPHandler.HandleToolCall of internal/mcp/ *)
(* protocol.go, the registry's ExecuteTool and the tools' getClientSet,    *)
(* below the timeout middleware, which writes a 504 of its own on the      *)
(* deadline and nothing where the client has gone.                         *)
(*                                                                         *)
(* An exchange is one request on one connection.  Gin serves it with a     *)
(* gin.Context of its pool: the context's writer is bound to the exchange  *)
(* and the context goes back to the pool when the chain has returned.  The *)
(* goroutine that timeoutMiddleware starts keeps its gin.Context for as    *)
(* long as the tool runs, also when the chain returned on the deadline or  *)
(* the client's disconnect, so its answer goes to whatever exchange that   *)
(* context serves by then.                                                 *)
(*                                                                         *)
(* The current context is constant: nothing in the server calls            *)
(* SwitchContext (K8SClientManager models it for those that would).        *)
(* Expiry, eviction and invalidation of the cache are in ToolCallCache;    *)
(* here an entry may vanish at any time.  Permits and the shared handler   *)
(* index are in RequestLifecycle.                                          *)
(***************************************************************************)
EXTENDS MCPProtocol, FiniteSets

CONSTANTS
  Exchanges,    \* connections; each carries one request after the other
  GinContexts,  \* the objects of gin's pool
  Requests,     \* the requests clients send
  Current,      \* the manager's current context
  Failures,     \* the failures of a tool that has a cluster: [reason, phrases]
  LogLevels,    \* the values of logLevel the server may be started with
  MaxAbandoned, \* bound: goroutines left behind at a time
  None          \* no request, no writer, no entry

ASSUME CallsAssumption ==
  /\ Current \in Contexts
  /\ MaxAbandoned \in Nat
  /\ None \notin GinContexts \cup Exchanges \cup Requests
  /\ Unset \notin [page : Int, pageSize : Int]
  /\ \A r \in Requests : r.pagination \in [page : Int, pageSize : Int] \cup {Unset}
  /\ \A r, s \in Requests :  \* isValidToolName looks at the name only
       GetToolName(r) = GetToolName(s) => r.wellFormed = s.wellFormed

\* The audit logger's levels (NewAuditLogger), and the ones that let the record
\* of a success through: LogOperation writes it at Info, a failure at Error.
Levels == {"debug", "info", "warn", "error"}
LevelsOfSuccess == {"debug", "info"}

\* The reasons of the API server that classifyError has a class for.
OwnPhrase == [NotFound |-> "not found", AlreadyExists |-> "already exists",
              Forbidden |-> "forbidden"]

(***************************************************************************)
(* A failure is the reason the API server gave (Other: any further one, or *)
(* none) and the phrases of its text.  A refusal that is about an object   *)
(* says so in the phrase of its reason; beside it the text may hold any    *)
(* other phrase: it quotes the object's name, and the refusal of an RBAC   *)
(* change names the role that was "not found".                             *)
(***************************************************************************)
ASSUME FailuresAssumption ==
  /\ LogLevels \subseteq Levels
  /\ \A f \in Failures :
       /\ f.reason \in DOMAIN OwnPhrase \cup {"Other"}
       /\ f.reason \in DOMAIN OwnPhrase => OwnPhrase[f.reason] \in f.phrases

VARIABLES
  level,     \* the level the audit logger was built with
  conn,      \* what serves each exchange: [at, gin]
  goro,      \* the goroutine timeoutMiddleware started for it
  writer,    \* gin.Context |-> exchange its writer was last bound to
  response,  \* what was written to each exchange, in order
  entries,   \* QueryCache.entries: key |-> the context its data was read from
  audit      \* audit records of each exchange's call, in order

vars == <<level, conn, goro, writer, response, entries, audit>>

\* The tools whose results are cached (CacheableTools).
CacheableTools == {"get_nodes", "get_namespaces", "get_pods", "get_deployments",
  "get_statefulsets", "get_daemonsets", "get_services", "get_configmaps",
  "get_secrets", "get_events", "describe_resource"}

\* toolCallResponseContext, and targetContext of HandleToolCall.
ResponseContext(req) == IF req.context # Unset THEN req.context ELSE Current

\* getContextAndNamespace and getClientSet: a tool knows its own argument only.
Route(req) == IF req.route # Unset THEN req.route ELSE Current

\* The page in the key: none where none is asked for.
KeyPage(req) == IF req.pagination = Unset THEN Unset ELSE NormalizePagination(req.pagination)

\* Mutant: the arguments are left out of the key.
KeyOfContext(req) == [tool |-> GetToolName(req), verbosity |-> req.verbosity,
  page |-> KeyPage(req), context |-> ResponseContext(req)]

\* toolCallCacheKey: tool, arguments (the context among them) with the
\* options, and response context.
CacheKey(req) == [tool |-> GetToolName(req), route |-> req.route, arguments |-> req.arguments,
  verbosity |-> req.verbosity, page |-> KeyPage(req), context |-> ResponseContext(req)]

Keys == {CacheKey(r) : r \in Requests}

\* Why a call has no result: nothing yet, a request or arguments that are
\* refused, a context that the tool does not find.
Why(reason, phrases) == [reason |-> reason, phrases |-> phrases]
NoFailure == Why("OK", {})
NoContext == Why("NoContext", {"not found"})

\* An answer: whose request it answers, its HTTP status, the context it
\* names, the context its data came from, and whether the cache had it.
Answer(e, status, named, from, hit) ==
  [of |-> e, status |-> status, named |-> named, from |-> from, hit |-> hit]

Record(req, ok) == [context |-> ResponseContext(req), ok |-> ok]

\* What LogOperation leaves of a record: zap drops what is below its level.
Logged(threshold, record) ==
  IF record.ok /\ threshold \notin LevelsOfSuccess THEN <<>> ELSE <<record>>

\* left: the client of its exchange went away while it ran.
NoGoroutine == [at |-> "gone", gin |-> None, req |-> None, answer |-> None,
                why |-> NoFailure, left |-> FALSE]

Init ==
  /\ level \in LogLevels
  /\ conn = [e \in Exchanges |-> [at |-> "closed", gin |-> None]]
  /\ goro = [e \in Exchanges |-> NoGoroutine]
  /\ writer = [g \in GinContexts |-> None]
  /\ response = [e \in Exchanges |-> <<>>]
  /\ entries = [k \in Keys |-> None]
  /\ audit = [e \in Exchanges |-> <<>>]

\* The contexts that are not serving an exchange.
Pool == GinContexts \ {conn[e].gin : e \in Exchanges}

(***************************************************************************)
(* The connection.                                                         *)
(***************************************************************************)

\* gin takes a context from its pool, binds it, and timeoutMiddleware starts
\* its goroutine.  The goroutine of the exchange's last request has ended.
Serve(e, req) ==
  /\ conn[e].at = "closed" /\ goro[e].at = "gone"
  /\ \E g \in Pool :
       /\ conn' = [conn EXCEPT ![e] = [at |-> "open", gin |-> g]]
       /\ goro' = [goro EXCEPT ![e] = [NoGoroutine EXCEPT !.at = "lookup", !.gin = g, !.req = req]]
       /\ writer' = [writer EXCEPT ![g] = e]
  /\ response' = [response EXCEPT ![e] = <<>>]
  /\ audit' = [audit EXCEPT ![e] = <<>>]
  /\ UNCHANGED <<level, entries>>

\* c.JSON through gin.Context g: nothing reaches an exchange that is closed.
Written(g, answer) ==
  LET e == writer[g]
  IN  IF conn[e].at = "closed" THEN response
      ELSE [response EXCEPT ![e] = Append(@, answer)]

\* Mutant: the context never goes back to the pool.
ReleasedNot(e) == [conn EXCEPT ![e].at = "closed"]

Released(e) == [conn EXCEPT ![e].at = "closed", ![e].gin = None]

\* Nothing is left of exchange e: what was written and recorded is dropped,
\* and so is the writer of its context, unless a goroutine still holds it.
Forgotten(e, g) ==
  /\ response' = [response EXCEPT ![e] = <<>>]
  /\ audit' = [audit EXCEPT ![e] = <<>>]
  /\ writer' = [writer EXCEPT ![g] =
                  IF \E x \in Exchanges : goro[x].gin = g THEN @ ELSE None]

\* Mutant: done is closed before the chain below has run.
FinishEarly(e) ==
  /\ conn[e].at = "open"
  /\ conn' = Released(e)
  /\ Forgotten(e, conn[e].gin)
  /\ UNCHANGED <<level, goro, entries>>

\* timeoutMiddleware saw done closed: the chain returns.
Finish(e) ==
  /\ conn[e].at = "open" /\ goro[e].at = "gone"
  /\ conn' = Released(e)
  /\ Forgotten(e, conn[e].gin)
  /\ UNCHANGED <<level, goro, entries>>

Abandoned == {e \in Exchanges : goro[e].at # "gone" /\ conn[e].at # "open"}

\* The deadline: the 504 is written, and then the chain returns.
Deadline(e) ==
  /\ conn[e].at = "open" /\ Cardinality(Abandoned) < MaxAbandoned
  /\ response' = Written(conn[e].gin,
                   Answer(e, 504, None, None, FALSE))
  /\ conn' = [conn EXCEPT ![e].at = "late"]
  /\ UNCHANGED <<level, goro, writer, entries, audit>>

\* The client is gone while the goroutine runs: nothing is written, nothing
\* aborted, and then the chain returns.  (Where it has ended, this is Finish.)
Disconnect(e) ==
  /\ conn[e].at = "open" /\ goro[e].at # "gone" /\ Cardinality(Abandoned) < MaxAbandoned
  /\ conn' = [conn EXCEPT ![e].at = "late"]
  /\ goro' = [goro EXCEPT ![e].left = TRUE]
  /\ UNCHANGED <<level, writer, response, entries, audit>>

\* The chain of a request that was given up returns, whatever its goroutine does.
FinishLate(e) ==
  /\ conn[e].at = "late"
  /\ conn' = Released(e)
  /\ IF goro[e].at = "gone" THEN Forgotten(e, conn[e].gin)
     ELSE UNCHANGED <<response, audit, writer>>
  /\ UNCHANGED <<level, goro, entries>>

-----------------------------------------------------------------------------
(* The goroutine: handleToolCall.                                          *)

Steps(e, from, to) ==
  /\ goro[e].at = from
  /\ goro' = [goro EXCEPT ![e] = to]
  /\ UNCHANGED <<level, conn, writer>>

\* The cache is asked before the request is validated.
Lookup(e) ==
  LET r == goro[e].req
      cacheable == GetToolName(r) \in CacheableTools
      found == cacheable /\ entries[CacheKey(r)] # None
  IN  /\ Steps(e, "lookup",
           IF found
           THEN [goro[e] EXCEPT !.at = "write",
                   !.answer = Answer(e, 200, ResponseContext(r), entries[CacheKey(r)], TRUE)]
           ELSE [goro[e] EXCEPT !.at = "handle"])
      /\ UNCHANGED <<response, entries, audit>>

\* ValidateRequest refused: HandleToolCall returns before the tool and its record.
Refuse(e) ==
  /\ goro[e].at = "handle"
  /\ ValidateRequest(goro[e].req) # "OK"
  /\ Steps(e, "handle", [goro[e] EXCEPT !.at = "write",
       !.answer = Answer(e, ValidationStatus, None, None, FALSE),
       !.why = Why(ValidateRequest(goro[e].req), {})])
  /\ UNCHANGED <<response, entries, audit>>

\* The registry refuses the arguments: a failure of the tool, with a record.
RefuseArguments(e) ==
  LET r == goro[e].req
  IN  /\ goro[e].at = "handle"
      /\ ValidateRequest(r) = "OK"
      /\ ~ValidateArgs(Registry[GetToolName(r)], r.arguments)
      /\ Steps(e, "handle", [goro[e] EXCEPT !.at = "write",
           !.answer = Answer(e, ErrorStatus({"argument"}), ResponseContext(r), None, FALSE),
           !.why = Why("Arguments", {"argument"})])
      /\ audit' = [audit EXCEPT ![e] = @ \o Logged(level, Record(r, FALSE))]
      /\ UNCHANGED <<response, entries>>

Runs(r) ==
  /\ ValidateRequest(r) = "OK"
  /\ ValidateArgs(Registry[GetToolName(r)], r.arguments)

\* The tool fails: its own context is unknown, or the API server refuses.
Fail(e) ==
  LET r == goro[e].req
  IN  /\ goro[e].at = "handle" /\ Runs(r)
      /\ \E f \in IF Route(r) \in Contexts THEN Failures ELSE {NoContext} :
           Steps(e, "handle", [goro[e] EXCEPT !.at = "write",
             !.answer = Answer(e, ErrorStatus(f.phrases), ResponseContext(r), None, FALSE),
             !.why = f])
      /\ audit' = [audit EXCEPT ![e] = @ \o Logged(level, Record(r, FALSE))]
      /\ UNCHANGED <<response, entries>>

\* Mutant: a query is not worth a record.
ExecuteUnrecorded(e) ==
  LET r == goro[e].req
  IN  /\ goro[e].at = "handle" /\ Runs(r) /\ Route(r) \in Contexts
      /\ Steps(e, "handle", [goro[e] EXCEPT !.at = "store",
           !.answer = Answer(e, 200, ResponseContext(r), Route(r), FALSE)])
      /\ audit' = IF GetToolName(r) \in CacheableTools THEN audit
                  ELSE [audit EXCEPT ![e] = @ \o Logged(level, Record(r, TRUE))]
      /\ UNCHANGED <<response, entries>>

\* The tool runs, on the cluster of its own argument, and is recorded.
Execute(e) ==
  LET r == goro[e].req
  IN  /\ goro[e].at = "handle" /\ Runs(r) /\ Route(r) \in Contexts
      /\ Steps(e, "handle", [goro[e] EXCEPT !.at = "store",
           !.answer = Answer(e, 200, ResponseContext(r), Route(r), FALSE)])
      /\ audit' = [audit EXCEPT ![e] = @ \o Logged(level, Record(r, TRUE))]
      /\ UNCHANGED <<response, entries>>

\* Only the data is stored, not the envelope (newCachedToolCallResult).
Store(e) ==
  LET r == goro[e].req
  IN  /\ Steps(e, "store", [goro[e] EXCEPT !.at = "write"])
      /\ entries' = IF GetToolName(r) \in CacheableTools
                    THEN [entries EXCEPT ![CacheKey(r)] = goro[e].answer.from]
                    ELSE entries
      /\ UNCHANGED <<response, audit>>

\* c.JSON, on the context the goroutine has had since it started.
Write(e) ==
  LET left == conn[e].at = "closed"
      written == Written(goro[e].gin, goro[e].answer)
  IN  /\ Steps(e, "write", NoGoroutine)
      /\ response' = IF left THEN [written EXCEPT ![e] = <<>>] ELSE written
      /\ audit' = IF left THEN [audit EXCEPT ![e] = <<>>] ELSE audit
      /\ UNCHANGED entries

\* Expiry, eviction or invalidation of an entry.
Vanish(k) ==
  /\ entries[k] # None
  /\ entries' = [entries EXCEPT ![k] = None]
  /\ UNCHANGED <<level, conn, goro, writer, response, audit>>

Next ==
  \/ \E e \in Exchanges :
       \/ \E r \in Requests : Serve(e, r)
       \/ Finish(e) \/ Deadline(e) \/ Disconnect(e) \/ FinishLate(e)
       \/ Lookup(e) \/ Refuse(e) \/ RefuseArguments(e) \/ Fail(e)
       \/ Execute(e) \/ Store(e) \/ Write(e)
  \/ \E k \in Keys : Vanish(k)

Spec == Init /\ [][Next]_vars

Symmetry == Permutations(Exchanges) \cup Permutations(GinContexts)

-----------------------------------------------------------------------------
(* Properties.                                                             *)

Answers ==
  [of : Exchanges, status : {200, 400, 403, 404, 409, 500, 502, 504},
   named : Contexts \cup {None}, from : Contexts \cup {None}, hit : BOOLEAN]

Reasons ==
  {NoFailure, NoContext, Why("Arguments", {"argument"})} \cup Failures \cup
  {Why(code, {}) : code \in {"INVALID_TOOL_NAME", "TOOL_NOT_FOUND", "CONTEXT_NOT_FOUND", "INVALID_ARGUMENTS"}}

\* The variables have their types, and an exchange is closed exactly when no
\* gin.Context serves it.
TypeOK ==
  /\ level \in LogLevels
  /\ conn \in [Exchanges -> [at : {"open", "late", "closed"},
                gin : GinContexts \cup {None}]]
  /\ \A e \in Exchanges : conn[e].at = "closed" <=> conn[e].gin = None
  /\ goro \in [Exchanges -> [at : {"lookup", "handle", "store", "write", "gone"},
                gin : GinContexts \cup {None}, req : Requests \cup {None},
                answer : Answers \cup {None}, why : Reasons, left : BOOLEAN]]
  /\ writer \in [GinContexts -> Exchanges \cup {None}]
  /\ response \in [Exchanges -> Seq(Answers)]
  /\ entries \in [Keys -> Contexts \cup {None}]
  /\ audit \in [Exchanges -> Seq([context : Contexts, ok : BOOLEAN])]

\* The cache is asked before the request is validated and before the tool
\* chooses its cluster (http.go:266): what it answers must be what executing
\* this very request would have read, and only for a request that would have
\* been accepted.  Requests with a page size the validation refuses are
\* excepted: their key is that of the size they are cut down to.
HitsAsExecuted ==
  \A e \in Exchanges :
    LET r == goro[e].req
    IN  (/\ goro[e].at = "write" /\ goro[e].answer.hit
         /\ \/ r.pagination = Unset
            \/ r.pagination = NormalizePagination(r.pagination))
        => goro[e].answer.from = Route(r) /\ Runs(r)

\* The status of a refusal of the API server, as far as its text leaves it.
Fits(why, status) ==
  /\ why.reason = "NotFound" => status = 404
  /\ why.reason = "AlreadyExists" /\ "not found" \notin why.phrases => status = 409
  /\ why.reason = "Forbidden" /\ {"not found", "already exists"} \cap why.phrases = {}
       => status = 403

\* An object's name may hold a phrase classifyError looks for (protocol.go:496).
\* A refusal of the API server still gets the status of its own reason, as far
\* as the code gives it: a phrase that is looked for earlier wins, so that a
\* Forbidden that says of a role that it is "not found" is answered with 404.
StatusTellsReason ==
  \A e \in Exchanges : goro[e].at = "write" => Fits(goro[e].why, goro[e].answer.status)

\* Whoever reads an answer that a tool's run gave finds in the log what its
\* level lets through of that call: one record with the same outcome and the
\* same context (protocol.go:104), and none of a success at warn or error.
AuditMatchesAnswer ==
  \A e \in Exchanges : \A i \in DOMAIN response[e] :
    LET a == response[e][i]
    IN  a.of = e /\ a.named # None /\ ~a.hit
        => audit[e] = Logged(level, [context |-> a.named, ok |-> a.status = 200])

\* The 504 of the exchange's own deadline.
Expired(e) == Answer(e, 504, None, None, FALSE)

\* timeoutMiddleware lets the chain return only when its goroutine has ended,
\* its 504 has been written or its client has gone: no goroutine writes to
\* another exchange unless one of the last two was before (http.go:514).
OnlyAbandonedGoAstray ==
  [][\A e \in Exchanges : \A x \in Exchanges \ {e} :
       (response'[x] # response[x] /\ Len(response'[x]) > 0
          /\ Last(response'[x]).of = e)
       => goro[e].left \/ \E i \in DOMAIN response[e] : response[e][i] = Expired(e)]_vars

\* The context an answer names is the one its data came from: mcp/types.go:83
\* says of the field "the K8S context used".
RunsWhereAnswered ==
  \A e \in Exchanges : \A i \in DOMAIN response[e] :
    response[e][i].status = 200 => response[e][i].from = response[e][i].named

\* A request gets one answer, and its own: test/http_server_test.go:151 wants
\* the requestId of the response to be that of its request.
OneOwnAnswer ==
  \A e \in Exchanges : Len(response[e]) <= 1 /\
    \A i \in DOMAIN response[e] : response[e][i].of = e
-----------------------------------------------------------------------------
(* The inductive form of the properties above.                             *)

\* A goroutine has a request and holds a context that is bound to an exchange;
\* an exchange that is served has the context bound to it; and until the chain
\* has returned, that is the same context.
Bound ==
  \A e \in Exchanges :
    /\ goro[e].at = "gone" => goro[e] = NoGoroutine
    /\ goro[e].at # "gone" =>
         /\ goro[e].req \in Requests /\ goro[e].gin \in GinContexts
         /\ writer[goro[e].gin] \in Exchanges
    /\ conn[e].at # "closed" => conn[e].gin \in GinContexts /\ writer[conn[e].gin] = e
    /\ conn[e].at # "closed" /\ goro[e].at # "gone" => goro[e].gin = conn[e].gin

\* A chain that returned before its goroutine, or is about to, had its 504
\* written or its client gone.
Overdue ==
  \A e \in Exchanges :
    (conn[e].at \in {"late", "closed"} /\ goro[e].at # "gone")
    => goro[e].left \/ \E i \in DOMAIN response[e] : response[e][i] = Expired(e)

\* An entry holds what executing some request with its key has read.
EntriesExecuted ==
  \A k \in Keys : entries[k] # None =>
    \E r \in Requests :
      CacheKey(r) = k /\ Runs(r) /\ Route(r) \in Contexts /\ entries[k] = Route(r)

\* What a goroutine has at each of its steps.
InHand ==
  \A e \in Exchanges :
    LET g == goro[e]
    IN  /\ g.at \in {"lookup", "handle"} => audit[e] = <<>> /\ g.why = NoFailure
        /\ g.at = "store" =>
             /\ g.answer = Answer(e, 200, ResponseContext(g.req), Route(g.req), FALSE)
             /\ g.why = NoFailure /\ Runs(g.req) /\ Route(g.req) \in Contexts
             /\ audit[e] = Logged(level, Record(g.req, TRUE))
        /\ g.at = "write" =>
             /\ g.answer \in Answers /\ g.answer.of = e
             /\ g.answer.named # None /\ ~g.answer.hit =>
                  audit[e] = Logged(level, [context |-> g.answer.named, ok |-> g.answer.status = 200])

\* While a goroutine runs it has written nothing but perhaps its 504.
NothingYet ==
  \A e \in Exchanges : goro[e].at # "gone" =>
    \A i \in DOMAIN response[e] : response[e][i].of = e => response[e][i].named = None

IInv ==
  /\ TypeOK /\ Bound /\ Overdue /\ EntriesExecuted /\ InHand /\ NothingYet
  /\ HitsAsExecuted /\ StatusTellsReason /\ AuditMatchesAnswer
=============================================================================
