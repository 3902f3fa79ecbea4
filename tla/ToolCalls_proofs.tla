---------------------------- MODULE ToolCalls_proofs ----------------------------
(***************************************************************************)
(* The answers to tool calls, proved for any exchanges, contexts, tools    *)
(* and requests.  The inductive invariant is IInv of ToolCalls.            *)
(***************************************************************************)
EXTENDS ToolCalls, TLAPS

-----------------------------------------------------------------------------
(* Validation and error classes.                                           *)

\* A non-empty set of the first numbers has a least element.
LEMMA LeastOf ==
  ASSUME NEW I \in SUBSET (1 .. 7), I # {}
  PROVE  Min(I) \in I /\ \A i \in I : Min(I) <= i
<1>1. \E m \in I : \A i \in I : m <= i
  <2>1. CASE 1 \in I
    BY <2>1
  <2>2. CASE 1 \notin I /\ 2 \in I
    BY <2>2
  <2>3. CASE 1 \notin I /\ 2 \notin I /\ 3 \in I
    BY <2>3
  <2>4. CASE 1 \notin I /\ 2 \notin I /\ 3 \notin I /\ 4 \in I
    BY <2>4
  <2>5. CASE 1 \notin I /\ 2 \notin I /\ 3 \notin I /\ 4 \notin I /\ 5 \in I
    BY <2>5
  <2>6. CASE I \subseteq {6, 7} /\ 6 \in I
    BY <2>6
  <2>7. CASE I = {7}
    BY <2>7
  <2>8. I \subseteq {1, 2, 3, 4, 5, 6, 7}
    OBVIOUS
  <2> QED
    BY <2>1, <2>2, <2>3, <2>4, <2>5, <2>6, <2>7, <2>8
<1> QED
  BY <1>1 DEF Min

\* classifyError takes the first class one of whose phrases occurs.
LEMMA ClassOf ==
  ASSUME NEW phrases, NEW k \in 1 .. 7, ErrorClasses[k].any \cap phrases # {},
         \A i \in 1 .. 7 : i < k => ErrorClasses[i].any \cap phrases = {}
  PROVE  ClassifyError(phrases) = ErrorClasses[k]
<1> DEFINE I == {i \in 1 .. Len(ErrorClasses) : ErrorClasses[i].any \cap phrases # {}}
<1>1. Len(ErrorClasses) = 7
  BY DEF ErrorClasses
<1>2. I \in SUBSET (1 .. 7) /\ k \in I /\ \A i \in I : k <= i
  BY <1>1
<1>3. ClassifyError(phrases) = LET i == IF I # {} THEN Min(I) ELSE 0
        IN  IF i = 0 THEN [any |-> {}, type |-> "SERVER", code |-> "INTERNAL_ERROR"]
            ELSE ErrorClasses[i]
  BY DEF ClassifyError, SelectInSeq
<1> HIDE DEF I
<1>4. Min(I) \in I /\ Min(I) <= k
  BY <1>2, LeastOf
<1>5. Min(I) = k
  <2>1. Min(I) \in 1 .. 7
    BY <1>2, <1>4
  <2>2. k <= Min(I)
    BY <1>2, <1>4
  <2> QED
    BY <2>1, <2>2, <1>4
<1> QED
  BY <1>2, <1>3, <1>5

\* The phrases of each class.
LEMMA Phrases ==
  /\ ErrorClasses[1].any = {"not found"} /\ ErrorClasses[2].any = {"already exists"}
  /\ ErrorClasses[3].any = {"forbidden"} /\ ErrorClasses[4].any = {"unauthorized"}
  /\ ErrorClasses[5].any = {"timeout"} /\ ErrorClasses[6].any = {"connection refused"}
  /\ ErrorClasses[7].any = {"argument"}
BY DEF ErrorClasses

LEMMA ClassTypes ==
  /\ ErrorClasses[1].type = "NOT_FOUND" /\ ErrorClasses[2].type = "CONFLICT"
  /\ ErrorClasses[3].type = "AUTH" /\ ErrorClasses[3].code = "PERMISSION_DENIED"
  /\ \A i \in 1 .. 7 :
       /\ ErrorClasses[i].type \in {"NOT_FOUND", "CONFLICT", "AUTH", "TIMEOUT", "NETWORK", "CLIENT"}
       /\ ErrorClasses[i].code # "UNAUTHORIZED"
<1>1. /\ ErrorClasses[1].type = "NOT_FOUND" /\ ErrorClasses[2].type = "CONFLICT"
      /\ ErrorClasses[3].type = "AUTH" /\ ErrorClasses[4].type = "AUTH"
      /\ ErrorClasses[5].type = "TIMEOUT" /\ ErrorClasses[6].type = "NETWORK"
      /\ ErrorClasses[7].type = "CLIENT"
  BY DEF ErrorClasses
<1>2. /\ ErrorClasses[1].code = "RESOURCE_NOT_FOUND" /\ ErrorClasses[2].code = "RESOURCE_ALREADY_EXISTS"
      /\ ErrorClasses[3].code = "PERMISSION_DENIED" /\ ErrorClasses[4].code = "AUTH_FAILED"
      /\ ErrorClasses[5].code = "CONNECTION_TIMEOUT" /\ ErrorClasses[6].code = "CLUSTER_UNREACHABLE"
      /\ ErrorClasses[7].code = "INVALID_ARGUMENTS"
  BY DEF ErrorClasses
<1>3. \A i \in 1 .. 7 : i = 1 \/ i = 2 \/ i = 3 \/ i = 4 \/ i = 5 \/ i = 6 \/ i = 7
  OBVIOUS
<1> QED
  BY <1>1, <1>2, <1>3

LEMMA StatusOf ==
  ASSUME NEW phrases, NEW class, ClassifyError(phrases) = class
  PROVE  ErrorStatus(phrases) = HTTPStatus(class.type, class.code)
BY DEF ErrorStatus

\* getHTTPStatusFromError over classifyError: the phrase that is looked for
\* first decides.
LEMMA Statuses ==
  ASSUME NEW phrases
  PROVE  /\ "not found" \in phrases => ErrorStatus(phrases) = 404
         /\ "already exists" \in phrases /\ "not found" \notin phrases => ErrorStatus(phrases) = 409
         /\ "forbidden" \in phrases /\ "not found" \notin phrases /\ "already exists" \notin phrases
              => ErrorStatus(phrases) = 403
<1>0. /\ \A code : HTTPStatus("NOT_FOUND", code) = 404
      /\ \A code : HTTPStatus("CONFLICT", code) = 409
      /\ HTTPStatus("AUTH", "PERMISSION_DENIED") = 403
  BY DEF HTTPStatus
<1>1. ASSUME "not found" \in phrases PROVE ErrorStatus(phrases) = 404
  <2>1. ErrorClasses[1].any \cap phrases # {}
    BY <1>1, Phrases
  <2>2. \A i \in 1 .. 7 : i < 1 => FALSE
    OBVIOUS
  <2>3. ClassifyError(phrases) = ErrorClasses[1]
    BY <2>1, <2>2, ClassOf
  <2> QED
    BY <2>3, <1>0, StatusOf, ClassTypes
<1>2. ASSUME "already exists" \in phrases, "not found" \notin phrases PROVE ErrorStatus(phrases) = 409
  <2>1. ErrorClasses[2].any \cap phrases # {} /\ ErrorClasses[1].any \cap phrases = {}
    <3>1. {"already exists"} \cap phrases # {} /\ {"not found"} \cap phrases = {}
      BY <1>2
    <3>2. ErrorClasses[2].any = {"already exists"} /\ ErrorClasses[1].any = {"not found"}
      BY Phrases
    <3> QED
      BY <3>1, <3>2
  <2>2. \A i \in 1 .. 7 : i < 2 => i = 1
    OBVIOUS
  <2>3. ClassifyError(phrases) = ErrorClasses[2]
    BY <2>1, <2>2, ClassOf
  <2> QED
    BY <2>3, <1>0, StatusOf, ClassTypes
<1>3. ASSUME "forbidden" \in phrases, "not found" \notin phrases, "already exists" \notin phrases
      PROVE  ErrorStatus(phrases) = 403
  <2>1. /\ ErrorClasses[3].any \cap phrases # {}
        /\ ErrorClasses[1].any \cap phrases = {} /\ ErrorClasses[2].any \cap phrases = {}
    <3>1. /\ {"forbidden"} \cap phrases # {}
          /\ {"not found"} \cap phrases = {} /\ {"already exists"} \cap phrases = {}
      BY <1>3
    <3>2. /\ ErrorClasses[3].any = {"forbidden"}
          /\ ErrorClasses[1].any = {"not found"} /\ ErrorClasses[2].any = {"already exists"}
      BY Phrases
    <3> QED
      BY <3>1, <3>2
  <2>2. \A i \in 1 .. 7 : i < 3 => i = 1 \/ i = 2
    OBVIOUS
  <2>3. ClassifyError(phrases) = ErrorClasses[3]
    BY <2>1, <2>2, ClassOf
  <2> QED
    BY <2>3, <1>0, StatusOf, ClassTypes
<1> QED
  BY <1>1, <1>2, <1>3

\* What a failed call is answered with.
Refusals == {400, 403, 404, 409, 500, 502, 504}

\* Whatever a text says, it is a failure that is answered.
LEMMA StatusRefuses == ASSUME NEW phrases PROVE ErrorStatus(phrases) \in Refusals
<1> DEFINE I == {i \in 1 .. Len(ErrorClasses) : ErrorClasses[i].any \cap phrases # {}}
           class == ClassifyError(phrases)
<1>1. Len(ErrorClasses) = 7
  BY DEF ErrorClasses
<1>2. class = LET i == IF I # {} THEN Min(I) ELSE 0
        IN  IF i = 0 THEN [any |-> {}, type |-> "SERVER", code |-> "INTERNAL_ERROR"]
            ELSE ErrorClasses[i]
  BY DEF ClassifyError, SelectInSeq
<1>3. class.type \in {"SERVER", "NOT_FOUND", "CONFLICT", "AUTH", "TIMEOUT", "NETWORK", "CLIENT"}
  <2>1. CASE I = {}
    BY <2>1, <1>2
  <2>2. CASE I # {}
    <3>1. I \in SUBSET (1 .. 7)
      BY <1>1
    <3> HIDE DEF I
    <3>2. Min(I) \in 1 .. 7
      BY <2>2, <3>1, LeastOf
    <3>3. class = ErrorClasses[Min(I)]
      BY <2>2, <3>2, <1>2
    <3> QED
      BY <3>2, <3>3, ClassTypes
  <2> QED
    BY <2>1, <2>2
<1>4. \A code : class.code = code /\ code = "UNAUTHORIZED" => FALSE
  <2>1. CASE I = {}
    BY <2>1, <1>2
  <2>2. CASE I # {}
    <3>1. I \in SUBSET (1 .. 7)
      BY <1>1
    <3> HIDE DEF I
    <3>2. Min(I) \in 1 .. 7
      BY <2>2, <3>1, LeastOf
    <3>3. class = ErrorClasses[Min(I)]
      BY <2>2, <3>2, <1>2
    <3> QED
      BY <3>2, <3>3, ClassTypes
  <2> QED
    BY <2>1, <2>2
<1>5. ErrorStatus(phrases) = HTTPStatus(class.type, class.code)
  BY DEF ErrorStatus
<1> HIDE DEF class
<1> QED
  BY <1>3, <1>4, <1>5 DEF HTTPStatus, Refusals

\* What ValidateRequest accepts, whatever the order of its checks.
Codes == {"OK", "INVALID_TOOL_NAME", "TOOL_NOT_FOUND", "CONTEXT_NOT_FOUND", "INVALID_ARGUMENTS"}

Accepted(r) ==
  /\ GetToolName(r) # Unset /\ r.wellFormed /\ GetToolName(r) \in DOMAIN Registry
  /\ r.context = Unset \/ r.context \in Contexts
  /\ r.verbosity \in Verbosities \cup {Unset}
  /\ r.pagination # Unset =>
       ~(r.pagination.page < 0) /\ ~(r.pagination.pageSize < 0) /\ ~(r.pagination.pageSize > MaxPageSize)

LEMMA ValidateIsAccepted ==
  ASSUME NEW r
  PROVE  /\ ValidateRequest(r) \in Codes
         /\ ValidateRequest(r) = "OK" <=> Accepted(r)
BY DEF ValidateRequest, Codes, Accepted

\* A page that is normalised as it is passes the validation.
LEMMA PageAccepted ==
  ASSUME NEW p \in [page : Int, pageSize : Int], p = NormalizePagination(p), Unset # p
  PROVE  ~(p.page < 0) /\ ~(p.pageSize < 0) /\ ~(p.pageSize > MaxPageSize)
<1>1. p.page = NormalizePagination(p).page /\ p.pageSize = NormalizePagination(p).pageSize
  OBVIOUS
<1>2. /\ NormalizePagination(p).page = IF p.page < 1 THEN 1 ELSE p.page
      /\ NormalizePagination(p).pageSize =
           IF p.pageSize < 1 THEN DefaultPageSize
           ELSE IF p.pageSize > MaxPageSize THEN MaxPageSize ELSE p.pageSize
  BY DEF NormalizePagination
<1> QED
  BY <1>1, <1>2 DEF MaxPageSize, DefaultPageSize

\* Two requests with one key run alike: the key has what the validation, the
\* registry and the choice of the cluster look at.
LEMMA SameKeyRuns ==
  ASSUME NEW r \in Requests, NEW s \in Requests, CacheKey(r) = CacheKey(s), Runs(s),
         r.pagination = Unset \/ r.pagination = NormalizePagination(r.pagination)
  PROVE  Runs(r) /\ Route(r) = Route(s)
<1>1. /\ GetToolName(r) = GetToolName(s) /\ r.route = s.route /\ r.arguments = s.arguments
      /\ r.verbosity = s.verbosity /\ ResponseContext(r) = ResponseContext(s)
  BY DEF CacheKey
<1>2. Accepted(s)
  BY ValidateIsAccepted DEF Runs
<1>3. r.wellFormed
  BY <1>1, <1>2, CallsAssumption DEF CallsAssumption, Accepted
<1>4. r.context = Unset \/ r.context \in Contexts
  BY <1>1, <1>2, CallsAssumption DEF CallsAssumption, Accepted, ResponseContext
<1>5. r.pagination # Unset =>
       ~(r.pagination.page < 0) /\ ~(r.pagination.pageSize < 0) /\ ~(r.pagination.pageSize > MaxPageSize)
  BY PageAccepted, CallsAssumption DEF CallsAssumption
<1>6. Accepted(r)
  BY <1>1, <1>2, <1>3, <1>4, <1>5 DEF Accepted
<1>7. ValidateRequest(r) = "OK"
  BY <1>6, ValidateIsAccepted
<1> QED
  BY <1>1, <1>7 DEF Runs, Route

\* The context that is answered is one of the kubeconfig once the request is valid.
LEMMA AcceptedContext ==
  ASSUME NEW r \in Requests, ValidateRequest(r) = "OK" PROVE ResponseContext(r) \in Contexts
BY ValidateIsAccepted, CallsAssumption DEF CallsAssumption, Accepted, ResponseContext

-----------------------------------------------------------------------------
(* The initial state and the steps.                                        *)

\* A refusal says its reason.
LEMMA OwnPhrases ==
  ASSUME NEW f \in Failures
  PROVE  /\ f.reason = "NotFound" => "not found" \in f.phrases
         /\ f.reason = "AlreadyExists" => "already exists" \in f.phrases
         /\ f.reason = "Forbidden" => "forbidden" \in f.phrases
<1>1. /\ DOMAIN OwnPhrase = {"NotFound", "AlreadyExists", "Forbidden"}
      /\ OwnPhrase["NotFound"] = "not found" /\ OwnPhrase["AlreadyExists"] = "already exists"
      /\ OwnPhrase["Forbidden"] = "forbidden"
  BY DEF OwnPhrase
<1>2. f.reason \in DOMAIN OwnPhrase => OwnPhrase[f.reason] \in f.phrases
  BY FailuresAssumption DEF FailuresAssumption
<1> QED
  BY <1>1, <1>2

\* No failure, and one that no class is of, ask for no status.
LEMMA NothingToFit ==
  ASSUME NEW why, NEW status, why.reason \notin {"NotFound", "AlreadyExists", "Forbidden"}
  PROVE  Fits(why, status)
BY DEF Fits

LEMMA NoFailureFits == \A status : Fits(NoFailure, status)
BY NothingToFit DEF NoFailure, Why

LEMMA InitInv == Init => IInv
<1> SUFFICES ASSUME Init PROVE IInv
  OBVIOUS
<1>1. \A e \in Exchanges : /\ conn[e] = [at |-> "closed", gin |-> None] /\ goro[e] = NoGoroutine
                           /\ response[e] = <<>> /\ audit[e] = <<>>
  BY DEF Init
<1>2. TypeOK
  <2>1. conn \in [Exchanges -> [at : {"open", "late", "closed"}, gin : GinContexts \cup {None}]]
    BY DEF Init
  <2>2. goro \in [Exchanges -> [at : {"lookup", "handle", "store", "write", "gone"},
                gin : GinContexts \cup {None}, req : Requests \cup {None},
                answer : Answers \cup {None}, why : Reasons, left : BOOLEAN]]
    <3>1. NoGoroutine \in [at : {"lookup", "handle", "store", "write", "gone"},
            gin : GinContexts \cup {None}, req : Requests \cup {None},
            answer : Answers \cup {None}, why : Reasons, left : BOOLEAN]
      BY DEF NoGoroutine, Reasons
    <3> QED
      BY <3>1 DEF Init
  <2>3. /\ response \in [Exchanges -> Seq(Answers)]
        /\ audit \in [Exchanges -> Seq([context : Contexts, ok : BOOLEAN])]
        /\ writer \in [GinContexts -> Exchanges \cup {None}]
        /\ entries \in [Keys -> Contexts \cup {None}] /\ level \in LogLevels
    BY DEF Init
  <2> QED
    BY <1>1, <2>1, <2>2, <2>3 DEF TypeOK
<1>a. \A e \in Exchanges : conn[e].at = "closed" /\ goro[e].at = "gone"
  BY <1>1 DEF NoGoroutine
<1>3. Bound /\ Overdue /\ InHand /\ NothingYet /\ HitsAsExecuted /\ StatusTellsReason
  BY <1>1, <1>a DEF Bound, Overdue, InHand, NothingYet, HitsAsExecuted, StatusTellsReason
<1>4. EntriesExecuted
  BY DEF Init, EntriesExecuted
<1>5. AuditMatchesAnswer
  BY <1>1 DEF AuditMatchesAnswer
<1> QED
  BY <1>2, <1>3, <1>4, <1>5 DEF IInv

\* The records of TypeOK.
Goros == [at : {"lookup", "handle", "store", "write", "gone"},
          gin : GinContexts \cup {None}, req : Requests \cup {None},
          answer : Answers \cup {None}, why : Reasons, left : BOOLEAN]
Records == [context : Contexts, ok : BOOLEAN]

\* The records of a call are what the level leaves of one that says what
\* answer a says.
Tells(recorded, a) == recorded = Logged(level, [context |-> a.named, ok |-> a.status = 200])

\* InHand, HitsAsExecuted and StatusTellsReason of one goroutine.
HandOf(e, g, recorded) ==
  /\ g.at \in {"lookup", "handle"} => recorded = <<>> /\ g.why = NoFailure
  /\ g.at = "store" =>
       /\ g.answer = Answer(e, 200, ResponseContext(g.req), Route(g.req), FALSE)
       /\ g.why = NoFailure /\ Runs(g.req) /\ Route(g.req) \in Contexts
       /\ recorded = Logged(level, Record(g.req, TRUE))
  /\ g.at = "write" =>
       /\ g.answer \in Answers /\ g.answer.of = e
       /\ g.answer.named # None /\ ~g.answer.hit => Tells(recorded, g.answer)

HitOf(g) ==
  (/\ g.at = "write" /\ g.answer.hit
   /\ \/ g.req.pagination = Unset
      \/ g.req.pagination = NormalizePagination(g.req.pagination))
  => g.answer.from = Route(g.req) /\ Runs(g.req)

ReasonOf(g) == g.at = "write" => Fits(g.why, g.answer.status)

LEMMA OneByOne ==
  /\ InHand <=> \A e \in Exchanges : HandOf(e, goro[e], audit[e])
  /\ HitsAsExecuted <=> \A e \in Exchanges : HitOf(goro[e])
  /\ StatusTellsReason <=> \A e \in Exchanges : ReasonOf(goro[e])
<1>1. InHand <=> \A e \in Exchanges : HandOf(e, goro[e], audit[e])
  BY DEF InHand, HandOf, Tells
<1>2. HitsAsExecuted <=> \A e \in Exchanges : HitOf(goro[e])
  BY DEF HitsAsExecuted, HitOf
<1>3. StatusTellsReason <=> \A e \in Exchanges : ReasonOf(goro[e])
  BY DEF StatusTellsReason, ReasonOf
<1> QED
  BY <1>1, <1>2, <1>3

\* The same, after a step.
LEMMA OneByOneNext ==
  ASSUME UNCHANGED level,
         \A e \in Exchanges : HandOf(e, goro'[e], audit'[e]) /\ HitOf(goro'[e]) /\ ReasonOf(goro'[e])
  PROVE  InHand' /\ HitsAsExecuted' /\ StatusTellsReason'
<1>1. InHand'
  BY DEF InHand, HandOf, Tells
<1>2. HitsAsExecuted'
  BY DEF HitsAsExecuted, HitOf
<1>3. StatusTellsReason'
  BY DEF StatusTellsReason, ReasonOf
<1> QED
  BY <1>1, <1>2, <1>3

\* A goroutine goes on, with its request and its context: nothing is written.
LEMMA GoesOn ==
  ASSUME IInv, NEW e \in Exchanges, goro[e].at # "gone",
         NEW new \in Goros, goro' = [goro EXCEPT ![e] = new],
         new.at # "gone", new.gin = goro[e].gin, new.req = goro[e].req, new.left = goro[e].left,
         UNCHANGED <<level, conn, writer, response>>,
         NEW recorded \in Seq(Records), audit' = [audit EXCEPT ![e] = recorded],
         entries' \in [Keys -> Contexts \cup {None}], EntriesExecuted',
         HandOf(e, new, recorded), HitOf(new), ReasonOf(new)
  PROVE  IInv'
<1>0. /\ TypeOK /\ Bound /\ Overdue /\ NothingYet /\ AuditMatchesAnswer
      /\ goro \in [Exchanges -> Goros] /\ audit \in [Exchanges -> Seq(Records)]
  BY DEF IInv, TypeOK, Goros, Records
<1>1. /\ goro'[e] = new /\ audit'[e] = recorded
      /\ \A x \in Exchanges \ {e} : goro'[x] = goro[x] /\ audit'[x] = audit[x]
  BY <1>0
<1>2. TypeOK'
  <2>1. goro' \in [Exchanges -> Goros] /\ audit' \in [Exchanges -> Seq(Records)]
    BY <1>0
  <2> QED
    BY <1>0, <2>1 DEF TypeOK, Goros, Records
<1>3. Bound'
  BY <1>0, <1>1 DEF Bound
<1>4. Overdue'
  BY <1>0, <1>1 DEF Overdue
<1>5. NothingYet'
  BY <1>0, <1>1 DEF NothingYet
<1>6. AuditMatchesAnswer'
  <2> SUFFICES ASSUME NEW x \in Exchanges, NEW i \in DOMAIN response[x], response[x][i].of = x,
                      response[x][i].named # None, ~response[x][i].hit
      PROVE  audit'[x] = Logged(level, [context |-> response[x][i].named, ok |-> response[x][i].status = 200])
    BY DEF AuditMatchesAnswer
  <2>1. CASE x = e
    BY <2>1, <1>0 DEF NothingYet
  <2>2. CASE x # e
    BY <2>2, <1>0, <1>1 DEF AuditMatchesAnswer
  <2> QED
    BY <2>1, <2>2
<1>7. InHand' /\ HitsAsExecuted' /\ StatusTellsReason'
  <2>1. \A x \in Exchanges : HandOf(x, goro[x], audit[x]) /\ HitOf(goro[x]) /\ ReasonOf(goro[x])
    BY OneByOne DEF IInv
  <2>2. \A x \in Exchanges : HandOf(x, goro'[x], audit'[x]) /\ HitOf(goro'[x]) /\ ReasonOf(goro'[x])
    BY <1>1, <2>1
  <2> QED
    BY <2>2, OneByOneNext
<1> QED
  BY <1>2, <1>3, <1>4, <1>5, <1>6, <1>7 DEF IInv

\* What is known of a goroutine before it goes on.
LEMMA Before ==
  ASSUME IInv, NEW e \in Exchanges, goro[e].at # "gone"
  PROVE  /\ goro[e] \in Goros /\ goro[e].req \in Requests
         /\ audit[e] \in Seq(Records)
         /\ audit' = audit => audit' = [audit EXCEPT ![e] = audit[e]]
         /\ HandOf(e, goro[e], audit[e])
         /\ entries \in [Keys -> Contexts \cup {None}]
<1>1. goro[e] \in Goros /\ audit[e] \in Seq(Records) /\ entries \in [Keys -> Contexts \cup {None}]
  BY DEF IInv, TypeOK, Goros, Records
<1>2. goro[e].req \in Requests
  BY DEF IInv, Bound
<1>3. HandOf(e, goro[e], audit[e])
  BY OneByOne DEF IInv
<1>4. audit' = audit => audit' = [audit EXCEPT ![e] = audit[e]]
  BY DEF IInv, TypeOK
<1> QED
  BY <1>1, <1>2, <1>3, <1>4

\* The entries stay what they are.
LEMMA EntriesStay == ASSUME EntriesExecuted, UNCHANGED entries PROVE EntriesExecuted'
BY DEF EntriesExecuted

\* handleToolCall finds its key in the cache.
LEMMA HitKeeps ==
  ASSUME IInv, NEW e \in Exchanges, Lookup(e),
         GetToolName(goro[e].req) \in CacheableTools, entries[CacheKey(goro[e].req)] # None
  PROVE  IInv'
<1> DEFINE r == goro[e].req
           new == [goro[e] EXCEPT !.at = "write",
                     !.answer = Answer(e, 200, ResponseContext(r), entries[CacheKey(r)], TRUE)]
<1>1. /\ goro[e].at = "lookup" /\ goro' = [goro EXCEPT ![e] = new]
      /\ UNCHANGED <<level, conn, writer, response, entries, audit>>
  BY DEF Lookup, Steps
<1>2. /\ goro[e] \in Goros /\ r \in Requests /\ audit[e] \in Seq(Records)
      /\ audit' = [audit EXCEPT ![e] = audit[e]] /\ HandOf(e, goro[e], audit[e])
      /\ entries \in [Keys -> Contexts \cup {None}]
  BY <1>1, Before
<1>3. PICK s \in Requests : /\ CacheKey(s) = CacheKey(r) /\ Runs(s) /\ Route(s) \in Contexts
                            /\ entries[CacheKey(r)] = Route(s)
  BY <1>2 DEF IInv, EntriesExecuted, Keys
<1>4. ResponseContext(r) = ResponseContext(s)
  BY <1>3 DEF CacheKey
<1>5. ResponseContext(r) \in Contexts
  BY <1>3, <1>4, AcceptedContext DEF Runs
<1>6. /\ Answer(e, 200, ResponseContext(r), entries[CacheKey(r)], TRUE) \in Answers
      /\ Answer(e, 200, ResponseContext(r), entries[CacheKey(r)], TRUE).of = e
      /\ Answer(e, 200, ResponseContext(r), entries[CacheKey(r)], TRUE).hit
      /\ Answer(e, 200, ResponseContext(r), entries[CacheKey(r)], TRUE).from = Route(s)
  BY <1>3, <1>5 DEF Answer, Answers
<1>7. /\ new \in Goros /\ new.at = "write" /\ new.left = goro[e].left /\ new.gin = goro[e].gin /\ new.req = r
      /\ new.why = goro[e].why
      /\ new.answer = Answer(e, 200, ResponseContext(r), entries[CacheKey(r)], TRUE)
  BY <1>2, <1>6 DEF Goros
<1> HIDE DEF new, r
<1>8. HandOf(e, new, audit[e])
  BY <1>6, <1>7 DEF HandOf
<1>9. HitOf(new)
  BY <1>2, <1>3, <1>6, <1>7, SameKeyRuns DEF HitOf
<1>10. ReasonOf(new)
  BY <1>1, <1>2, <1>7, NoFailureFits DEF ReasonOf, HandOf
<1>11. entries' \in [Keys -> Contexts \cup {None}] /\ EntriesExecuted'
  BY <1>1, <1>2, EntriesStay DEF IInv
<1> QED
  BY <1>1, <1>2, <1>7, <1>8, <1>9, <1>10, <1>11, GoesOn DEF r

\* The cache does not have it.
LEMMA MissKeeps ==
  ASSUME IInv, NEW e \in Exchanges, Lookup(e),
         ~(GetToolName(goro[e].req) \in CacheableTools /\ entries[CacheKey(goro[e].req)] # None)
  PROVE  IInv'
<1> DEFINE new == [goro[e] EXCEPT !.at = "handle"]
<1>1. /\ goro[e].at = "lookup" /\ goro' = [goro EXCEPT ![e] = new]
      /\ UNCHANGED <<level, conn, writer, response, entries, audit>>
  BY DEF Lookup, Steps
<1>2. /\ goro[e] \in Goros /\ audit[e] \in Seq(Records)
      /\ audit' = [audit EXCEPT ![e] = audit[e]] /\ HandOf(e, goro[e], audit[e])
      /\ entries \in [Keys -> Contexts \cup {None}]
  BY <1>1, Before
<1>3. /\ new \in Goros /\ new.at = "handle" /\ new.left = goro[e].left /\ new.gin = goro[e].gin /\ new.req = goro[e].req
      /\ new.why = goro[e].why
  BY <1>2 DEF Goros
<1> HIDE DEF new
<1>4. HandOf(e, new, audit[e]) /\ HitOf(new) /\ ReasonOf(new)
  BY <1>1, <1>2, <1>3, NoFailureFits DEF HandOf, HitOf, ReasonOf
<1>5. entries' \in [Keys -> Contexts \cup {None}] /\ EntriesExecuted'
  BY <1>1, <1>2, EntriesStay DEF IInv
<1> QED
  BY <1>1, <1>2, <1>3, <1>4, <1>5, GoesOn

\* An answer that comes from no cache is written, with its reason.
LEMMA AnswerKeeps ==
  ASSUME IInv, NEW e \in Exchanges, goro[e].at = "handle",
         NEW answer \in Answers, answer.of = e, ~answer.hit,
         NEW why \in Reasons, NEW new, goro' = [goro EXCEPT ![e] = new],
         new = [goro[e] EXCEPT !.at = "write", !.answer = answer, !.why = why],
         UNCHANGED <<level, conn, writer, response, entries>>,
         NEW recorded \in Seq(Records), audit' = [audit EXCEPT ![e] = recorded],
         answer.named = None \/ Tells(recorded, answer),
         Fits(why, answer.status)
  PROVE  IInv'
<1>1. goro[e].at # "gone"
  OBVIOUS
<1>2. /\ goro[e] \in Goros /\ entries \in [Keys -> Contexts \cup {None}]
  BY <1>1, Before
<1>3. /\ new \in Goros /\ new.at = "write" /\ new.left = goro[e].left /\ new.gin = goro[e].gin /\ new.req = goro[e].req
      /\ new.why = why /\ new.answer = answer
  BY <1>2 DEF Goros
<1>4. HandOf(e, new, recorded) /\ HitOf(new) /\ ReasonOf(new)
  BY <1>3, NoFailureFits DEF HandOf, HitOf, ReasonOf
<1>5. entries' \in [Keys -> Contexts \cup {None}] /\ EntriesExecuted'
  BY <1>2, EntriesStay DEF IInv
<1> QED
  BY <1>1, <1>2, <1>3, <1>4, <1>5, GoesOn

LEMMA RefuseKeeps == ASSUME IInv, NEW e \in Exchanges, Refuse(e) PROVE IInv'
<1> DEFINE answer == Answer(e, ValidationStatus, None, None, FALSE)
           code == ValidateRequest(goro[e].req)
           why == Why(code, {})
           new == [goro[e] EXCEPT !.at = "write", !.answer = answer, !.why = why]
<1>1. /\ goro[e].at = "handle" /\ code # "OK"
      /\ goro' = [goro EXCEPT ![e] = new]
      /\ UNCHANGED <<level, conn, writer, response, entries, audit>>
  BY DEF Refuse, Steps
<1>2. answer \in Answers /\ answer.of = e /\ ~answer.hit /\ answer.named = None
  <2>1. ValidationStatus = 400
    BY DEF ValidationStatus, HTTPStatus
  <2> QED
    BY <2>1 DEF Answer, Answers
<1>3. code \in Codes
  BY ValidateIsAccepted
<1>4. why \in Reasons /\ Fits(why, answer.status)
  <2> HIDE DEF code
  <2>1. why.reason = code
    BY DEF Why
  <2>2. code \in {"INVALID_TOOL_NAME", "TOOL_NOT_FOUND", "CONTEXT_NOT_FOUND", "INVALID_ARGUMENTS"}
    BY <1>1, <1>3 DEF Codes
  <2>3. why \in Reasons
    BY <2>2 DEF Reasons
  <2> HIDE DEF why
  <2>4. why.reason \notin {"NotFound", "AlreadyExists", "Forbidden"}
    BY <2>1, <2>2
  <2> QED
    BY <2>3, <2>4, NothingToFit
<1>5. audit[e] \in Seq(Records) /\ audit' = [audit EXCEPT ![e] = audit[e]]
  BY <1>1, Before
<1>6. new = [goro[e] EXCEPT !.at = "write", !.answer = answer, !.why = why]
  OBVIOUS
<1> HIDE DEF answer, code, why, new
<1> QED
  BY <1>1, <1>2, <1>4, <1>5, <1>6, AnswerKeeps

\* A record of the call, as it is appended where there is none yet.
LEMMA Recorded ==
  ASSUME IInv, NEW e \in Exchanges, goro[e].at = "handle", ValidateRequest(goro[e].req) = "OK",
         NEW ok \in BOOLEAN
  PROVE  /\ audit[e] \o Logged(level, Record(goro[e].req, ok)) = Logged(level, Record(goro[e].req, ok))
         /\ audit[e] \o Logged(level, Record(goro[e].req, ok)) \in Seq(Records)
         /\ ResponseContext(goro[e].req) \in Contexts
<1>1. audit[e] = <<>> /\ goro[e].req \in Requests
  BY Before DEF HandOf
<1>2. ResponseContext(goro[e].req) \in Contexts
  BY <1>1, AcceptedContext
<1>3. Record(goro[e].req, ok) \in Records
  BY <1>2 DEF Record, Records
<1>4. Logged(level, Record(goro[e].req, ok)) \in Seq(Records)
  BY <1>3 DEF Logged
<1> QED
  BY <1>1, <1>2, <1>4

\* The answer to a call that failed says what its record says.
LEMMA FailureTells ==
  ASSUME IInv, NEW e \in Exchanges, goro[e].at = "handle", ValidateRequest(goro[e].req) = "OK",
         NEW status \in Refusals
  PROVE  LET answer == Answer(e, status, ResponseContext(goro[e].req), None, FALSE)
             recorded == audit[e] \o Logged(level, Record(goro[e].req, FALSE))
         IN  /\ answer \in Answers /\ answer.of = e /\ ~answer.hit /\ answer.status = status
             /\ recorded \in Seq(Records) /\ Tells(recorded, answer)
<1> DEFINE r == goro[e].req
           answer == Answer(e, status, ResponseContext(r), None, FALSE)
           recorded == audit[e] \o Logged(level, Record(r, FALSE))
<1>1. /\ recorded = Logged(level, Record(r, FALSE)) /\ recorded \in Seq(Records)
      /\ ResponseContext(r) \in Contexts
  BY Recorded
<1>2. /\ answer \in Answers /\ answer.of = e /\ ~answer.hit
      /\ answer.named = ResponseContext(r) /\ answer.status = status
  BY <1>1 DEF Answer, Answers, Refusals
<1>3. (answer.status = 200) = FALSE
  <2>1. status # 200
    BY DEF Refusals
  <2> QED
    BY <2>1, <1>2
<1>4. Tells(recorded, answer)
  BY <1>1, <1>2, <1>3 DEF Record, Tells
<1> QED
  BY <1>1, <1>2, <1>4

\* The phrases of a text that decide about a refusal.
SaysMissing(phrases) == "not found" \in phrases
SaysExists(phrases) == "already exists" \in phrases
SaysDenied(phrases) == "forbidden" \in phrases

LEMMA SaidStatuses ==
  \A phrases :
    /\ SaysMissing(phrases) => ErrorStatus(phrases) = 404
    /\ SaysExists(phrases) /\ ~SaysMissing(phrases) => ErrorStatus(phrases) = 409
    /\ SaysDenied(phrases) /\ ~SaysMissing(phrases) /\ ~SaysExists(phrases)
         => ErrorStatus(phrases) = 403
BY Statuses DEF SaysMissing, SaysExists, SaysDenied

LEMMA RefusalFits ==
  ASSUME NEW why, NEW phrases, phrases = why.phrases,
         why.reason = "NotFound" => SaysMissing(phrases),
         why.reason = "AlreadyExists" => SaysExists(phrases),
         why.reason = "Forbidden" => SaysDenied(phrases)
  PROVE  Fits(why, ErrorStatus(phrases))
<1> DEFINE status == ErrorStatus(phrases)
           r1 == why.reason = "NotFound"
           r2 == why.reason = "AlreadyExists"
           r3 == why.reason = "Forbidden"
<1>1. Fits(why, status) <=>
           /\ r1 => status = 404
           /\ r2 /\ ~SaysMissing(phrases) => status = 409
           /\ r3 /\ ~SaysMissing(phrases) /\ ~SaysExists(phrases) => status = 403
  <2>1. {"not found", "already exists"} \cap phrases = {}
        <=> "not found" \notin phrases /\ "already exists" \notin phrases
    OBVIOUS
  <2> HIDE DEF status
  <2> QED
    BY <2>1 DEF Fits, SaysMissing, SaysExists
<1>2. (r1 => SaysMissing(phrases)) /\ (r2 => SaysExists(phrases)) /\ (r3 => SaysDenied(phrases))
  OBVIOUS
<1>3. SaysMissing(phrases) => status = 404
  BY SaidStatuses
<1>4. SaysExists(phrases) /\ ~SaysMissing(phrases) => status = 409
  BY SaidStatuses
<1>5. SaysDenied(phrases) /\ ~SaysMissing(phrases) /\ ~SaysExists(phrases) => status = 403
  BY SaidStatuses
<1> HIDE DEF status, r1, r2, r3
<1> QED
  BY <1>1, <1>2, <1>3, <1>4, <1>5 DEF status

\* Each failure gets the status of its reason, unless an earlier phrase wins.
LEMMA FailureStatus ==
  ASSUME NEW f \in Failures \cup {NoContext}
  PROVE  f \in Reasons /\ Fits(f, ErrorStatus(f.phrases))
<1>1. f \in Reasons
  BY DEF Reasons
<1>2. CASE f \in Failures
  <2>1. /\ f.reason = "NotFound" => "not found" \in f.phrases
        /\ f.reason = "AlreadyExists" => "already exists" \in f.phrases
        /\ f.reason = "Forbidden" => "forbidden" \in f.phrases
    BY <1>2, OwnPhrases
  <2> QED
    BY <1>1, <2>1, RefusalFits DEF SaysMissing, SaysExists, SaysDenied
<1>3. CASE f = NoContext
  <2>1. f.reason = "NoContext"
    BY <1>3 DEF NoContext, Why
  <2> QED
    BY <1>1, <2>1, NothingToFit
<1> QED
  BY <1>2, <1>3

LEMMA FailKeeps == ASSUME IInv, NEW e \in Exchanges, Fail(e) PROVE IInv'
<1> DEFINE r == goro[e].req
<1>1. PICK f \in IF Route(r) \in Contexts THEN Failures ELSE {NoContext} :
        Steps(e, "handle", [goro[e] EXCEPT !.at = "write",
          !.answer = Answer(e, ErrorStatus(f.phrases), ResponseContext(r), None, FALSE),
          !.why = f])
  BY DEF Fail
<1>2. f \in Failures \cup {NoContext}
  BY <1>1
<1> DEFINE why == f
           status == ErrorStatus(f.phrases)
           answer == Answer(e, status, ResponseContext(r), None, FALSE)
           recorded == audit[e] \o Logged(level, Record(r, FALSE))
           new == [goro[e] EXCEPT !.at = "write", !.answer = answer, !.why = why]
<1>3. why \in Reasons /\ status \in Refusals /\ Fits(why, status)
  BY <1>2, FailureStatus, StatusRefuses
<1>4. /\ goro' = [goro EXCEPT ![e] = new]
      /\ goro[e].at = "handle" /\ level' = level /\ conn' = conn /\ writer' = writer
  BY <1>1 DEF Steps
<1>5. /\ ValidateRequest(r) = "OK"
      /\ audit' = [audit EXCEPT ![e] = recorded]
      /\ response' = response /\ entries' = entries
  BY DEF Fail, Runs
<1>6. /\ answer \in Answers /\ answer.of = e /\ ~answer.hit /\ answer.status = status
      /\ recorded \in Seq(Records) /\ Tells(recorded, answer)
  <2> HIDE DEF status
  <2> QED
    BY <1>3, <1>4, <1>5, FailureTells, Zenon
<1>7. new = [goro[e] EXCEPT !.at = "write", !.answer = answer, !.why = why]
  OBVIOUS
<1> HIDE DEF why, status, answer, recorded, new
<1>8. Fits(why, answer.status)
  BY <1>3, <1>6
<1>9. why \in Reasons
  BY <1>3
<1> QED
  BY <1>4, <1>5, <1>6, <1>7, <1>8, <1>9, AnswerKeeps

LEMMA RefuseArgumentsKeeps == ASSUME IInv, NEW e \in Exchanges, RefuseArguments(e) PROVE IInv'
<1> DEFINE r == goro[e].req
           why == Why("Arguments", {"argument"})
           status == ErrorStatus({"argument"})
           answer == Answer(e, status, ResponseContext(r), None, FALSE)
           recorded == audit[e] \o Logged(level, Record(r, FALSE))
           new == [goro[e] EXCEPT !.at = "write", !.answer = answer, !.why = why]
<1>1. why \in Reasons /\ Fits(why, answer.status)
  <2>1. why \in Reasons
    BY DEF Reasons
  <2>2. why.reason \notin {"NotFound", "AlreadyExists", "Forbidden"}
    BY DEF Why
  <2> HIDE DEF why
  <2> QED
    BY <2>1, <2>2, NothingToFit
<1>2. status \in Refusals
  BY StatusRefuses
<1>3. /\ goro' = [goro EXCEPT ![e] = new]
      /\ goro[e].at = "handle" /\ level' = level /\ conn' = conn /\ writer' = writer
      /\ ValidateRequest(r) = "OK"
      /\ audit' = [audit EXCEPT ![e] = recorded]
      /\ response' = response /\ entries' = entries
  BY DEF RefuseArguments, Steps
<1>4. /\ answer \in Answers /\ answer.of = e /\ ~answer.hit
      /\ recorded \in Seq(Records) /\ Tells(recorded, answer)
  <2> HIDE DEF status
  <2> QED
    BY <1>2, <1>3, FailureTells, Zenon
<1>5. new = [goro[e] EXCEPT !.at = "write", !.answer = answer, !.why = why]
  OBVIOUS
<1> HIDE DEF why, status, answer, recorded, new
<1> QED
  BY <1>1, <1>3, <1>4, <1>5, AnswerKeeps

LEMMA ExecuteKeeps == ASSUME IInv, NEW e \in Exchanges, Execute(e) PROVE IInv'
<1> DEFINE r == goro[e].req
           answer == Answer(e, 200, ResponseContext(r), Route(r), FALSE)
           new == [goro[e] EXCEPT !.at = "store", !.answer = answer]
           recorded == audit[e] \o Logged(level, Record(r, TRUE))
<1>1. /\ goro[e].at = "handle" /\ Runs(r) /\ Route(r) \in Contexts
      /\ goro' = [goro EXCEPT ![e] = new]
      /\ audit' = [audit EXCEPT ![e] = recorded]
      /\ UNCHANGED <<level, conn, writer, response, entries>>
  BY DEF Execute, Steps
<1>2. /\ goro[e] \in Goros /\ r \in Requests /\ HandOf(e, goro[e], audit[e])
      /\ entries \in [Keys -> Contexts \cup {None}]
  BY <1>1, Before
<1>3. /\ recorded = Logged(level, Record(r, TRUE)) /\ recorded \in Seq(Records)
      /\ ResponseContext(r) \in Contexts
  BY <1>1, Recorded DEF Runs
<1>4. answer \in Answers
  BY <1>1, <1>3 DEF Answer, Answers
<1>5. /\ new \in Goros /\ new.at = "store" /\ new.left = goro[e].left /\ new.gin = goro[e].gin /\ new.req = r
      /\ new.why = goro[e].why /\ new.answer = answer
  BY <1>2, <1>4 DEF Goros
<1> HIDE DEF new, recorded
<1>6. HandOf(e, new, recorded)
  BY <1>1, <1>2, <1>3, <1>5 DEF HandOf
<1>7. HitOf(new) /\ ReasonOf(new)
  BY <1>5, NoFailureFits DEF HitOf, ReasonOf
<1>8. entries' \in [Keys -> Contexts \cup {None}] /\ EntriesExecuted'
  BY <1>1, <1>2, EntriesStay DEF IInv
<1> QED
  BY <1>1, <1>2, <1>3, <1>5, <1>6, <1>7, <1>8, GoesOn

\* What is stored was read by executing this very request.
LEMMA StoreKeeps == ASSUME IInv, NEW e \in Exchanges, Store(e) PROVE IInv'
<1> DEFINE r == goro[e].req
           new == [goro[e] EXCEPT !.at = "write"]
<1>1. /\ goro[e].at = "store" /\ goro' = [goro EXCEPT ![e] = new]
      /\ entries' = IF GetToolName(r) \in CacheableTools
                    THEN [entries EXCEPT ![CacheKey(r)] = goro[e].answer.from] ELSE entries
      /\ UNCHANGED <<level, conn, writer, response, audit>>
  BY DEF Store, Steps
<1>2. /\ goro[e] \in Goros /\ r \in Requests /\ HandOf(e, goro[e], audit[e])
      /\ entries \in [Keys -> Contexts \cup {None}] /\ audit[e] \in Seq(Records)
      /\ audit' = [audit EXCEPT ![e] = audit[e]]
  BY <1>1, Before
<1>3. /\ goro[e].answer = Answer(e, 200, ResponseContext(r), Route(r), FALSE)
      /\ goro[e].why = NoFailure /\ Runs(r) /\ Route(r) \in Contexts
      /\ audit[e] = Logged(level, Record(r, TRUE))
  BY <1>1, <1>2 DEF HandOf
<1>4. ResponseContext(r) \in Contexts
  BY <1>2, <1>3, AcceptedContext DEF Runs
<1>5. /\ goro[e].answer \in Answers /\ goro[e].answer.of = e /\ ~goro[e].answer.hit
      /\ goro[e].answer.named = ResponseContext(r) /\ goro[e].answer.status = 200
      /\ goro[e].answer.from = Route(r)
  BY <1>3, <1>4 DEF Answer, Answers
<1>6. Tells(audit[e], goro[e].answer)
  BY <1>3, <1>5 DEF Record, Tells
<1>7. /\ new \in Goros /\ new.at = "write" /\ new.left = goro[e].left /\ new.gin = goro[e].gin /\ new.req = r
      /\ new.why = goro[e].why /\ new.answer = goro[e].answer
  BY <1>2 DEF Goros
<1> HIDE DEF new
<1>8. HandOf(e, new, audit[e]) /\ HitOf(new) /\ ReasonOf(new)
  BY <1>3, <1>5, <1>6, <1>7, NoFailureFits DEF HandOf, HitOf, ReasonOf
<1>9. entries' \in [Keys -> Contexts \cup {None}]
  <2> DEFINE from == goro[e].answer.from
             key == CacheKey(r)
  <2>1. from \in Contexts \cup {None}
    BY <1>3, <1>5
  <2>2. entries' = [entries EXCEPT ![key] = from] \/ entries' = entries
    BY <1>1
  <2> HIDE DEF from, key
  <2> QED
    BY <2>1, <2>2, <1>2
<1>10. EntriesExecuted'
  <2> SUFFICES ASSUME NEW k \in Keys, entries'[k] # None
      PROVE  \E s \in Requests :
               CacheKey(s) = k /\ Runs(s) /\ Route(s) \in Contexts /\ entries'[k] = Route(s)
    BY DEF EntriesExecuted
  <2>1. CASE entries'[k] = entries[k]
    BY <2>1 DEF IInv, EntriesExecuted
  <2>2. CASE entries'[k] # entries[k]
    <3>1. k = CacheKey(r) /\ entries'[k] = Route(r)
      BY <2>2, <1>1, <1>2, <1>5
    <3> QED
      BY <3>1, <1>2, <1>3
  <2> QED
    BY <2>1, <2>2
<1> QED
  BY <1>1, <1>2, <1>7, <1>8, <1>9, <1>10, GoesOn

LEMMA LookupKeeps == ASSUME IInv, NEW e \in Exchanges, Lookup(e) PROVE IInv'
BY HitKeeps, MissKeeps

-----------------------------------------------------------------------------
(* The connection, and what a goroutine writes.                            *)

\* What is appended comes last, and nothing else changes.
LEMMA Appended ==
  ASSUME NEW S, NEW s \in Seq(S), NEW a \in S, NEW t, t = Append(s, a)
  PROVE  /\ t \in Seq(S)
         /\ \A i \in DOMAIN s : i \in DOMAIN t /\ t[i] = s[i]
         /\ \A i \in DOMAIN t : (i \in DOMAIN s /\ t[i] = s[i]) \/ t[i] = a
         /\ \E i \in DOMAIN t : t[i] = a
<1>1. t \in Seq(S) /\ Len(t) = Len(s) + 1 /\ Len(s) \in Nat /\ t[Len(s) + 1] = a
  OBVIOUS
<1>2. DOMAIN s = 1 .. Len(s) /\ DOMAIN t = 1 .. Len(s) + 1
  BY <1>1
<1>3. \A i \in DOMAIN s : i \in DOMAIN t /\ t[i] = s[i]
  BY <1>1, <1>2
<1>4. \A i \in DOMAIN t : (i \in DOMAIN s /\ t[i] = s[i]) \/ t[i] = a
  BY <1>1, <1>2, <1>3
<1> QED
  BY <1>1, <1>2, <1>3, <1>4

LEMMA LastOf == ASSUME NEW S, NEW s \in Seq(S), NEW a \in S PROVE Last(Append(s, a)) = a
<1>1. Len(Append(s, a)) = Len(s) + 1 /\ Append(s, a)[Len(s) + 1] = a
  OBVIOUS
<1> QED
  BY <1>1 DEF Last

\* One goroutine and its records change; the others have in hand what they had.
LEMMA HandsKept ==
  ASSUME IInv, UNCHANGED level, NEW e \in Exchanges,
         \A x \in Exchanges \ {e} : goro'[x] = goro[x] /\ audit'[x] = audit[x],
         HandOf(e, goro'[e], audit'[e]), HitOf(goro'[e]), ReasonOf(goro'[e])
  PROVE  InHand' /\ HitsAsExecuted' /\ StatusTellsReason'
<1>1. \A x \in Exchanges : HandOf(x, goro[x], audit[x]) /\ HitOf(goro[x]) /\ ReasonOf(goro[x])
  BY OneByOne DEF IInv
<1>2. \A x \in Exchanges : HandOf(x, goro'[x], audit'[x]) /\ HitOf(goro'[x]) /\ ReasonOf(goro'[x])
  BY <1>1
<1> QED
  BY <1>2, OneByOneNext

\* A goroutine that has ended has nothing in hand.
LEMMA IdleHand ==
  ASSUME NEW e, NEW g, NEW recorded, g.at = "gone"
  PROVE  HandOf(e, g, recorded) /\ HitOf(g) /\ ReasonOf(g)
BY DEF HandOf, HitOf, ReasonOf

\* The types, one variable at a time.
Conns == [at : {"open", "late", "closed"}, gin : GinContexts \cup {None}]

LEMMA Types ==
  TypeOK <=>
    /\ level \in LogLevels
    /\ conn \in [Exchanges -> Conns]
    /\ \A e \in Exchanges : conn[e].at = "closed" <=> conn[e].gin = None
    /\ goro \in [Exchanges -> Goros] /\ writer \in [GinContexts -> Exchanges \cup {None}]
    /\ response \in [Exchanges -> Seq(Answers)] /\ entries \in [Keys -> Contexts \cup {None}]
    /\ audit \in [Exchanges -> Seq(Records)]
BY DEF TypeOK, Conns, Goros, Records

LEMMA TypesNext ==
  ASSUME level \in LogLevels, UNCHANGED level,
         /\ conn' \in [Exchanges -> Conns]
         /\ \A e \in Exchanges : conn'[e].at = "closed" <=> conn'[e].gin = None
         /\ goro' \in [Exchanges -> Goros] /\ writer' \in [GinContexts -> Exchanges \cup {None}]
         /\ response' \in [Exchanges -> Seq(Answers)] /\ entries' \in [Keys -> Contexts \cup {None}]
         /\ audit' \in [Exchanges -> Seq(Records)]
  PROVE  TypeOK'
BY DEF TypeOK, Conns, Goros, Records

\* The other parts of the invariant, for one exchange: c serves it, g is its
\* goroutine, w are the writers, written and recorded what it got.
BoundOf(e, c, g, w) ==
  /\ g.at = "gone" => g = NoGoroutine
  /\ g.at # "gone" => g.req \in Requests /\ g.gin \in GinContexts /\ w[g.gin] \in Exchanges
  /\ c.at # "closed" => c.gin \in GinContexts /\ w[c.gin] = e
  /\ c.at # "closed" /\ g.at # "gone" => g.gin = c.gin

OverdueOf(e, c, g, written) ==
  c.at \in {"late", "closed"} /\ g.at # "gone"
  => g.left \/ \E i \in DOMAIN written : written[i] = Expired(e)

NothingOf(e, g, written) ==
  g.at # "gone" => \A i \in DOMAIN written : written[i].of = e => written[i].named = None

AuditOf(e, written, recorded) ==
  \A i \in DOMAIN written :
    written[i].of = e /\ written[i].named # None /\ ~written[i].hit => Tells(recorded, written[i])

LEMMA Locally ==
  /\ Bound <=> \A e \in Exchanges : BoundOf(e, conn[e], goro[e], writer)
  /\ Overdue <=> \A e \in Exchanges : OverdueOf(e, conn[e], goro[e], response[e])
  /\ NothingYet <=> \A e \in Exchanges : NothingOf(e, goro[e], response[e])
  /\ AuditMatchesAnswer <=> \A e \in Exchanges : AuditOf(e, response[e], audit[e])
<1>1. Bound <=> \A e \in Exchanges : BoundOf(e, conn[e], goro[e], writer)
  BY DEF Bound, BoundOf
<1>2. Overdue <=> \A e \in Exchanges : OverdueOf(e, conn[e], goro[e], response[e])
  BY DEF Overdue, OverdueOf
<1>3. NothingYet <=> \A e \in Exchanges : NothingOf(e, goro[e], response[e])
  BY DEF NothingYet, NothingOf
<1>4. AuditMatchesAnswer <=> \A e \in Exchanges : AuditOf(e, response[e], audit[e])
  BY DEF AuditMatchesAnswer, AuditOf, Tells
<1> QED
  BY <1>1, <1>2, <1>3, <1>4

\* The same, after a step.
LEMMA LocallyNext ==
  ASSUME UNCHANGED level,
         \A e \in Exchanges :
           /\ BoundOf(e, conn'[e], goro'[e], writer') /\ OverdueOf(e, conn'[e], goro'[e], response'[e])
           /\ NothingOf(e, goro'[e], response'[e]) /\ AuditOf(e, response'[e], audit'[e])
  PROVE  Bound' /\ Overdue' /\ NothingYet' /\ AuditMatchesAnswer'
<1>1. Bound'
  BY DEF Bound, BoundOf
<1>2. Overdue'
  BY DEF Overdue, OverdueOf
<1>3. NothingYet'
  BY DEF NothingYet, NothingOf
<1>4. AuditMatchesAnswer'
  BY DEF AuditMatchesAnswer, AuditOf, Tells
<1> QED
  BY <1>1, <1>2, <1>3, <1>4

\* The invariant in this form.
Shape ==
  /\ level \in LogLevels
  /\ conn \in [Exchanges -> Conns]
  /\ \A x \in Exchanges : conn[x].at = "closed" <=> conn[x].gin = None
  /\ goro \in [Exchanges -> Goros] /\ writer \in [GinContexts -> Exchanges \cup {None}]
  /\ response \in [Exchanges -> Seq(Answers)] /\ entries \in [Keys -> Contexts \cup {None}]
  /\ audit \in [Exchanges -> Seq(Records)] /\ EntriesExecuted
  /\ \A x \in Exchanges :
       /\ BoundOf(x, conn[x], goro[x], writer) /\ OverdueOf(x, conn[x], goro[x], response[x])
       /\ NothingOf(x, goro[x], response[x]) /\ AuditOf(x, response[x], audit[x])
       /\ HandOf(x, goro[x], audit[x])

LEMMA InShape == IInv => Shape
BY Types, Locally, OneByOne DEF IInv, Shape

\* gin binds a context of its pool, which no other exchange that is served has.
LEMMA ServeKeeps ==
  ASSUME IInv, NEW e \in Exchanges, NEW req \in Requests, Serve(e, req) PROVE IInv'
<1>1. PICK g \in Pool :
        /\ conn' = [conn EXCEPT ![e] = [at |-> "open", gin |-> g]]
        /\ goro' = [goro EXCEPT ![e] = [NoGoroutine EXCEPT !.at = "lookup", !.gin = g, !.req = req]]
        /\ writer' = [writer EXCEPT ![g] = e]
  BY DEF Serve
<1>2. /\ response' = [response EXCEPT ![e] = <<>>] /\ audit' = [audit EXCEPT ![e] = <<>>]
      /\ entries' = entries /\ level' = level
  BY DEF Serve
<1>3. g \in GinContexts /\ g # None /\ \A x \in Exchanges : conn[x].gin # g
  BY <1>1, CallsAssumption DEF Pool, CallsAssumption
<1> DEFINE new == [NoGoroutine EXCEPT !.at = "lookup", !.gin = g, !.req = req]
           served == [at |-> "open", gin |-> g]
<1>4. /\ new.at = "lookup" /\ new.gin = g /\ new.req = req /\ new.why = NoFailure /\ new \in Goros
  BY <1>3 DEF NoGoroutine, Goros, Reasons
<1>5. served.at = "open" /\ served.gin = g /\ served \in Conns
  BY <1>3 DEF Conns
<1>6. conn' = [conn EXCEPT ![e] = served] /\ goro' = [goro EXCEPT ![e] = new]
  BY <1>1
<1> HIDE DEF new, served
<1>7. Shape
  BY InShape
<1>8. /\ goro'[e] = new /\ audit'[e] = <<>> /\ response'[e] = <<>>
      /\ conn'[e] = served /\ writer'[g] = e
      /\ \A x \in Exchanges \ {e} : /\ goro'[x] = goro[x] /\ audit'[x] = audit[x]
                                    /\ response'[x] = response[x] /\ conn'[x] = conn[x]
      /\ \A h \in GinContexts \ {g} : writer'[h] = writer[h]
  BY <1>1, <1>2, <1>3, <1>6, <1>7 DEF Shape
<1>9. TypeOK'
  <2>1. conn' \in [Exchanges -> Conns] /\ goro' \in [Exchanges -> Goros]
    BY <1>4, <1>5, <1>6, <1>7 DEF Shape
  <2>2. \A x \in Exchanges : conn'[x].at = "closed" <=> conn'[x].gin = None
    BY <1>3, <1>5, <1>7, <1>8 DEF Shape
  <2>3. writer' \in [GinContexts -> Exchanges \cup {None}]
    BY <1>1, <1>7 DEF Shape
  <2>4. response' \in [Exchanges -> Seq(Answers)] /\ audit' \in [Exchanges -> Seq(Records)]
    BY <1>2, <1>7 DEF Shape
  <2>5. entries' \in [Keys -> Contexts \cup {None}]
    BY <1>2, <1>7 DEF Shape
  <2> QED
    BY <2>1, <2>2, <2>3, <2>4, <2>5, <1>2, <1>7, TypesNext DEF Shape
<1>10. Bound' /\ Overdue' /\ NothingYet' /\ AuditMatchesAnswer'
  <2> SUFFICES ASSUME NEW x \in Exchanges
      PROVE  /\ BoundOf(x, conn'[x], goro'[x], writer') /\ OverdueOf(x, conn'[x], goro'[x], response'[x])
             /\ NothingOf(x, goro'[x], response'[x]) /\ AuditOf(x, response'[x], audit'[x])
    BY <1>2, LocallyNext
  <2>1. CASE x = e
    <3>1. BoundOf(e, served, new, writer')
      BY <1>3, <1>4, <1>5, <1>8 DEF BoundOf
    <3>2. OverdueOf(e, served, new, <<>>) /\ NothingOf(e, new, <<>>) /\ AuditOf(e, <<>>, <<>>)
      BY <1>4, <1>5 DEF OverdueOf, NothingOf, AuditOf
    <3> QED
      BY <2>1, <3>1, <3>2, <1>8
  <2>2. CASE x # e
    <3>1. BoundOf(x, conn[x], goro[x], writer')
      <4>1. BoundOf(x, conn[x], goro[x], writer)
        BY <1>7 DEF Shape
      <4>2. conn[x].gin # g
        BY <1>3
      <4> QED
        BY <4>1, <4>2, <1>8 DEF BoundOf
    <3>2. /\ OverdueOf(x, conn[x], goro[x], response[x])
          /\ NothingOf(x, goro[x], response[x]) /\ AuditOf(x, response[x], audit[x])
      BY <1>7 DEF Shape
    <3> QED
      BY <2>2, <3>1, <3>2, <1>8
  <2> QED
    BY <2>1, <2>2
<1>11. InHand' /\ HitsAsExecuted' /\ StatusTellsReason'
  <2>1. HandOf(e, new, <<>>) /\ HitOf(new) /\ ReasonOf(new)
    BY <1>4, NoFailureFits DEF HandOf, HitOf, ReasonOf
  <2> QED
    BY <2>1, <1>2, <1>8, HandsKept
<1>12. EntriesExecuted'
  BY <1>2, <1>7, EntriesStay DEF Shape
<1> QED
  BY <1>9, <1>10, <1>11, <1>12 DEF IInv

\* The chain returns and nothing of its goroutine is left.
LEMMA Forgets ==
  ASSUME IInv, NEW e \in Exchanges, conn[e].at # "closed", goro[e].at = "gone",
         conn' = Released(e), Forgotten(e, conn[e].gin), UNCHANGED <<level, goro, entries>>
  PROVE  IInv'
<1> DEFINE g == conn[e].gin
           closed == [conn[e] EXCEPT !.at = "closed", !.gin = None]
<1>1. Shape
  BY InShape
<1>2. g \in GinContexts /\ writer[g] = e
  BY <1>1 DEF Shape, BoundOf
<1>3. closed \in Conns /\ closed.at = "closed" /\ closed.gin = None
  BY <1>1 DEF Shape, Conns
<1>4. conn' = [conn EXCEPT ![e] = closed]
  BY <1>1 DEF Shape, Released
<1>5. /\ response' = [response EXCEPT ![e] = <<>>] /\ audit' = [audit EXCEPT ![e] = <<>>]
      /\ writer' = [writer EXCEPT ![g] = IF \E x \in Exchanges : goro[x].gin = g THEN @ ELSE None]
      /\ goro' = goro /\ entries' = entries
  BY DEF Forgotten
<1> HIDE DEF closed
<1>6. /\ conn'[e] = closed /\ audit'[e] = <<>> /\ response'[e] = <<>> /\ goro' = goro
      /\ \A x \in Exchanges \ {e} : /\ audit'[x] = audit[x]
                                    /\ response'[x] = response[x] /\ conn'[x] = conn[x]
  BY <1>1, <1>4, <1>5 DEF Shape
<1>7. /\ \A h \in GinContexts \ {g} : writer'[h] = writer[h]
      /\ (\E x \in Exchanges : goro[x].gin = g) => writer'[g] = writer[g]
      /\ writer' \in [GinContexts -> Exchanges \cup {None}]
  BY <1>1, <1>2, <1>5 DEF Shape
<1>8. TypeOK'
  <2>1. conn' \in [Exchanges -> Conns] /\ goro' \in [Exchanges -> Goros]
    BY <1>1, <1>3, <1>4, <1>5 DEF Shape
  <2>2. \A x \in Exchanges : conn'[x].at = "closed" <=> conn'[x].gin = None
    BY <1>1, <1>3, <1>6 DEF Shape
  <2>3. response' \in [Exchanges -> Seq(Answers)] /\ audit' \in [Exchanges -> Seq(Records)]
    BY <1>1, <1>5 DEF Shape
  <2>4. entries' \in [Keys -> Contexts \cup {None}]
    BY <1>1, <1>5 DEF Shape
  <2> QED
    BY <2>1, <2>2, <2>3, <2>4, <1>1, <1>7, TypesNext DEF Shape
<1>9. Bound' /\ Overdue' /\ NothingYet' /\ AuditMatchesAnswer'
  <2> SUFFICES ASSUME NEW x \in Exchanges
      PROVE  /\ BoundOf(x, conn'[x], goro'[x], writer') /\ OverdueOf(x, conn'[x], goro'[x], response'[x])
             /\ NothingOf(x, goro'[x], response'[x]) /\ AuditOf(x, response'[x], audit'[x])
    BY LocallyNext
  <2>1. CASE x = e
    <3>1. BoundOf(e, closed, goro[e], writer')
      BY <1>1, <1>3 DEF Shape, BoundOf
    <3>2. OverdueOf(e, closed, goro[e], <<>>) /\ NothingOf(e, goro[e], <<>>) /\ AuditOf(e, <<>>, <<>>)
      BY <1>3 DEF OverdueOf, NothingOf, AuditOf
    <3> QED
      BY <2>1, <3>1, <3>2, <1>6
  <2>2. CASE x # e
    <3>1. BoundOf(x, conn[x], goro[x], writer')
      <4>1. BoundOf(x, conn[x], goro[x], writer)
        BY <1>1 DEF Shape
      <4>2. conn[x].at # "closed" => conn[x].gin # g
        BY <4>1, <2>2, <1>2 DEF BoundOf
      <4>3. goro[x].at # "gone" => writer'[goro[x].gin] = writer[goro[x].gin]
        BY <4>1, <1>7 DEF BoundOf
      <4> QED
        BY <4>1, <4>2, <4>3, <1>7 DEF BoundOf
    <3>2. /\ OverdueOf(x, conn[x], goro[x], response[x])
          /\ NothingOf(x, goro[x], response[x]) /\ AuditOf(x, response[x], audit[x])
      BY <1>1 DEF Shape
    <3> QED
      BY <2>2, <3>1, <3>2, <1>6
  <2> QED
    BY <2>1, <2>2
<1>10. InHand' /\ HitsAsExecuted' /\ StatusTellsReason'
  BY <1>6, IdleHand, HandsKept
<1>11. EntriesExecuted'
  BY <1>1, <1>5, EntriesStay DEF Shape
<1> QED
  BY <1>8, <1>9, <1>10, <1>11 DEF IInv

LEMMA FinishKeeps == ASSUME IInv, NEW e \in Exchanges, Finish(e) PROVE IInv'
<1>1. conn[e].at # "closed"
  BY DEF Finish
<1> QED
  BY <1>1, Forgets DEF Finish

\* The chain returns on the deadline, and its goroutine may still run.
LEMMA FinishLateKeeps == ASSUME IInv, NEW e \in Exchanges, FinishLate(e) PROVE IInv'
<1>1. CASE goro[e].at = "gone"
  <2>1. /\ conn[e].at # "closed" /\ conn' = Released(e) /\ Forgotten(e, conn[e].gin)
        /\ UNCHANGED <<level, goro, entries>>
    BY <1>1 DEF FinishLate
  <2> QED
    BY <1>1, <2>1, Forgets
<1>2. CASE goro[e].at # "gone"
  <2> DEFINE closed == [conn[e] EXCEPT !.at = "closed", !.gin = None]
  <2>1. Shape
    BY InShape
  <2>2. closed \in Conns /\ closed.at = "closed" /\ closed.gin = None
    BY <2>1 DEF Shape, Conns
  <2>3. conn' = [conn EXCEPT ![e] = closed] /\ conn[e].at = "late"
    BY <2>1 DEF Shape, Released, FinishLate
  <2>4. UNCHANGED <<level, goro, writer, response, entries, audit>>
    BY <1>2 DEF FinishLate
  <2> HIDE DEF closed
  <2>5. conn'[e] = closed /\ \A x \in Exchanges \ {e} : conn'[x] = conn[x]
    BY <2>1, <2>3 DEF Shape
  <2>6. TypeOK'
    <3>1. conn' \in [Exchanges -> Conns]
      BY <2>1, <2>2, <2>3 DEF Shape
    <3>2. \A x \in Exchanges : conn'[x].at = "closed" <=> conn'[x].gin = None
      BY <2>1, <2>2, <2>5 DEF Shape
    <3> QED
      BY <3>1, <3>2, <2>1, <2>4, TypesNext DEF Shape
  <2>7. Bound' /\ Overdue' /\ NothingYet' /\ AuditMatchesAnswer'
    <3> SUFFICES ASSUME NEW x \in Exchanges
        PROVE  /\ BoundOf(x, conn'[x], goro[x], writer) /\ OverdueOf(x, conn'[x], goro[x], response[x])
               /\ NothingOf(x, goro[x], response[x]) /\ AuditOf(x, response[x], audit[x])
      BY <2>4, LocallyNext
    <3>1. /\ BoundOf(x, conn[x], goro[x], writer) /\ OverdueOf(x, conn[x], goro[x], response[x])
          /\ NothingOf(x, goro[x], response[x]) /\ AuditOf(x, response[x], audit[x])
      BY <2>1 DEF Shape
    <3>2. CASE x = e
      <4>1. BoundOf(x, closed, goro[x], writer)
        BY <2>2, <3>1 DEF BoundOf
      <4>2. OverdueOf(e, closed, goro[x], response[x])
        BY <2>3, <3>1, <3>2 DEF OverdueOf
      <4> QED
        BY <3>1, <3>2, <4>1, <4>2, <2>5
    <3>3. CASE x # e
      BY <3>1, <3>3, <2>5
    <3> QED
      BY <3>2, <3>3
  <2>8. InHand' /\ HitsAsExecuted' /\ StatusTellsReason'
    <3>1. HandOf(e, goro[e], audit[e]) /\ HitOf(goro[e]) /\ ReasonOf(goro[e])
      BY OneByOne DEF IInv
    <3> QED
      BY <3>1, <2>4, HandsKept
  <2>9. EntriesExecuted'
    BY <2>1, <2>4, EntriesStay DEF Shape
  <2> QED
    BY <2>6, <2>7, <2>8, <2>9 DEF IInv
<1> QED
  BY <1>1, <1>2

\* The 504 goes to the exchange whose deadline it is.
LEMMA DeadlineKeeps == ASSUME IInv, NEW e \in Exchanges, Deadline(e) PROVE IInv'
<1> DEFINE answer == Answer(e, 504, None, None, FALSE)
           late == [conn[e] EXCEPT !.at = "late"]
           written == Append(response[e], answer)
<1>1. Shape
  BY InShape
<1>2. /\ conn[e].at = "open" /\ conn' = [conn EXCEPT ![e] = late]
      /\ UNCHANGED <<level, goro, writer, entries, audit>>
  BY <1>1 DEF Shape, Deadline
<1>3. writer[conn[e].gin] = e
  BY <1>1, <1>2 DEF Shape, BoundOf
<1>4. response' = [response EXCEPT ![e] = written]
  <2>1. response' = Written(conn[e].gin, answer)
    BY DEF Deadline
  <2> HIDE DEF answer
  <2>2. Written(conn[e].gin, answer) = [response EXCEPT ![e] = written]
    BY <1>2, <1>3 DEF Written
  <2> QED
    BY <2>1, <2>2
<1>5. answer = Expired(e) /\ answer \in Answers /\ answer.status = 504 /\ answer.named = None
  BY DEF Answer, Answers, Expired
<1>6. late \in Conns /\ late.at = "late" /\ late.gin = conn[e].gin
  BY <1>1 DEF Shape, Conns
<1>7. /\ written \in Seq(Answers)
      /\ \A i \in DOMAIN written : (i \in DOMAIN response[e] /\ written[i] = response[e][i]) \/ written[i] = answer
      /\ \E i \in DOMAIN written : written[i] = answer
  <2>1. response[e] \in Seq(Answers) /\ answer \in Answers
    BY <1>1, <1>5 DEF Shape
  <2>2. written = Append(response[e], answer)
    OBVIOUS
  <2> HIDE DEF answer, written
  <2> QED
    BY <2>1, <2>2, Appended
<1> HIDE DEF answer, late, written
<1>8. /\ conn'[e] = late /\ response'[e] = written
      /\ \A x \in Exchanges \ {e} : conn'[x] = conn[x] /\ response'[x] = response[x]
  BY <1>1, <1>2, <1>4 DEF Shape
<1>9. TypeOK'
  <2>1. conn' \in [Exchanges -> Conns]
    BY <1>1, <1>2, <1>6 DEF Shape
  <2>2. \A x \in Exchanges : conn'[x].at = "closed" <=> conn'[x].gin = None
    BY <1>1, <1>2, <1>6, <1>8 DEF Shape
  <2>3. response' \in [Exchanges -> Seq(Answers)]
    BY <1>1, <1>4, <1>7 DEF Shape
  <2> QED
    BY <2>1, <2>2, <2>3, <1>1, <1>2, TypesNext DEF Shape
<1>10. Bound' /\ Overdue' /\ NothingYet' /\ AuditMatchesAnswer'
  <2> SUFFICES ASSUME NEW x \in Exchanges
      PROVE  /\ BoundOf(x, conn'[x], goro[x], writer) /\ OverdueOf(x, conn'[x], goro[x], response'[x])
             /\ NothingOf(x, goro[x], response'[x]) /\ AuditOf(x, response'[x], audit[x])
    BY <1>2, LocallyNext
  <2>1. /\ BoundOf(x, conn[x], goro[x], writer) /\ OverdueOf(x, conn[x], goro[x], response[x])
        /\ NothingOf(x, goro[x], response[x]) /\ AuditOf(x, response[x], audit[x])
    BY <1>1 DEF Shape
  <2>2. CASE x = e
    <3>1. BoundOf(e, late, goro[e], writer)
      BY <1>2, <1>6, <2>1, <2>2 DEF BoundOf
    <3>2. OverdueOf(e, late, goro[e], written)
      BY <1>5, <1>7 DEF OverdueOf
    <3>3. NothingOf(e, goro[e], written)
      BY <1>5, <1>7, <2>1, <2>2 DEF NothingOf
    <3>4. AuditOf(e, written, audit[e])
      BY <1>5, <1>7, <2>1, <2>2 DEF AuditOf
    <3> QED
      BY <2>2, <3>1, <3>2, <3>3, <3>4, <1>8
  <2>3. CASE x # e
    BY <2>1, <2>3, <1>8
  <2> QED
    BY <2>2, <2>3
<1>11. InHand' /\ HitsAsExecuted' /\ StatusTellsReason'
  <2>1. HandOf(e, goro[e], audit[e]) /\ HitOf(goro[e]) /\ ReasonOf(goro[e])
    BY OneByOne DEF IInv
  <2> QED
    BY <2>1, <1>2, HandsKept
<1>12. EntriesExecuted'
  BY <1>1, <1>2, EntriesStay DEF Shape
<1> QED
  BY <1>9, <1>10, <1>11, <1>12 DEF IInv

\* The client goes: its exchange and its goroutine are marked.
LEMMA DisconnectKeeps == ASSUME IInv, NEW e \in Exchanges, Disconnect(e) PROVE IInv'
<1> DEFINE late == [conn[e] EXCEPT !.at = "late"]
           left == [goro[e] EXCEPT !.left = TRUE]
<1>1. Shape
  BY InShape
<1>2. /\ conn[e].at = "open" /\ goro[e].at # "gone"
      /\ conn' = [conn EXCEPT ![e] = late] /\ goro' = [goro EXCEPT ![e] = left]
      /\ UNCHANGED <<level, writer, response, entries, audit>>
  BY <1>1 DEF Shape, Disconnect
<1>3. late \in Conns /\ late.at = "late" /\ late.gin = conn[e].gin
  BY <1>1 DEF Shape, Conns
<1>4. /\ left \in Goros /\ left.left /\ left.at = goro[e].at /\ left.gin = goro[e].gin
      /\ left.req = goro[e].req /\ left.answer = goro[e].answer /\ left.why = goro[e].why
  BY <1>1 DEF Shape, Goros
<1> HIDE DEF late, left
<1>5. /\ conn'[e] = late /\ goro'[e] = left
      /\ \A x \in Exchanges \ {e} : conn'[x] = conn[x] /\ goro'[x] = goro[x]
  BY <1>1, <1>2 DEF Shape
<1>6. TypeOK'
  <2>1. conn' \in [Exchanges -> Conns] /\ goro' \in [Exchanges -> Goros]
    BY <1>1, <1>2, <1>3, <1>4 DEF Shape
  <2>2. \A x \in Exchanges : conn'[x].at = "closed" <=> conn'[x].gin = None
    BY <1>1, <1>2, <1>3, <1>5 DEF Shape
  <2> QED
    BY <2>1, <2>2, <1>1, <1>2, TypesNext DEF Shape
<1>7. Bound' /\ Overdue' /\ NothingYet' /\ AuditMatchesAnswer'
  <2> SUFFICES ASSUME NEW x \in Exchanges
      PROVE  /\ BoundOf(x, conn'[x], goro'[x], writer) /\ OverdueOf(x, conn'[x], goro'[x], response[x])
             /\ NothingOf(x, goro'[x], response[x]) /\ AuditOf(x, response[x], audit[x])
    BY <1>2, LocallyNext
  <2>1. /\ BoundOf(x, conn[x], goro[x], writer) /\ OverdueOf(x, conn[x], goro[x], response[x])
        /\ NothingOf(x, goro[x], response[x]) /\ AuditOf(x, response[x], audit[x])
    BY <1>1 DEF Shape
  <2>2. CASE x = e
    <3>1. BoundOf(e, late, left, writer)
      BY <1>2, <1>3, <1>4, <2>1, <2>2 DEF BoundOf
    <3>2. OverdueOf(e, late, left, response[e]) /\ NothingOf(e, left, response[e])
      BY <1>2, <1>4, <2>1, <2>2 DEF OverdueOf, NothingOf
    <3> QED
      BY <2>1, <2>2, <3>1, <3>2, <1>5
  <2>3. CASE x # e
    BY <2>1, <2>3, <1>5
  <2> QED
    BY <2>2, <2>3
<1>8. InHand' /\ HitsAsExecuted' /\ StatusTellsReason'
  <2>1. HandOf(e, goro[e], audit[e]) /\ HitOf(goro[e]) /\ ReasonOf(goro[e])
    BY OneByOne DEF IInv
  <2>2. HandOf(e, left, audit[e])
    BY <2>1, <1>4 DEF HandOf
  <2>3. HitOf(left)
    BY <2>1, <1>4 DEF HitOf
  <2>4. ReasonOf(left)
    BY <2>1, <1>4 DEF ReasonOf
  <2> QED
    BY <2>2, <2>3, <2>4, <1>2, <1>5, HandsKept
<1>9. EntriesExecuted'
  BY <1>1, <1>2, EntriesStay DEF Shape
<1> QED
  BY <1>6, <1>7, <1>8, <1>9 DEF IInv

\* Where a goroutine's answer goes: to the exchange x its context is bound to
\* by then, unless that is closed; of an exchange that was left nothing stays.
LEMMA WhereWritten ==
  ASSUME IInv, NEW e \in Exchanges, Write(e)
  PROVE  /\ writer[goro[e].gin] \in Exchanges /\ goro[e].answer \in Answers
         /\ goro[e].answer.of = e /\ goro' = [goro EXCEPT ![e] = NoGoroutine]
         /\ level' = level /\ conn' = conn /\ writer' = writer /\ entries' = entries
         /\ response' \in [Exchanges -> Seq(Answers)] /\ audit' \in [Exchanges -> Seq(Records)]
         /\ conn[e].at = "closed" => response'[e] = <<>> /\ audit'[e] = <<>>
         /\ conn[e].at # "closed" => audit'[e] = audit[e]
         /\ \A x \in Exchanges \ {e} : audit'[x] = audit[x]
         /\ \A x \in Exchanges : x # e \/ conn[e].at # "closed" =>
              \/ response'[x] = response[x]
              \/ /\ response'[x] = Append(response[x], goro[e].answer)
                 /\ x = writer[goro[e].gin]
<1> DEFINE x == writer[goro[e].gin]
           answer == goro[e].answer
           written == IF conn[x].at = "closed" THEN response
                      ELSE [response EXCEPT ![x] = Append(@, answer)]
<1>1. Shape
  BY InShape
<1>2. goro[e].at = "write" /\ goro' = [goro EXCEPT ![e] = NoGoroutine] /\ level' = level /\ conn' = conn /\ writer' = writer
  BY DEF Write, Steps
<1>3. /\ response' = IF conn[e].at = "closed" THEN [written EXCEPT ![e] = <<>>] ELSE written
      /\ audit' = IF conn[e].at = "closed" THEN [audit EXCEPT ![e] = <<>>] ELSE audit
      /\ entries' = entries
  <2>1. Written(goro[e].gin, answer) = written
    BY DEF Written
  <2> HIDE DEF written
  <2> QED
    BY <2>1 DEF Write
<1>4. x \in Exchanges /\ answer \in Answers /\ answer.of = e
  BY <1>1, <1>2 DEF Shape, BoundOf, HandOf
<1> HIDE DEF answer, x
<1>5. /\ written \in [Exchanges -> Seq(Answers)]
      /\ \A y \in Exchanges : written[y] = response[y] \/ (written[y] = Append(response[y], answer) /\ y = x)
  <2>1. response \in [Exchanges -> Seq(Answers)] /\ Append(response[x], answer) \in Seq(Answers)
    BY <1>1, <1>4, Appended DEF Shape
  <2> QED
    BY <1>4, <2>1
<1> HIDE DEF written
<1>6. response' \in [Exchanges -> Seq(Answers)] /\ audit' \in [Exchanges -> Seq(Records)]
  BY <1>1, <1>3, <1>5 DEF Shape
<1>7. /\ conn[e].at = "closed" => response'[e] = <<>> /\ audit'[e] = <<>>
      /\ \A y \in Exchanges : y # e \/ conn[e].at # "closed" => response'[y] = written[y]
      /\ \A y \in Exchanges : y # e \/ conn[e].at # "closed" => audit'[y] = audit[y]
  BY <1>1, <1>3, <1>5 DEF Shape
<1> QED
  BY <1>2, <1>3, <1>4, <1>5, <1>6, <1>7 DEF x, answer

\* An answer is written where no other goroutine's promise is about it.
LEMMA WriteKeeps == ASSUME IInv, NEW e \in Exchanges, Write(e) PROVE IInv'
<1> DEFINE answer == goro[e].answer
<1>1. Shape
  BY InShape
<1>2. /\ answer \in Answers /\ answer.of = e
      /\ goro' = [goro EXCEPT ![e] = NoGoroutine] /\ level' = level /\ conn' = conn /\ writer' = writer /\ entries' = entries
      /\ response' \in [Exchanges -> Seq(Answers)] /\ audit' \in [Exchanges -> Seq(Records)]
      /\ conn[e].at = "closed" => response'[e] = <<>> /\ audit'[e] = <<>>
      /\ conn[e].at # "closed" => audit'[e] = audit[e]
      /\ \A x \in Exchanges \ {e} : audit'[x] = audit[x]
  BY WhereWritten
<1>3. \A x \in Exchanges : x # e \/ conn[e].at # "closed" =>
        response'[x] = response[x] \/ response'[x] = Append(response[x], answer)
  BY WhereWritten
<1>4. NoGoroutine.at = "gone" /\ NoGoroutine \in Goros
  BY DEF NoGoroutine, Goros, Reasons
<1>5. goro'[e] = NoGoroutine /\ \A x \in Exchanges \ {e} : goro'[x] = goro[x]
  BY <1>1, <1>2 DEF Shape
<1>6. answer.named # None /\ ~answer.hit => Tells(audit[e], answer)
  <2>1. HandOf(e, goro[e], audit[e]) /\ goro[e].at = "write"
    BY <1>1 DEF Shape, Write, Steps
  <2> QED
    BY <2>1 DEF HandOf
<1> HIDE DEF answer
<1>7. TypeOK'
  <2>1. goro' \in [Exchanges -> Goros]
    BY <1>1, <1>2, <1>4 DEF Shape
  <2> QED
    BY <2>1, <1>1, <1>2, TypesNext DEF Shape
<1>8. Bound' /\ Overdue' /\ NothingYet' /\ AuditMatchesAnswer'
  <2> SUFFICES ASSUME NEW x \in Exchanges
      PROVE  /\ BoundOf(x, conn[x], goro'[x], writer) /\ OverdueOf(x, conn[x], goro'[x], response'[x])
             /\ NothingOf(x, goro'[x], response'[x]) /\ AuditOf(x, response'[x], audit'[x])
    BY <1>2, LocallyNext
  <2>1. /\ BoundOf(x, conn[x], goro[x], writer) /\ OverdueOf(x, conn[x], goro[x], response[x])
        /\ NothingOf(x, goro[x], response[x]) /\ AuditOf(x, response[x], audit[x])
        /\ response[x] \in Seq(Answers)
    BY <1>1 DEF Shape
  <2>2. /\ BoundOf(e, conn[e], NoGoroutine, writer)
        /\ NothingOf(e, NoGoroutine, response'[e])
    <3>1. BoundOf(e, conn[e], goro[e], writer)
      BY <1>1 DEF Shape
    <3> QED
      BY <3>1, <1>4 DEF BoundOf, NothingOf
  <2>3. CASE x = e /\ conn[e].at = "closed"
    <3>1. OverdueOf(e, conn[e], NoGoroutine, <<>>) /\ AuditOf(e, <<>>, <<>>)
      BY <2>3, <1>4 DEF OverdueOf, AuditOf
    <3> QED
      BY <2>2, <2>3, <3>1, <1>2, <1>5
  <2>4. CASE ~(x = e /\ conn[e].at = "closed")
    <3>1. audit'[x] = audit[x]
      BY <2>4, <1>2
    <3>2. /\ \A i \in DOMAIN response[x] : i \in DOMAIN response'[x] /\ response'[x][i] = response[x][i]
          /\ \A i \in DOMAIN response'[x] :
               (i \in DOMAIN response[x] /\ response'[x][i] = response[x][i]) \/ response'[x][i] = answer
      <4>1. CASE response'[x] = response[x]
        BY <4>1
      <4>2. CASE response'[x] = Append(response[x], answer)
        BY <4>2, <2>1, <1>2, Appended
      <4> QED
        BY <4>1, <4>2, <2>4, <1>3
    <3>3. OverdueOf(x, conn[x], goro'[x], response'[x])
      <4>1. OverdueOf(x, conn[x], goro[x], response'[x])
        BY <2>1, <3>2 DEF OverdueOf
      <4>2. CASE x = e
        BY <4>1, <4>2, <2>4, <1>4, <1>5 DEF OverdueOf
      <4> QED
        BY <4>1, <4>2, <1>5
    <3>4. NothingOf(x, goro'[x], response'[x])
      <4>1. CASE x = e
        BY <4>1, <2>2, <1>5
      <4>2. CASE x # e
        BY <4>2, <2>1, <3>2, <1>2, <1>5 DEF NothingOf
      <4> QED
        BY <4>1, <4>2
    <3>5. AuditOf(x, response'[x], audit[x])
      BY <2>1, <3>2, <1>2, <1>6 DEF AuditOf
    <3>6. BoundOf(x, conn[x], goro'[x], writer)
      BY <2>1, <2>2, <1>5
    <3> QED
      BY <3>1, <3>3, <3>4, <3>5, <3>6
  <2> QED
    BY <2>3, <2>4
<1>9. InHand' /\ HitsAsExecuted' /\ StatusTellsReason'
  BY <1>2, <1>4, <1>5, IdleHand, HandsKept
<1>10. EntriesExecuted'
  BY <1>1, <1>2, EntriesStay DEF Shape
<1> QED
  BY <1>7, <1>8, <1>9, <1>10 DEF IInv

\* An entry less.
LEMMA VanishKeeps == ASSUME IInv, NEW k \in Keys, Vanish(k) PROVE IInv'
<1>1. /\ entries' = [entries EXCEPT ![k] = None]
      /\ UNCHANGED <<level, conn, goro, writer, response, audit>>
  BY DEF Vanish
<1>2. Shape
  BY InShape
<1>3. entries' \in [Keys -> Contexts \cup {None}]
  BY <1>1, <1>2 DEF Shape
<1>4. TypeOK'
  BY <1>1, <1>2, <1>3, TypesNext DEF Shape
<1>5. EntriesExecuted'
  <2>1. \A j \in Keys : entries'[j] # None => entries'[j] = entries[j]
    BY <1>1, <1>2 DEF Shape
  <2> QED
    BY <2>1, <1>2 DEF Shape, EntriesExecuted
<1>6. Bound' /\ Overdue' /\ NothingYet' /\ AuditMatchesAnswer'
  BY <1>1, <1>2, LocallyNext DEF Shape
<1>7. InHand' /\ HitsAsExecuted' /\ StatusTellsReason'
  BY <1>1, OneByOne, OneByOneNext DEF IInv
<1> QED
  BY <1>4, <1>5, <1>6, <1>7 DEF IInv

-----------------------------------------------------------------------------
(* The theorems.                                                           *)

LEMMA NextInv == IInv /\ [Next]_vars => IInv'
<1> SUFFICES ASSUME IInv, [Next]_vars PROVE IInv'
  OBVIOUS
<1>1. CASE UNCHANGED vars
  <2>1. UNCHANGED <<level, conn, goro, writer, response, entries, audit>>
    BY <1>1 DEF vars
  <2>2. TypeOK'
    BY <2>1, InShape, TypesNext DEF Shape
  <2>3. Bound' /\ Overdue' /\ NothingYet' /\ AuditMatchesAnswer'
    BY <2>1, InShape, LocallyNext DEF Shape
  <2>4. InHand' /\ HitsAsExecuted' /\ StatusTellsReason'
    BY <2>1, OneByOne, OneByOneNext DEF IInv
  <2>5. EntriesExecuted'
    BY <2>1, EntriesStay DEF IInv
  <2> QED
    BY <2>2, <2>3, <2>4, <2>5 DEF IInv
<1>2. ASSUME NEW e \in Exchanges, NEW r \in Requests, Serve(e, r) PROVE IInv'
  BY <1>2, ServeKeeps
<1>3. ASSUME NEW e \in Exchanges, Finish(e) \/ Deadline(e) \/ Disconnect(e) \/ FinishLate(e) PROVE IInv'
  BY <1>3, FinishKeeps, DeadlineKeeps, DisconnectKeeps, FinishLateKeeps
<1>4. ASSUME NEW e \in Exchanges, Lookup(e) \/ Refuse(e) \/ RefuseArguments(e) \/ Fail(e) PROVE IInv'
  BY <1>4, LookupKeeps, RefuseKeeps, RefuseArgumentsKeeps, FailKeeps
<1>5. ASSUME NEW e \in Exchanges, Execute(e) \/ Store(e) \/ Write(e) PROVE IInv'
  BY <1>5, ExecuteKeeps, StoreKeeps, WriteKeeps
<1>6. ASSUME NEW k \in Keys, Vanish(k) PROVE IInv'
  BY <1>6, VanishKeeps
<1> QED
  BY <1>1, <1>2, <1>3, <1>4, <1>5, <1>6 DEF Next

LEMMA Invariance == Spec => []IInv
<1>1. Init => IInv
  BY InitInv
<1>2. IInv /\ [Next]_vars => IInv'
  BY NextInv
<1> QED
  BY <1>1, <1>2, PTL DEF Spec

\* The variables have their types, and a closed exchange holds no gin.Context.
THEOREM CallTypesHold == Spec => []TypeOK
<1>1. IInv => TypeOK
  BY DEF IInv
<1> QED
  BY <1>1, Invariance, PTL

\* What the cache answers is what executing the request would have read, and
\* only for a request that would have been accepted.
THEOREM HitsAreExecutions == Spec => []HitsAsExecuted
<1>1. IInv => HitsAsExecuted
  BY DEF IInv
<1> QED
  BY <1>1, Invariance, PTL

\* A refusal of the API server gets the status of its own reason, unless its
\* text holds a phrase that classifyError looks for before.
THEOREM StatusIsOfReason == Spec => []StatusTellsReason
<1>1. IInv => StatusTellsReason
  BY DEF IInv
<1> QED
  BY <1>1, Invariance, PTL

\* The answer a tool's run gave and its one audit record say the same.
THEOREM AuditAgrees == Spec => []AuditMatchesAnswer
<1>1. IInv => AuditMatchesAnswer
  BY DEF IInv
<1> QED
  BY <1>1, Invariance, PTL

\* A step of the property OnlyAbandonedGoAstray.
Astray(e, x) ==
  /\ response'[x] # response[x] /\ Len(response'[x]) > 0
  /\ Last(response'[x]).of = e

Excused(e) == goro[e].left \/ \E i \in DOMAIN response[e] : response[e][i] = Expired(e)

\* Of the steps only Write puts the answer of one exchange into another, and
\* where it does the chain had left its goroutine behind.
LEMMA StepsAstray ==
  ASSUME IInv, Next, NEW e \in Exchanges, NEW x \in Exchanges \ {e}, Astray(e, x)
  PROVE  Excused(e)
<1>1. Shape
  BY InShape
<1>2. ASSUME NEW f \in Exchanges, response' = [response EXCEPT ![f] = <<>>] PROVE FALSE
  <2>1. response'[x] = response[x] \/ response'[x] = <<>>
    BY <1>1, <1>2 DEF Shape
  <2> QED
    BY <2>1 DEF Astray
<1>3. ASSUME response' = response PROVE FALSE
  BY <1>3 DEF Astray
<1>4. ASSUME NEW f \in Exchanges, NEW r \in Requests, Serve(f, r) PROVE FALSE
  BY <1>2, <1>4 DEF Serve
<1>5. ASSUME NEW f \in Exchanges, Finish(f) \/ Disconnect(f) \/ FinishLate(f) PROVE FALSE
  <2>1. response' = [response EXCEPT ![f] = <<>>] \/ response' = response
    BY <1>5 DEF Finish, Disconnect, FinishLate, Forgotten
  <2> QED
    BY <2>1, <1>2, <1>3
<1>6. ASSUME NEW f \in Exchanges, Deadline(f) PROVE FALSE
  <2> DEFINE answer == Answer(f, 504, None, None, FALSE)
  <2>1. answer \in Answers /\ answer.of = f
    BY DEF Answer, Answers
  <2>2. response' = Written(conn[f].gin, answer) /\ conn[f].at = "open"
    BY <1>6 DEF Deadline
  <2> HIDE DEF answer
  <2>3. writer[conn[f].gin] = f
    BY <1>1, <2>2 DEF Shape, BoundOf
  <2>4. response' = [response EXCEPT ![f] = Append(response[f], answer)]
    BY <2>2, <2>3 DEF Written
  <2>5. x = f /\ response'[x] = Append(response[x], answer) /\ response[x] \in Seq(Answers)
    BY <1>1, <2>4 DEF Shape, Astray
  <2>6. Last(response'[x]) = answer
    BY <2>1, <2>5, LastOf
  <2> QED
    BY <2>1, <2>5, <2>6 DEF Astray
<1>7. ASSUME NEW f \in Exchanges, Write(f) PROVE Excused(e)
  <2>1. /\ goro[f].answer \in Answers /\ goro[f].answer.of = f
        /\ conn[f].at = "closed" => response'[f] = <<>>
        /\ x # f \/ conn[f].at # "closed" =>
             \/ response'[x] = response[x]
             \/ response'[x] = Append(response[x], goro[f].answer) /\ x = writer[goro[f].gin]
    BY <1>7, WhereWritten
  <2>2. response'[x] = Append(response[x], goro[f].answer) /\ x = writer[goro[f].gin]
    BY <2>1 DEF Astray
  <2>3. e = f
    <3>1. response[x] \in Seq(Answers)
      BY <1>1 DEF Shape
    <3>2. Last(response'[x]) = goro[f].answer
      BY <2>1, <2>2, <3>1, LastOf
    <3> QED
      BY <2>1, <3>2 DEF Astray
  <2>4. goro[e].at = "write"
    BY <1>7, <2>3 DEF Write, Steps
  <2>5. conn[e].at # "open"
    BY <1>1, <2>2, <2>3, <2>4 DEF Shape, BoundOf
  <2>6. conn[e].at = "late" \/ conn[e].at = "closed"
    BY <1>1, <2>5 DEF Shape, Conns
  <2> QED
    BY <1>1, <2>4, <2>6 DEF Shape, OverdueOf, Excused
<1>8. ASSUME NEW f \in Exchanges,
             Lookup(f) \/ Refuse(f) \/ RefuseArguments(f) \/ Fail(f) \/ Execute(f) \/ Store(f)
      PROVE  FALSE
  <2>1. response' = response
    BY <1>8 DEF Lookup, Refuse, RefuseArguments, Fail, Execute, Store
  <2> QED
    BY <2>1, <1>3
<1>9. ASSUME NEW k \in Keys, Vanish(k) PROVE FALSE
  BY <1>3, <1>9 DEF Vanish
<1> QED
  BY <1>4, <1>5, <1>6, <1>7, <1>8, <1>9 DEF Next

\* No goroutine writes to another exchange unless its own was answered with the
\* 504 of its deadline, or left by its client, before.
THEOREM StraysAreAbandoned == Spec => OnlyAbandonedGoAstray
<1> DEFINE Guarded == \A e \in Exchanges : \A x \in Exchanges \ {e} :
             (response'[x] # response[x] /\ Len(response'[x]) > 0 /\ Last(response'[x]).of = e)
             => goro[e].left \/ \E i \in DOMAIN response[e] : response[e][i] = Expired(e)
<1>1. IInv /\ [Next]_vars => [Guarded]_vars
  <2> SUFFICES ASSUME IInv, Next, NEW e \in Exchanges, NEW x \in Exchanges \ {e}, Astray(e, x)
      PROVE  Excused(e)
    BY DEF Astray, Excused
  <2> QED
    BY StepsAstray
<1> HIDE DEF Guarded
<1>2. Spec => [][Guarded]_vars
  BY <1>1, Invariance, PTL DEF Spec
<1> QED
  BY <1>2 DEF OnlyAbandonedGoAstray, Guarded
=============================================================================
