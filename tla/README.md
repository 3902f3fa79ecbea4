# kubectl-mcp in TLA+

TLA+ modules, TLC configurations and TLAPS proofs for `kubectl-mcp`, the Go
server that lets an MCP client read and change Kubernetes clusters over HTTP.
Paths below are relative to the repository (`src/` here).

Contents: [inventory](#inventory), [modules and the code](#modules-and-the-code),
[runs](#runs), [bounds](#bounds), [fairness](#fairness), [proofs](#proofs),
[where code and documents disagree](#where-code-and-documents-disagree),
[not modelled](#not-modelled), [plan](#plan).

## Inventory

A request of the MCP client crosses these parts:

    client -> gin chain (CORS, logging, rate limit, auth, timeout, metrics)
           -> handleToolCall -> QueryCache
                             -> MCPHandler -> ToolRegistry -> tool
                                           -> audit log      -> K8SClientManager -> API server
                                                                -> ServiceIndexer

| component | state it keeps | operations | hard behaviour | correct when | modelled in |
|---|---|---|---|---|---|
| **HTTP request lifecycle** `internal/server/http.go`, `ratelimiter.go` | token bucket, semaphore and counter of the concurrency limiter, gin's handler index, the concurrency gauge, `closed` | Acquire, Release, the middlewares, Shutdown | two goroutines for one exchange, one of which is abandoned at the deadline; disconnects; a limiter that closes under its waiters | no permit leaks or is returned twice, the gauge counts what it says, waiters get a slot or give up, shutdown drains, nobody gets another's answer | RequestLifecycle, ToolCalls |
| **Tool call handler and query cache** `handleToolCall`, `cache.go` | map of entries with TTL and creation time | Get, Set, InvalidateByTool, Clear, clean-up | a query reads, a modification applies and clears, the query stores; lost answers of modifications | a modification that succeeded leaves no stale answer behind; the map keeps its size; a hit answers what an execution would | ToolCallCache, ToolCalls |
| **MCP protocol** `internal/mcp` | none | HandleToolCall, validation, pagination, error classification | the request's context is validated, logged and echoed but not given to the tool; errors are classified by phrases of their text | status, answer and audit record tell what happened | MCPProtocol, ToolCalls |
| **Tool registry** `internal/tools/registry.go`, `types.go` | registered tools (constant after start-up) | ExecuteTool, argument validation | order of the checks | no tool runs on arguments its schema refuses | MCPProtocol, ToolCalls |
| **Service indexer** `internal/k8s/service_indexer.go` | `nodePortIndex`, `serviceCache`, `syncError`, a watch loop | Start, fullSync, watchLoop, handleWatchEvents, Stop | replays, gaps between List and Watch, watches closed by the server, back-off, Stop at any time | the two maps agree; the cache follows the cluster; Stop returns | ServiceIndexer |
| **Client manager and contexts** `internal/k8s/client.go`, `context.go` | current context, pool of clients, indexers, one RWMutex | Get…, Get…ForContext, SwitchContext, Close | read under one lock, used under the next; the lock kept over a List and over Stop; the kubeconfig re-read from disk | a context's caller gets that context's client; one watch loop per indexer; every call is answered | K8SClientManager, CurrentContext |
| **Application and configuration** `cmd/server/main.go`, `internal/config` | the components, signals, layered configuration | Initialize, Run, Shutdown, Load, Validate | a signal in the middle of start-up, shutdown under abandoned tools, a server error that skips Shutdown | components close in an order their users survive; the process ends; its exit status is true | Application |
| **Audit log** `internal/audit/logger.go` | file, mutex | Log…, Close | writes after Close | every executed call that was drained leaves its record, and the record tells what was answered | Application, ToolCalls |
| **Metrics collector** `internal/audit/metrics.go` | atomic counters, a maximum raised by compare-and-swap | RecordRequest, Increment/DecrementConcurrent, GetMetrics | counters updated and read one by one | the maximum is exact; a snapshot is off by what is under way, no more | Metrics, Application |
| **Updating, creating and deleting tools** `internal/tools/update_*.go`, `create*.go`, `delete*.go` | none | get, edit, update; create; delete; batch with a goroutine per name | other writers between two requests, lost answers, partial failure, int32 wrap-around | no lost update, reports that are true, batches that add up | WriteTools, ToolWrites, AtomicWrites |
| **Deletion preview** `delete_preview.go` | a result shared by goroutines | analyse each name | partial failure of the lists, order of booking | what is listed depends on what would be deleted; the parts add up | DeletePreview, QueryTools |
| **Querying and tracing tools** `query*.go`, `describe.go` | none | one read, or a chain of them | reads of different moments, lists that fail and are skipped, the indexer's lag | what stays is found, nothing is told that never was | ResourceQueries, ServiceTracing, QueryTools |
| **Inspections** `inspect*.go` | none | up to ten lists, then comparisons | the lists are of different moments, some are dispensable, the report is cut before it is summed up | no fault that stays is passed over, none is invented | Inspections, QueryTools |
| Streaming helpers, SlidingWindowLimiter, error helpers | – | – | no part of the server uses them | – | – |

`PROJECT.json` lists the hazards of this code, each at its line with the
properties that watch it.

How the modules depend on each other (an arrow is EXTENDS):

    RequestLifecycle      ToolCallCache      ServiceIndexer      K8SClientManager ..> CurrentContext
    MCPProtocol <- ToolCalls
    Metrics <- Application
    ApiServer <- WriteTools <- AtomicWrites
                            <- ToolWrites ..> AtomicWrites            (..> implements)
    ClusterReads <- ResourceQueries <- ServiceTracing <- DeletePreview
                 <- Inspections <- QueryFacts <- QueryTools

## Modules and the code

`PROJECT.json` maps every definition to its lines. What follows is the
correspondence in words.

### RequestLifecycle

One exchange is a pair of locations: `conn`, where the goroutine net/http runs
for the connection is, and `work`, where the goroutine `timeoutMiddleware`
starts for the rest of the chain is. `sem` and `current` are the two books of
`ConcurrencyLimiter` (written in separate steps: `TakeSlot` then `CountIn`,
`CountOut` then `ReturnSlot`), `tokens` the bucket, `gauge` the metrics
collector's `currentConcurrent`, `phase` the progress of `HTTPServer.Shutdown`.

- `Arrive … CountIn` are `rateLimitMiddleware` and
  `CompositeRateLimiter.Acquire`: the loop of `TokenBucketLimiter.Wait`
  (`WaitToken`, `WakeUp`, `RefuseClosed`), then the send on the semaphore.
- `Deny`, `Spawn` are `authMiddleware` and the start of `timeoutMiddleware`.
- `Finished` and `GiveUp` are the two branches of its select. `GiveUp` has
  three outcomes: after a deadline `Abort` normally stops the chain, but after a
  disconnect there is no `Abort`, and gin's handler index is shared by both
  goroutines without a lock, so the connection's goroutine may run the
  metrics middleware or the handler itself (`inline`, `inlineBare`).
- `Enter`, `Dispatch`, `Skip`, `Return` are the work goroutine in
  `metricsMiddleware` and the handler, `Skip` being the chain that has been
  aborted under it. Once the chain has returned, gin may reset the Context for
  another exchange while work is still in its `Next` loop, which reads the index
  of that exchange by then and may run or skip its handlers (`http.go:509-512`,
  `http.go:570`). That is collapsed to the end of work.
- `CloseLimiter`, `StopListening`, `ShutdownReturns` are `Shutdown`.

What is written to the response, and by which goroutine, is in `ToolCalls`;
CORS, logging and the method filter keep no state and are left out.

### ToolCallCache

`entries`, `expired` and `older`, which pairs the keys present by their
`CreatedAt`, are the cache; `evictOldest` drops the key that is older than every
other (`OldestOf`). `calls` is what each `handleToolCall` is doing; `version` stands for the cluster. One
acquisition of the cache's lock is one step: `Lookup` and `DropExpired` are the
two halves of `Get`, `Store` is `SetWithTTL` with its eviction, `Invalidate` one
`InvalidateByTool` (or `Clear`), of which `handleToolCall` makes as many as
`InvalidatingTools` lists tools for the one that was called. A modification
that was applied may still be reported as an error, and then nothing is cleared.
`crossed` is a history variable: the result was read before, and stored after,
an invalidation.

### ServiceIndexer

`serviceCache`, `nodePortIndex` and `portEntries` are the two maps, `loop` the
location of `Start` and then of `watchLoop`, `stream` the events of the open
watch that are still to be handled. `Replace` and `Forget` are the two event
handlers, written over `Appended`, `Removed` and `Emptied`, what the loops of
`addServiceToIndex` and `removeServiceFromIndex` do to the maps; `Rebuild` is
`fullSync`. A Service that lists a NodePort twice (TCP and UDP) is in the index
twice, so the index is a bag. The API server (`Change`, the replay of
`OpenWatch`, `DropWatch`, faults) is the environment, modelled from how the
code uses client-go: `Watch` with empty `ListOptions` replays what exists as
ADDED and does not say what was deleted before.

### K8SClientManager and CurrentContext

`currentCtx`, `clientPool`, `serviceIndexers` are the manager's fields. A
client is known by the cluster it talks to. What is done under one acquisition
of the lock is one step, except for the two places that keep the lock over
something slow, `Start` of a new indexer (`BeginIndexer`, `EndIndexer`) and
`Close` (`BeginClose`, `StopIndexer`, `EndClose`), where `holder` is the owner.
`GetClient` and `GetServiceIndexer` read the current context under one
acquisition (`ReadCurrent`) and use it under the next. `fileCurrent` is the
current-context of the kubeconfig on disk, which every new client reads again
and anybody may edit. `loops` counts the watch loops that run for a name.

The server itself never calls `SwitchContext` at this commit: the
`switch_context` tool the project's README describes is not registered, and only
tests call the method. It is part of the manager's interface and is modelled.

`CurrentContext` is what the manager promises of the current context, in four
actions. `K8SClientManager` implements it under the mapping
`ChosenContext`.

### MCPProtocol and ToolCalls

`MCPProtocol` holds what `internal/mcp` and the registry decide about a call
without running it: `ValidateRequest`, the arguments' check of `validateArgs`,
the options, `classifyError` with its order of checks, and the status of each
class. The text of an error is the set of phrases `classifyError` looks for
that occur in it. `Failures` may be any set of texts whose reason brings its own
phrase along and that hold any others beside it: the text quotes the names of
objects, and a Forbidden of an RBAC change says of a role that it is "not found".

`ToolCalls` composes it with `handleToolCall`, `timeoutMiddleware` and gin's
pool. `conn` is what the chain of an exchange does, `goro` the goroutine that
`timeoutMiddleware` starts, `writer` what exchange a `gin.Context` is bound to.
The goroutine keeps its `gin.Context` for as long as the tool runs, also after
the 504 of the deadline (`Deadline`) or when the client has gone and nothing is
written (`Disconnect`); gin gives the context to another exchange meanwhile. An entry of
the cache is the context its data was read from, so that a hit can be compared
with an execution. `audit` and `response` are sequences per exchange. What zap keeps of a record
depends on `level`: a success is written at Info, a failure at Error (`Logged`).

### Metrics and Application

`counter` holds the atomic counters of `MetricsCollector`; `MetricsStep` is one
atomic operation of a worker, the load and the compare-and-swap of the maximum
being two. `Read` is one load of a snapshot of GET /metrics.

`Application` extends it: a worker is the goroutine of an accepted request. It
follows `main` from `LoadConfig` (the layering of flags, environment, file and
defaults, then `Validate`) through `InitAudit`, `InitManager`, `WarmUp` and
`InitServer` to `TakeSignal` or `TakeError`, `Drain` or `DrainTimeout`,
`CloseManager`, `CloseAudit` and `Exit`. `Publish` and `Listen` are the two
steps of the goroutine that runs the HTTP server: a signal that arrives
before the first finds no server to shut down. `lost` records the audit records
the log did not get, because they were below its level or because the file was
closed (`Written`); `leftover` is an indexer that was started after the manager
had closed. A tool may ask the manager for an indexer (`AskIndexer`) and then
keeps the manager's lock until the List of its `Start` ends (`GetIndexer`), which
`CloseManager` has to wait for. That the watch loops `Close` stops do end is
`StopReturns` of ServiceIndexer.

### ApiServer, WriteTools, ToolWrites and AtomicWrites

`ApiServer` is external: every write gives an object a new resourceVersion, an
Update with another version is refused, a Create of a taken name is refused,
and others write, create and delete too. A DELETE may be graceful: an object of
`Lingering` is marked (`Mark`), still there for every reader, can be deleted
again, and goes later. `WriteTools` has the refusals of each
handler, the object a creating tool builds and the edit an updating tool makes;
what `getInt32Arg` makes of a number out of range is left to the build
(`Unrepresentable`). A patch replaces any fields of the object, selectors and
labels among them (`Patched`). `ToolWrites` is the handlers as they are:
`Begin` (refusals), `Get`, `Write` (`Update`, `Apply`, `Create`, `Patch` or
`Delete`), `Reject` and `Report`; for a batch `List`, `Spawn`, then a
`DeleteName` and a `Book` under the mutex for each goroutine, and `Join`. Any
request to the API server may fail, also after it took effect.

`AtomicWrites` is what a caller may rely on: a call answered with success did
its work at one instant and reports the value it replaced; a call answered
with an error changed nothing or lost the API server's answer; a batch deletes
one by one. `ToolWrites` implements it (the two share the variables
`objects`, `version`, `request` and `answer`).

### The reading tools

`ClusterReads` is the external API server as the reading tools meet it: a read
returns the objects there are when it is served. `ResourceQueries` has the
tools that make one read, `ServiceTracing` those that go from a NodePort or a
host to Services, endpoints and workloads, `DeletePreview` the preview, and
`Inspections` the eleven `inspect_*` tools: the refusals, the kinds each lists in
its order, which lists it goes on without, its findings, the sort and the
cut of the report and the status made of what was left.

`QueryTools` runs one call: `at`, `got` and `lost` are where the handler is, what
it has read and what failed. The next read is chosen by what the reads before
it found; one change of the cluster may fall between any two of them. The
NodePort tools have their Services from the indexer: `index` of a scene is
whatever it holds, be it behind the cluster or with Services that were deleted
long ago (indexer_missed), and `View` is the cluster as such a call sees it.
What these tools say of Services is as fresh as the index, which is
`TracksCluster` and `EventuallyIndexed`; what they join to them is not made up.

`QueryFacts` says independently of the handlers what a call should tell of one
cluster (`Wanted`) and what it may (`May`). Relations are joins of objects there,
troubles are predicates of one object and its surroundings, and nothing is read
in any order. Where the code takes a likeness for the thing itself, the two
differ: a preview must name what a workload owns and may name every Pod with the
labels it selects, Pods of another owner among them; a workload behind a Service
must be one whose Pods the Service selects and whose selector shows it.
`FindsWhatStays` compares an answer with what was wanted both
before and after the change; `TellsOnlyWhatWas` with what was allowed before
or after it.

### MC modules and proofs

`MC*.tla` hold the definitions a configuration needs (symmetry sets, Services,
requests, scenes); `*_proofs.tla` the theorems. Operators whose comment begins
with "Mutant:" are not part of a specification: each is a plausible slip in the
definition that follows it, and the property it is paired with in
`PROJECT.json` is violated when it takes that definition's place.

## Runs

Run `tlc -config <cfg> <module>`; states are distinct states. The cfg has the
name of the module without `MC`.

| run | module | states | what it shows |
|---|---|---|---|
| lifecycle | MCRequestLifecycle | 459 068 | `PermitAccounting`: both books of the limiter agree with the connections at every step, on every way out of the chain (401, 429, 504, disconnect, normal end). `AdmittedWithinLimit`: at most `MaxConcurrent` limited requests hold a permit. `GaugeExact`: the gauge counts each goroutine inside `metricsMiddleware` once, abandoned ones included. `SlotObtained`: who waits for a slot gets it or gives up, even if every tool hangs. `Drains`: after the listener is closed every connection comes to rest |
| cache | MCToolCallCache | 346 244 | `NoEntryOutlivesModification`: after a modification was answered, the only older entries are those that were on their way to the cache when it was cleared. `SizeBounded`: the map keeps its size. `EventuallyFresh`: when modifications cease, every entry left tells the present state, whatever raced, failed or lost its answer |
| cache_unlisted | …, ToolCallCache_unlisted.cfg | violation | `delete_resources` clears nothing |
| indexer | MCServiceIndexer | 1 046 602 | `IndexMatchesCache`: the maps agree over replays, repeats and stale events. `TracksCluster`: with a watch open, the cache lags the cluster by the events under way, except for Services deleted while no watch was open. `EventuallyIndexed`: every Service there is ends up indexed as it is. `StopReturns`: the loop ends from wherever it is |
| indexer_missed | …, ServiceIndexer_missed.cfg | violation | a watch that was open is closed before it brings a deletion, another is opened, and the Service stays in the cache |
| manager | MCK8SClientManager | 590 764 | `ContextIsolation`: who names a context gets that context's cluster. `LoopsOwned`: no watch loop is started twice, lost or left behind. `ImplementsCurrentContext`: switches are atomic and a call without a context keeps the one it read. `Answered`: every call returns, though Start and Close keep the lock |
| calls | MCToolCalls | 2 627 960 | `HitsAsExecuted`: a hit answers what an execution would. `StatusTellsReason`: a refusal of the API server gets the status of its reason, unless its text holds a phrase `classifyError` looks for earlier. `AuditMatchesAnswer`: the log has of every executed call what its level lets through, as it was answered. `OnlyAbandonedGoAstray`: only a goroutine left at its deadline or by its client writes to an exchange that is not its own |
| calls_context | …, ToolCalls_context.cfg | violation | a request's context field is answered but not used |
| calls_crosstalk | …, ToolCalls_crosstalk.cfg | violation | an abandoned handler answers somebody else's exchange |
| application | MCApplication | 1 409 825 | `MaxExact`: the maximum is the greatest value the gauge had, once no one is raising it. `SnapshotConsistent`: a snapshot's sums are off by the requests under way only. `AuditComplete`: a record is missing only if the level drops it, or through a drain that timed out, an early signal or an abandoned tool. `CleanExit`: status 0 means that every accepted request was answered and no watch loop is left, with the same exceptions. `Stops`: a signal or a server error ends the process, as long as each List that a tool holds the manager's lock over ends |
| writes | MCToolWrites | 797 487 | `ImplementsAtomicWrites`: get, edit and update, batches and lost answers show nobody anything that calls working at one instant would not. `BatchAddsUp`: a batch's lists count every goroutine once, and what they call deleted was deleted by the batch and does not live on (a Pod with a grace period can be listed twice for one deletion, any other object cannot). `DefaultsMeet`: a Service made without a selector selects the Pods of the Deployment made under its name, whatever labels either was given, until a patch or a manifest chooses the selector or the Pods' labels anew. `Answered`: every call is answered |
| queries | MCQueryTools | 69 426 | `FindsWhatStays`, `TellsOnlyWhatWas`: above. `PreviewAddsUp`: every name is booked once, the impacts are summed and the highest risk is kept. `AnsweredAtLast`: every call is answered, but one that comes upon a path without a Service it was asked about, which ends the process |

Deadlock is checked except in `application` (the process exits) and `queries`
(the call ends). Elsewhere something can always be asked for, or the system has
ended in the self-loop `Terminated`.

## Bounds

- **lifecycle**: three exchanges, one slot, one token. A holder and two waiters
  are enough for a release to race an acquisition and for the bucket to be
  empty; the theorems cover any limit. Time is abstract: any deadline or timer
  may strike whenever it is armed, so no ratio of durations is assumed.
- **cache**: two calls (a query to race a modification, another query or
  itself the next time), three keys and `MaxSize = 2` so that an eviction has
  two entries to choose the older of, `MaxWrites = 2` so that an older
  modification can be answered after a newer one, and one tool of each class
  (one and two invalidations). The theorems cover any number of calls.
- **indexer**: two Services, two NodePorts, Services that list none,
  one, one twice, and both, three changes, two faults, three events under way
  (both Services replayed and a change after them).
- **manager**: two callers, two contexts, a name no context has, the
  empty name, and the cluster of the in-cluster configuration.
- **calls**: two exchanges on two gin contexts, one goroutine past its deadline
  or its client at a time (`MaxAbandoned`): one is enough to meet another's
  exchange. The requests differ in the context field, the context argument and
  the page, and there are refused and failing ones; two texts of refusals,
  with a phrase of a later and of an earlier class beside their own (the theorem is
  about all); a log level
  that keeps successes and one that drops them. Exchanges and gin contexts
  are symmetric; the run states no liveness.
- **application**: two workers, four layered configurations, one with a level
  that drops successes. `AskIndexer` is held off while a snapshot is read, and
  GET /metrics while an indexer is asked for or a record missing: the counters
  and the manager do not meet.
- **writes**: every two requests that can be about the same objects (a Deployment
  and its Service; Pods; namespaces), against clusters that have them, lack them
  or have them as earlier calls of the creating tools made them; Pod `p` has a
  grace period, Pod `q` none. Others write
  one Deployment and one Pod up to version 3; `IntMax` 4 stands for 2^31; two
  readings of the clock in whole seconds.
- **queries**: a shop (Services, Ingress, workloads, Pods, configuration) and a
  ward (an object of every kind in every kind of trouble), an index that is behind,
  ahead or has a Service that is gone, one change during the
  call out of a list, one lost read (`MaxFailures`). With two changes during
  one call a join of reads may tell what never was at one instant: Kubernetes
  gives no snapshot over several lists, and the code promises none. A Pod has
  one container.

## Fairness

Each `FairSpec` says what it assumes; nothing is assumed of clients, which
need not call, disconnect or switch.

- *RequestLifecycle*: a goroutine that can run does (WF), an armed timer
  fires (WF of `WakeUp`, `GiveUp`: the context of `timeoutMiddleware` has a
  deadline), and blocked senders of a Go channel are queued first in, first
  out, which is SF of `TakeSlot`. **Nothing is assumed of the tool in the
  work goroutine**: it may hang for ever, which is the point of `SlotObtained`
  and `Drains`. A handler that the connection's goroutine runs itself returns,
  since its context is cancelled already.
- *ToolCallCache*: a call that has begun goes on (WF), entries grow old, the
  ticker of `cleanupLoop` ticks.
- *ServiceIndexer*: the loop runs, the API server answers, the back-off's
  timer fires (WF). `MaxChanges` and `MaxFaults` make changes and faults cease,
  without which nothing could be promised; neither has to happen.
- *K8SClientManager*: SF of each caller's steps. The lock is a
  `sync.RWMutex`, whose waiters are not starved; a List ends when its
  connection does; a stopped loop ends, which is `StopReturns`.
- *Application*: WF of `Initialize` and `Shutdown`, the main goroutine, and of
  `GetIndexer`: the API server ends a List, or client-go its connection. The code
  sets no deadline for it (`service_indexer.go:107` lists with the indexer's own
  context), and without that assumption `Shutdown` could wait for the manager's
  lock for ever: no timeout covers `main.go:243`. Nothing else of the tools or of their deadlines: the drain has a
  timeout.
- *ToolWrites*, *QueryTools*: WF of the handlers' steps, because every request
  to the API server ends, at the latest with the deadline of the call's context.
- *ToolCalls*: none; it has safety properties only.

## Proofs

Checked by TLAPS for every value of the constants that satisfies the module's
assumption. Every invariant of the passing runs but two is a
theorem.

| theorem | of | what it says |
|---|---|---|
| TypeCorrect, PermitsExact, AdmittedBounded, GaugeCorrect | RequestLifecycle_proofs | the four invariants of `lifecycle`, for any finite set of exchanges, any limit and any burst |
| InvalidationHolds | ToolCallCache_proofs | `NoEntryOutlivesModification`, if each tool that is called is one the handler invalidates for (the hypothesis `Tools \cap NeverCleared = {}`; cache_unlisted shows that it is needed) |
| CacheTypes, CacheIsBounded | ToolCallCache_proofs | `TypeOK` and `SizeBounded`, whichever tools are called, for any calls, keys and size |
| IndexerTypes, IndexConsistent, CacheTracksCluster | ServiceIndexer_proofs | `TypeOK`, `IndexMatchesCache` and `TracksCluster`, for any finite set of Services, any NodePorts and multiplicities, any number of changes, faults and events under way |
| ManagerTypes, Isolation, NoLoopLost | K8SClientManager_proofs | `TypeOK`, `ContextIsolation`, `LoopsOwned`, for any callers and contexts |
| Refinement | K8SClientManager_proofs | `Spec` implies `CurrentContext!Spec` under the mapping |
| CallTypesHold, HitsAreExecutions, StatusIsOfReason, AuditAgrees | ToolCalls_proofs | `TypeOK`, `HitsAsExecuted`, `StatusTellsReason`, `AuditMatchesAnswer`, for any exchanges, gin contexts, requests, texts of failures and log levels |
| StraysAreAbandoned | ToolCalls_proofs | the action property `OnlyAbandonedGoAstray`, with deadlines and disconnects |
| MaximumIsKept, SnapshotsAddUp | Application_proofs | `MaxExact` and `SnapshotConsistent` of the collector, for any finite set of workers |
| AppTypesHold, AuditIsComplete, ExitIsClean | Application_proofs | `TypeOK`, `AuditComplete`, `CleanExit`, for any workers and any sources of the configuration |
| WritesTypes, BatchSums, LabelsMeet | ToolWrites_proofs | `TypeOK`, `BatchAddsUp` and `DefaultsMeet`, for any calls, objects, patches, edits of others and batches, and any objects that may linger |
| WritesAtomic | ToolWrites_proofs | `ToolWrites` implements `AtomicWrites` |
| PreviewsAddUp | QueryTools_proofs | `PreviewAddsUp`, for any scene, any names and any order in which the goroutines book |
| OneReadIsTold | QueryTools_proofs | `FindsWhatStays` and `TellsOnlyWhatWas` for the tools that make one read (`ResourceTools`), for any cluster and any change of it |
| TracesAreTold | QueryTools_proofs | the same two properties for the tools that follow a chain of reads (`TracingTools`), for any cluster, any change of one object and any index |

Assumptions: the named ASSUMEs of the modules, which TLC evaluates in every run
of those modules. They say that limits are positive or natural numbers, that
sets that are counted are finite, and that placeholders (`NoEntry`, `None`,
`Absent`) are distinct from what they stand for the lack of. Seven say more.
`CallsAssumption`: whether a tool's name is well-formed depends on the name
alone, as in `isValidToolName`. `FailuresAssumption`: the text of a refusal that
has a class of its own holds the phrase of its reason. `ToolWritesAssumption`: a
scenario starts with objects at their first version. `ScenesAssumption`: clusters are finite, an Event
is about one object (the field selector of `get_events` looks at one), the kube
config's context has a namespace, and of what a one-read tool has no argument
for (`register_query.go`) its request gives nothing. `TracesAssumption`:
while a tracing tool reads, one object changes (with two that change, a chain of
reads may join what never was together, and the property is false of the code);
a cluster has one object of every kind, namespace and name; Services have a
namespace and a name; paths and hosts are sequences; a workload's Pods have the
labels it selects, which the API server insists on. `PreviewsAssumption`: what a
workload owns has the labels it selects, because a controller lets go of the rest.
`MakerAssumption`: `maker` is "create" only in
what the creating tools build, since the field is the model's own: at the start
in objects that have the label of their name, never in a foreign one.

Arguments:

- **RequestLifecycle.** The books of the limiter are cardinalities of sets of
  connections, and an exchange that skips the limiter passes through some of the
  same locations. `IInv` therefore adds `PathsDisjoint`: an exempt exchange is
  never at a step of the limiter, and `timeoutMiddleware` starts its goroutine
  where none is left. Each action then moves one exchange into or out of a
  set (or leaves it), and two lemmas on cardinalities (a member joins, a
  member leaves) do the rest. `CountOut` and `ReturnSlot` guard against going
  below zero; the invariant shows that the guards never bite.
- **ToolCallCache.** `NoEntryOutlivesModification` speaks of answered
  modifications, but the cache is emptied before the answer. `IInv` carries
  `NothingBefore(v)` (what was read before `v` is gone or was on its way) for
  `acked` and for every modification that has emptied the cache at least
  once, together with `NothingAhead` (nothing has a version the cluster has not
  had) and `ToolKnown`. `Invalidate` establishes it, `Acknowledge` turns it into
  the claim for `acked`. For the size, `TypeOK` says of `older` that any set of
  keys that are present has an oldest; that is what makes `Store` find the
  entry to evict when the map is full (`SizeInv`, with `KeyKnown`: a query
  under way knows its key).
- **ServiceIndexer.** `IndexMatchesCache` is inductive over the types of the
  three maps. `TracksCluster` is not: an event may be followed by another of the
  same Service. `KeepsUp` says it of every Service by itself: the cache has it as
  it is and nothing about it is under way, or the last event about it brings it.
  Appending an event makes it the last, handling the head leaves the last in
  place or puts its content into the cache.
- **K8SClientManager.** `IInv` adds `PoolIsolated` (what is kept under a
  context's name belongs to it), `CallsIsolated` (so does what a call has got so
  far), `LockHeld` (the holder, and no one else, is in Start or Close, and an
  indexer that is starting is not in the map) and `DefaultsKnown`. `LockHeld` is
  what makes `LoopsOwned` inductive: `EndIndexer` finds the map as
  `BeginIndexer` left it. The refinement uses it too: each step of the manager
  is one of `Switch`, `Choose`, `Finish`, or leaves both abstract variables
  alone.
- **ToolCalls.** `IInv` adds what ties the goroutine, its gin.Context and the
  exchange together: `Bound` (until the chain returns, all three belong to one
  another; afterwards the goroutine's gin.Context may be bound to any exchange), `Overdue` (a
  chain that returned before its goroutine has written a 504 or was left by its
  client), `EntriesExecuted`
  (an entry is what some accepted request with that key has read), `InHand`
  (what a goroutine has and has recorded at each step) and `NothingYet`. A hit
  is an execution because the key determines the page, the arguments and
  whether the request is valid (`SameKeyRuns`): the one thing it leaves
  out, the size of a page before it is normalised, is what `HitsAsExecuted`
  excepts. `StraysAreAbandoned` follows from `Bound` and `Overdue`.
- **Metrics and Application.** `MetricsInv` is about one atomic operation of one
  worker: `CountersAgree` (each counter is behind by the workers between two
  of its steps), `MaxKept` (the maximum is the highest value of the gauge, or a
  worker in the loop carries that value and has not given up) and `ShotKept`
  (what the snapshot has read so far against what it will read at least). It
  holds for the collector alone and is a part of `IInv`, whose other parts are
  `ConfigKept`, `CodeKept`, `DrainKept` (after a drain with no excuse no
  connection is open and none will be), `FileKept` and `WorkersKept`. The
  audit log is complete, but for what its level drops, because only `CloseAudit`
  closes the file, and it comes after the drain.
- **ToolWrites.** `IInv` is `TypeOK` with `Shapes` (what a handler has read is
  an object of the kind it asked for), `ReadCurrent` (an object that still has
  the version a handler read is the object it read, because versions are never
  given out twice), `Supervised` (only a batch has goroutines, and it is
  answered after the last) and `BooksKept` (a success that is booked or about to
  be has a deletion of that name, for an object that goes at once there are as
  many deletions as successes, and what was deleted does not live on: it is gone,
  it is dying, or another was made). `ReadCurrent` is why an Update that the API
  server accepts is an atomic edit of the present object; every other step of a
  handler is a stutter of `AtomicWrites` or an answer it allows. `LabelsMeet`
  needs `LabelsKept`: what the creating tools made still has the label of its
  name, in the template of a Deployment and in the selector of a Service
  nobody chose one for, because a scale, a restart or an image touches neither,
  and a patch of either or an `apply_yaml` that replaces the object makes it
  somebody else's.
- **QueryTools.** In `PreviewInv` the entries booked are paired one to one with
  the goroutines that booked (`NamesKept`), so that in the end every name has as
  many entries as it was given times. The names may come from a List, and stay what
  they were because nothing that was read is read again (`BookedKept`). The
  total is stated by its running totals (`AddsUp`), which a booking extends by
  one. `RiskKept` keeps the levels among the four that are ranked.
  `ReadingInv` is of every tool: each read is of the cluster before or after
  the change or was lost (`ReadsKept`, `LossesKept`), and an answer is made of
  everything the handler had to read (`AnswerKept`). For a tool of one read it
  remains that the fields of its one request (`OneReadFinds`, handler by
  handler), and the cut of a report that need not be cut (`UncutIsWhole`), leave
  what `ObjectsWanted` says.
  For a tracing tool `TraceKept` adds why each read was made: the keys of the
  first read, and a Service that is there. The objects a told fact joins are of
  different kinds, so at most one of them is the object that changes, and all
  were in the cluster before or all after (`Together`); `TraceTellsWhatWas` goes
  through the facts from there. For what stays it is the converse: every object
  a fact of both clusters is made of can be found by every read of the chain,
  unless that read was lost, and a read the chain needs is not lost in an answer
  (`TraceFindsWhatStays`). The addresses of a Service are the one place where
  one object stands in for another: Endpoints are read only where there are no
  slices, and only one of the two can change.
  A host is a sequence of pieces of text in the model; that `matchHostWithMode`, which
  looks for a prefix or a suffix, and `HostMeets`, which asks for a domain the
  host is in, come to the same is a lemma (`HostsAlike`).

Only model-checked:

- every liveness property: fairness and ENABLED are beyond the prover;
- `FindsWhatStays` and `TellsOnlyWhatWas` of the preview and of the inspections:
  each compares a handler with facts stated independently of it through joins of
  several sets of objects, and a proof is one of its own for each tool;
- the violations.

## Where code and documents disagree

Shown by runs:

1. `NoEntryOutlivesModification` (cache_unlisted). `http.go:303` says that a
   modifying operation invalidates the cache; `delete_resources` and
   `create_from_yaml` are not in `InvalidatingTools`.
2. `DeletedServicesVanish` (indexer_missed). The watch loop is said to follow
   the changes of Services; a watch that is closed before it has brought a
   deletion is reopened without a List, and what was deleted stays.
3. `RunsWhereAnswered` (calls_context). `types.go:83` calls the answer's context
   the one that was used; the request's context field reaches validation,
   audit record and answer, but never the tool.
4. `OneOwnAnswer` (calls_crosstalk). A handler that outlives its deadline
   or its client writes through a `gin.Context` that serves another exchange by
   then.

Met while modelling, without a run of their own. The models follow the code in
each of these.

- *Limits and errors.* Permits are returned at the deadline while the tools
  still run (`ratelimiter.go:117` calls it the number of requests processed at
  the same time). A panic of a tool happens in a goroutine that gin's Recovery
  does not cover, although `http.go:167` says it does, and ends the process.
  `classifyError` knows neither "Unauthorized" nor conflicts nor "context
  deadline exceeded": all three are INTERNAL_ERROR. A Forbidden whose text says
  that something is "not found" (a role that an RBAC change names, a service account)
  is answered as NOT_FOUND with 404 (`protocol.go:501`). `metricsMiddleware` counts a
  504 as SERVER_ERROR.
- *Calls.* No tool reads the pagination or `_verbosity`; the cache key normalises
  the page, so a refused page size can be answered from a hit. Refusals of the
  validation and hits leave no audit record (`docs/api.md:817`). The
  configuration's `defaultContext` is never used. `switch_context` and
  `list_contexts` of the README are not registered.
- *Indexer.* Without a context, `find_service_by_nodeport` uses an indexer kept
  under the empty name, whose cluster is what the kubeconfig on disk (or the
  in-cluster configuration) said when it was made. `syncError`
  (`service_indexer.go:162`) is set by a failed Watch and cleared by a List only;
  no route reads it, and no property watches it.
- *Shutdown.* A signal before `Start` has published the server skips the HTTP
  shutdown. With output "both", closing the audit log reports the Sync error of
  standard output and the process exits with 1.
- *Writing tools.* `apply_yaml` and `patch_resource` fill in a namespace for
  cluster-scoped kinds, which `docs/update_tools_implementation.md:108` lists as
  supported. What `getInt32Arg` makes of a number out of range is up to the build.
  A Pod named twice in a batch can be reported deleted twice by one deletion,
  because a DELETE of a terminating Pod succeeds. The `NewValue` of a restart is a
  second reading of the clock, and `restartedAt` has a granularity of a second: a second
  restart within it changes nothing. `ApplyYAML` takes any error of its Get for
  "not there". `CreateSecret` encodes a second time. Bad quantities are dropped
  silently. `DeletedAt` is the creation time. A deletion goes by name and may
  meet an object created after the read. Any token that is not empty is accepted
  as confirmation. Of any other object named twice a batch counts one as a failure.
- *Tracing and preview.* `GetIngresses` and `TraceByHost` dereference the Service
  of a resource backend and panic. `matchSelector` takes a missing label for an
  empty one, and workloads are matched by their own selector instead of the labels
  of their Pods (`query_reverse.go:841-852`): one whose Pods the Service does select
  is passed over when its selector says less than they have. The preview names
  every Pod with the labels of the selector, whoever owns it
  (`delete_preview.go:198`). `TraceChain` lists edges to Services that do not exist. An
  Ingress is listed once for each rule that matches. The preview overlooks
  references through env and projected volumes, goes on as if there were no Pods
  when their List fails, lists nothing for a Namespace although
  `delete_namespace.go:18` promises a full list, and its total counts groups.
- *Inspections.* `register_inspect.go:55` promises Pods in CrashLoopBackOff, but
  `getPodStatus` calls one whose phase is Running "Running"; a Pod that cannot
  pull its image is unknown to the overview. Reports are cut before they are
  summed up: connectivity and storage are sorted by type, root causes by
  count, so that a critical finding can fall behind the cut and out of the status.
  Without its Endpoints list, the namespace inspection reports every Service
  with a selector (`Misled` excepts this from `TellsOnlyWhatWas`). Services are
  listed before Ingresses, so a pair created in between is reported as missing.
  An HPA of a custom kind is always missing its target. `inspect_events` adds a
  count of zero as zero, the root causes as one. One of 41 nodes that is not ready
  deducts nothing from the score.

## Not modelled

- Texts, wording, evidence and advice of findings, logging; JSON and YAML
  parsing; Prometheus output; CORS and the method filter. They keep no state.
- Hit counters, Enable, Disable and InvalidateByPrefix of the cache: the
  first are statistics, the server calls none of the others.
- ListContexts, GetContextInfo and GetClusterServer of the manager, which read
  only; the listing handlers of `internal/mcp`, which format only.
- The per-tool and per-error counters, each under a mutex of its own, and Reset,
  which nothing calls.
- `SlidingWindowLimiter` and `streaming.go`, which no part of the server uses;
  `pkg/utils/errors.go`, which only its tests use; the test doubles and
  `cmd/debug`.
- Pods with several containers, and an HPA's two API versions as two reads.

## Plan

What is left:

1. `TellsOnlyWhatWas` and `FindsWhatStays` for the preview, whose goroutines each
   read twice, and then for the inspections. `ReadingInv` and `Together` serve
   both: what is left is the walk through the facts each of them tells.
2. Lemmas on the operators of `MCPProtocol` that the proofs of `ToolCalls` do
   not need: the bounds of `NormalizePagination`, and what `ClassifyError` makes
   of a text with several phrases.
