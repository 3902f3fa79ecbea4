------------------------------ MODULE Application ------------------------------
(***************************************************************************)
(* The life of the process: cmd/server/main.go over the configuration, the *)
(* audit log, the client manager, the HTTP server and the metrics, from    *)
(* the first line of Initialize to the exit code.                          *)
(*                                                                         *)
(* A worker of Metrics is the goroutine of one accepted request.  Its      *)
(* connection is open from the accept to the moment the chain has          *)
(* returned, which is when the goroutine has ended or its deadline struck. *)
(* Permits are in RequestLifecycle, answers in ToolCalls, contexts and the *)
(* indexer's loop in K8SClientManager and ServiceIndexer; of the manager   *)
(* its lock is kept here, which a tool holds over the List of an indexer   *)
(* it starts, and a watch loop that is started too late.  When the process *)
(* has exited nothing moves.  A signal before signal.Notify kills the      *)
(* process and leaves nothing to model.                                    *)
(***************************************************************************)
EXTENDS Metrics, TLC

CONSTANTS
  Sources,  \* [flags, env, file]: what each source of the configuration sets
  Missing   \* a configuration file that is named and cannot be read

VARIABLES
  main,    \* the main goroutine: [at, code], -1 for no exit code yet
  config,  \* the configuration loaded
  http,    \* s.httpServer: "unset", "set", "listening", "closed"
  failed,  \* serverErr holds an error
  signal,  \* quit holds a signal
  file,    \* the audit log's file: "none", "open", "closed"
  indexing, \* what each tool has asked the manager for: "none", an indexer whose
            \* List it runs with the manager's lock "held", or one it "got"
  leftover, \* a watch loop was started after Close had stopped the others
  conn,    \* each request's connection: "idle", "open", "closed"
  lost,    \* history: records <<worker, kind, success>> the log did not get
  excuse   \* history: "early" signal or drain "timeout"

appVars == <<main, config, http, failed, signal, file, indexing, leftover, conn, lost, excuse>>
vars == <<metricsVars, appVars>>

-----------------------------------------------------------------------------
(* Configuration.                                                          *)

Defaults == [port |-> 8080, kubeconfig |-> "present", logLevel |-> "info",
  logFormat |-> "json", logFile |-> "", maxConcurrentRequests |-> 100,
  requestTimeout |-> 30, enableCache |-> TRUE, cacheTTL |-> 300]

\* Viper's order: flags over the environment over the file over the defaults.
Layered(s) == s.flags @@ s.env @@ s.file @@ Defaults

MaxPort == 65535

\* Validate, with durations in seconds.
Validate(c) ==
  /\ c.port \in 1..MaxPort
  /\ c.kubeconfig = "present"
  /\ c.logLevel \in {"debug", "info", "warn", "error"}
  /\ c.logFormat \in {"json", "text"}
  /\ c.maxConcurrentRequests >= 1
  /\ c.requestTimeout >= 1
  /\ c.enableCache => c.cacheTTL >= 1

-----------------------------------------------------------------------------
(* Initialize.                                                             *)

Init ==
  /\ MetricsInit
  /\ main = [at |-> "config", code |-> -1]
  /\ config = Defaults
  /\ http = "unset" /\ failed = FALSE /\ signal = FALSE
  /\ file = "none" /\ leftover = FALSE
  /\ indexing = [w \in Workers |-> "none"]
  /\ conn = [w \in Workers |-> "idle"]
  /\ lost = {} /\ excuse = {}

MainGoes(from, to) ==
  /\ main.at = from
  /\ main' = [main EXCEPT !.at = to]

Exits(from, code) ==
  /\ main.at = from
  /\ main' = [at |-> "exited", code |-> code]

\* Mutant: the configuration is not validated.
LoadUnvalidated ==
  /\ \E s \in Sources :
       IF s.file # Missing
       THEN MainGoes("config", "audit") /\ config' = Layered(s)
       ELSE Exits("config", 1) /\ UNCHANGED config
  /\ UNCHANGED <<metricsVars, http, failed, signal, file, indexing, leftover, conn, lost, excuse>>

LoadConfig ==
  /\ \E s \in Sources :
       IF s.file # Missing /\ Validate(Layered(s))
       THEN MainGoes("config", "audit") /\ config' = Layered(s)
       ELSE Exits("config", 1) /\ UNCHANGED config
  /\ UNCHANGED <<metricsVars, http, failed, signal, file, indexing, leftover, conn, lost, excuse>>

\* initAuditLogger: stdout, and the log file where one is configured.
InitAudit ==
  /\ \/ MainGoes("audit", "manager")
        /\ file' = IF config.logFile = "" THEN "none" ELSE "open"
     \/ config.logFile # "" /\ Exits("audit", 1) /\ UNCHANGED file
  /\ UNCHANGED <<metricsVars, config, http, failed, signal, indexing, leftover, conn, lost, excuse>>

InitManager ==
  /\ MainGoes("manager", "warm") \/ Exits("manager", 1)
  /\ UNCHANGED <<metricsVars, config, http, failed, signal, file, indexing, leftover, conn, lost, excuse>>

\* The indexer of the current context is started; its failure is a warning.
\* Close stops every loop there is (K8SClientManager's LoopsOwned).
WarmUp ==
  /\ MainGoes("warm", "server")
  /\ UNCHANGED <<metricsVars, config, http, failed, signal, file, indexing, leftover, conn, lost, excuse>>

\* initToolRegistry and NewHTTPServer, which do not fail here.
InitServer ==
  /\ MainGoes("server", "run")
  /\ UNCHANGED <<metricsVars, config, http, failed, signal, file, indexing, leftover, conn, lost, excuse>>

-----------------------------------------------------------------------------
(* The goroutine that Run starts: HTTPServer.Start.                        *)

Up == main.at \notin {"config", "audit", "manager", "warm", "server", "exited"}

ServerStep(from, to) ==
  /\ Up /\ http = from /\ http' = to
  /\ UNCHANGED <<metricsVars, main, config, signal, file, indexing, leftover, conn, lost, excuse>>

Publish == ServerStep("unset", "set") /\ UNCHANGED failed

Listen == ServerStep("set", "listening") /\ UNCHANGED failed

\* The address is taken, or Accept fails later.
ServerFails ==
  \E from \in {"set", "listening"} : ServerStep(from, "closed") /\ failed' = TRUE

-----------------------------------------------------------------------------
(* Requests.                                                               *)

Accept(w) ==
  /\ Up /\ http = "listening" /\ conn[w] = "idle"
  /\ conn' = [conn EXCEPT ![w] = "open"]
  /\ UNCHANGED <<metricsVars, main, config, http, failed, signal, file, indexing, leftover, lost, excuse>>

\* NewAuditLogger's level: a success is written at Info, a failure at Error.
LevelsOfSuccess == {"debug", "info"}

\* LogOperation: zap drops a record below its level and one for a file that is
\* closed, and every caller the error.
Written(level, to, ok) == to # "closed" /\ (ok => level \in LevelsOfSuccess)

Logged(w, kind, ok) ==
  lost' = IF Written(config.logLevel, file, ok) THEN lost ELSE lost \cup {<<w, kind, ok>>}

Enter(w) ==
  /\ Up /\ conn[w] # "idle"
  /\ Increment(w)
  /\ UNCHANGED appVars

\* GetServiceIndexerForContext, for a context without an indexer: its first
\* List runs with the manager's lock held and no deadline.  Bound: not while a
\* snapshot is read.
AskIndexer(w) ==
  /\ Up /\ shot = Unread /\ worker[w].at = "work" /\ indexing[w] = "none"
  /\ \A v \in Workers : indexing[v] # "held"
  /\ indexing' = [indexing EXCEPT ![w] = "held"]
  /\ UNCHANGED <<metricsVars, main, config, http, failed, signal, file, leftover, conn, lost, excuse>>

\* The List has ended, well or not.  A loop that is started once the manager is
\* closed is stopped by nobody.
GetIndexer(w) ==
  /\ Up /\ indexing[w] = "held"
  /\ indexing' = [indexing EXCEPT ![w] = "got"]
  /\ leftover' \in IF main.at \in {"closeAudit", "closed"} THEN {leftover, TRUE} ELSE {leftover}
  /\ UNCHANGED <<metricsVars, main, config, http, failed, signal, file, conn, lost, excuse>>

\* The tool comes to its end, where HandleToolCall records the call.
RunTool(w) ==
  /\ Up /\ indexing[w] # "held"
  /\ indexing' = [indexing EXCEPT ![w] = "none"]
  /\ \E ok \in BOOLEAN :
       /\ WorkerGoes(w, "work", [worker[w] EXCEPT !.at = "total", !.ok = ok])
       /\ Logged(w, "tool", ok)
  /\ UNCHANGED <<counter, shot, highest>>
  /\ UNCHANGED <<main, config, http, failed, signal, file, leftover, conn, excuse>>

Record(w) == Up /\ MetricsStep(w) /\ UNCHANGED appVars

\* The chain returns through loggingMiddleware, with a status below 400 or not.
Leave(w, ok) ==
  /\ Up /\ conn[w] = "open"
  /\ conn' = [conn EXCEPT ![w] = "closed"]
  /\ Logged(w, "http", ok)
  /\ UNCHANGED <<metricsVars, main, config, http, failed, signal, file, indexing, leftover, excuse>>

Finish(w) == worker[w].at = "gone" /\ \E ok \in BOOLEAN : Leave(w, ok)

\* Answered with a 504, or left by a client that went away: the status is then
\* what the writer holds.
Deadline(w) == worker[w].at # "gone" /\ \E ok \in BOOLEAN : Leave(w, ok)

\* GET /metrics.  Bounds: not once a signal or a failure is pending, nor with an
\* indexer asked for or a record missing, which no counter depends on.
Scrape ==
  /\ main.at = "run" /\ http = "listening" /\ ~signal
  /\ lost = {} /\ \A w \in Workers : indexing[w] = "none"
  /\ Read \/ Render
  /\ UNCHANGED appVars

-----------------------------------------------------------------------------
(* Run and Shutdown.                                                       *)

Signal ==
  /\ main.at = "run" /\ ~signal
  /\ signal' = TRUE
  /\ UNCHANGED <<metricsVars, main, config, http, failed, file, indexing, leftover, conn, lost, excuse>>

\* HTTPServer.Shutdown stops the listener, unless Start has not made the
\* server yet.
TakeSignal ==
  /\ signal
  /\ IF http = "unset"
     THEN MainGoes("run", "closeManager") /\ excuse' = excuse \cup {"early"} /\ UNCHANGED http
     ELSE MainGoes("run", "drain") /\ http' = "closed" /\ UNCHANGED excuse
  /\ shot' = Unread
  /\ UNCHANGED <<counter, worker, highest>>
  /\ UNCHANGED <<config, failed, signal, file, indexing, leftover, conn, lost>>

\* Run returns the server's error: nothing is closed.
TakeError ==
  /\ failed /\ Exits("run", 1)
  /\ UNCHANGED <<metricsVars, config, http, failed, signal, file, indexing, leftover, conn, lost, excuse>>

\* Mutant: Shutdown closes the connections instead of waiting for them.
DrainAtOnce ==
  /\ MainGoes("drain", "closeManager")
  /\ UNCHANGED <<metricsVars, config, http, failed, signal, file, indexing, leftover, conn, lost, excuse>>

Drain ==
  /\ \A w \in Workers : conn[w] # "open"
  /\ MainGoes("drain", "closeManager")
  /\ UNCHANGED <<metricsVars, config, http, failed, signal, file, indexing, leftover, conn, lost, excuse>>

\* Mutant: Shutdown is called with a context that has no deadline.
DrainForever == FALSE /\ UNCHANGED vars

\* ShutdownTimeout: the error is kept, and the rest is closed all the same.
DrainTimeout ==
  /\ \E w \in Workers : conn[w] = "open"
  /\ main.at = "drain" /\ main' = [at |-> "closeManager", code |-> 1]
  /\ excuse' = excuse \cup {"timeout"}
  /\ UNCHANGED <<metricsVars, config, http, failed, signal, file, indexing, leftover, conn, lost>>

\* Close takes the manager's lock and keeps it until the loops have ended, which
\* each does (ServiceIndexer's StopReturns).
CloseManager ==
  /\ \A w \in Workers : indexing[w] # "held"
  /\ MainGoes("closeManager", "closeAudit")
  /\ UNCHANGED <<metricsVars, config, http, failed, signal, file, indexing, leftover, conn, lost, excuse>>

\* AuditLogger.Close: the error of Sync is ignored when Output is "stdout"
\* and kept when it is "both"; the file is closed in either case.
CloseAudit ==
  /\ MainGoes("closeAudit", "closed") \/ (file = "open" /\ main.at = "closeAudit"
                                          /\ main' = [at |-> "closed", code |-> 1])
  /\ file' = IF file = "open" THEN "closed" ELSE file
  /\ UNCHANGED <<metricsVars, config, http, failed, signal, indexing, leftover, conn, lost, excuse>>

\* main returns, or os.Exit(1).
Exit ==
  /\ Exits("closed", IF main.code = 1 THEN 1 ELSE 0)
  /\ UNCHANGED <<metricsVars, config, http, failed, signal, file, indexing, leftover, conn, lost, excuse>>

Initialize == LoadConfig \/ InitAudit \/ InitManager \/ WarmUp \/ InitServer
Shutdown == TakeSignal \/ TakeError \/ Drain \/ DrainTimeout \/ CloseManager \/ CloseAudit \/ Exit

Next ==
  \/ Initialize \/ Publish \/ Listen \/ ServerFails
  \/ \E w \in Workers : \/ Accept(w) \/ Enter(w) \/ AskIndexer(w) \/ GetIndexer(w) \/ RunTool(w)
                        \/ Record(w) \/ Finish(w) \/ Deadline(w)
  \/ Scrape \/ Signal \/ Shutdown

Spec == Init /\ [][Next]_vars

\* The main goroutine is scheduled, ShutdownTimeout elapses, and the API server
\* ends a List, which nothing in the process does: no deadline bounds it.  Of
\* the tools nothing else is assumed, and nothing of RequestTimeout, which
\* Validate bounds from below only.
FairSpec ==
  /\ Spec /\ WF_vars(Initialize) /\ WF_vars(Shutdown)
  /\ WF_vars(\E w \in Workers : GetIndexer(w))

-----------------------------------------------------------------------------
(* Properties.                                                             *)

\* The variables have their types, and a file that was opened is closed only
\* by Shutdown.
TypeOK ==
  /\ MetricsTypes
  /\ main \in [at : {"config", "audit", "manager", "warm", "server", "run", "drain",
                     "closeManager", "closeAudit", "closed", "exited"},
               code : {-1, 0, 1}]
  /\ Up \/ main.code = 0 => Validate(config)
  /\ http \in {"unset", "set", "listening", "closed"}
  /\ failed \in BOOLEAN /\ signal \in BOOLEAN /\ leftover \in BOOLEAN
  /\ file \in {"none", "open", "closed"}
  /\ conn \in [Workers -> {"idle", "open", "closed"}]
  /\ indexing \in [Workers -> {"none", "held", "got"}]
  /\ lost \subseteq Workers \X {"tool", "http"} \X BOOLEAN
  /\ excuse \subseteq {"early", "timeout"}

Abandoned(w) == conn[w] = "closed" /\ worker[w].at # "gone"

\* The order HTTP server, manager, audit log (main.go:230) keeps the audit
\* trail complete: a record is missing only when it is one of a success and the
\* configured level is above Info (audit/logger.go:79), when the drain ran into
\* its timeout, when the signal came before Start had made the server, or when
\* it is that of a tool whose connection was left by its deadline or client.
AuditComplete ==
  \A r \in lost : \/ excuse # {}
                  \/ r[2] = "tool" /\ conn[r[1]] = "closed"
                  \/ r[3] /\ config.logLevel \in {"warn", "error"}

\* Exit code 0 tells that every accepted request was answered and that no
\* watch loop is left, unless the signal came early or a tool was abandoned
\* (main.go:243).
CleanExit ==
  main.code = 0 /\ "early" \notin excuse =>
    /\ \A w \in Workers : conn[w] # "open"
    /\ leftover => \E w \in Workers : conn[w] = "closed" /\ worker[w].at # "idle"

\* A signal or a server that fails ends the process, however long its tools
\* run, as long as each List they hold the manager's lock over comes to its end
\* (main.go:209, 243).
Stops == (signal \/ failed) ~> (main.at = "exited")
-----------------------------------------------------------------------------
(* The inductive forms of AuditComplete and CleanExit.                     *)

\* A configuration that was accepted is a valid one, and before that nothing is
\* logged.
ConfigKept ==
  /\ main.at \notin {"config", "exited"} => Validate(config)
  /\ main.at = "config" => lost = {}

\* Status 0 is for the end only, and never for a drain that timed out.
CodeKept ==
  /\ main.code = 0 => main.at = "exited"
  /\ "timeout" \in excuse => main.code = 1

\* Once the connections have been drained there is no open one, and there
\* will be none.
DrainKept ==
  /\ main.at = "drain" => http = "closed"
  /\ main.at \in {"closeManager", "closeAudit", "closed"} /\ excuse = {} =>
       http = "closed" /\ \A w \in Workers : conn[w] # "open"

\* The file is closed at the very end.
FileKept == file = "closed" => main.at \in {"closed", "exited"}

\* A worker has a connection, an indexer is asked for by a tool at work, and a
\* loop that was left has a worker behind it.
WorkersKept ==
  /\ \A w \in Workers : worker[w].at # "idle" => conn[w] # "idle"
  /\ \A w \in Workers : indexing[w] # "none" => worker[w].at = "work"
  /\ leftover => \E w \in Workers : worker[w].at # "idle"

IInv ==
  /\ TypeOK /\ MetricsInv
  /\ ConfigKept /\ CodeKept /\ DrainKept /\ FileKept /\ WorkersKept
  /\ AuditComplete /\ CleanExit
=============================================================================
