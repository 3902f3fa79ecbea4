----------------------------- MODULE MCApplication -----------------------------
(***************************************************************************)
(* Sources of the configuration: a level that drops the records of         *)
(* successes, a log file that one source sets and another overrides,       *)
(* values Validate refuses, and a file that is missing.                    *)
(***************************************************************************)
EXTENDS Application

Only(key, v) == (key :> v)
None == <<>>

FewSources ==
  { [flags |-> None, env |-> Only("logLevel", "warn"), file |-> None],
    [flags |-> None, env |-> None, file |-> Missing],
    [flags |-> Only("logFile", "a.log"), env |-> Only("logFile", ""), file |-> Only("port", 0)],
    [flags |-> Only("port", 8080), env |-> Only("logFile", "a.log"), file |-> Only("port", 0)] }
=============================================================================
