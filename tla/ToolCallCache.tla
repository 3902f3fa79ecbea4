----------------------------- MODULE ToolCallCache -----------------------------
(***************************************************************************)
(* POST /tool with the query cache: handleToolCall of internal/server/     *)
(* http.go over QueryCache of internal/server/cache.go.  Several calls run *)
(* at once; each takes the cache's lock for one operation at a time and    *)
(* executes its tool between them, so a query that is executing, or about  *)
(* to store what it read, meets the invalidation of a modification.        *)
(*                                                                         *)
(* The cluster is a version number: each modification the API server       *)
(* applies increments it, and a query returns the version it read.  What a *)
(* modification touches is not modelled; every invalidation the code makes *)
(* empties the whole cache, and every modification is taken to concern     *)
(* every query.                                                            *)
(*                                                                         *)
(* Queries that are not cacheable never touch the cache and are left out.  *)
(* Every entry has the same TTL, so entries expire in the order in which   *)
(* they were created.                                                      *)
(***************************************************************************)
EXTENDS Integers, FiniteSets

CONSTANTS
  Calls,      \* tool calls that may be in progress at once
  Keys,       \* results of toolCallCacheKey: tool, arguments and context
  Tools,      \* the modifying tools that are called
  MaxSize,    \* QueryCache.maxSize
  MaxWrites,  \* bound: modifications the cluster applies
  NoEntry     \* no entry under a key

\* InvalidatingTools, by the number of tools listed for each: handleToolCall
\* empties the cache once for each of them.
ClearedOnce ==
  {"create_namespace", "create_pod", "create_service", "create_configmap",
   "create_secret", "delete_namespace", "delete_pod", "delete_service",
   "delete_configmap", "delete_secret"}
ClearedTwice ==
  {"create_deployment", "delete_deployment", "scale_deployment",
   "scale_statefulset", "update_deployment_image", "restart_deployment"}
ClearedByName == {"apply_yaml", "patch_resource"}

\* The other tools that modify a cluster: handleToolCall clears nothing.
NeverCleared == {"create_from_yaml", "delete_resources"}

\* How often a successful call of tool t empties the cache.
Invalidations(t) ==
  IF t \in ClearedTwice THEN 2
  ELSE IF t \in ClearedOnce \cup ClearedByName THEN 1 ELSE 0

ASSUME CacheAssumption ==
  /\ Tools \subseteq ClearedOnce \cup ClearedTwice \cup ClearedByName \cup NeverCleared
  /\ MaxSize \in Nat \ {0}
  /\ MaxWrites \in Nat

ASSUME NoEntryAssumption == NoEntry \notin [ver : Nat, crossed : BOOLEAN]

VARIABLES
  version,  \* of the cluster
  acked,    \* newest version whose modification was answered with success
  entries,  \* QueryCache.entries
  older,    \* the pairs of keys <<j, k>> with j's CreatedAt before k's
  expired,  \* keys whose entry is past ExpiresAt
  calls     \* what each call is doing

vars == <<version, acked, entries, older, expired, calls>>

(***************************************************************************)
(* An entry holds the version its data was read at.  crossed is history:   *)
(* an invalidation took place between that read and the entry's Set.       *)
(***************************************************************************)
Entry == [ver : 0..MaxWrites, crossed : BOOLEAN]

(***************************************************************************)
(* A call: a query goes lookup, (drop,) execute, store or lookup, hit; a   *)
(* modification goes modify, clear.  left is the number of invalidations   *)
(* it has still to make.                                                   *)
(***************************************************************************)
Call ==
  [at : {"idle", "lookup", "drop", "hit", "execute", "store", "modify", "clear"},
   key : Keys \cup {NoEntry}, tool : Tools \cup {NoEntry},
   ver : 0..MaxWrites, crossed : BOOLEAN, left : 0..2]

IdleCall == [at |-> "idle", key |-> NoEntry, tool |-> NoEntry,
             ver |-> 0, crossed |-> FALSE, left |-> 0]

Present == {k \in Keys : entries[k] # NoEntry}

Types ==
  /\ version \in 0..MaxWrites
  /\ acked \in 0..MaxWrites
  /\ entries \in [Keys -> Entry \cup {NoEntry}]
  /\ calls \in [Calls -> Call]

\* No other key in K has an entry as old as k's.
OldestOf(k, K) == \A j \in K \ {k} : <<k, j>> \in older

\* older orders the keys that are present, so that some key is the oldest
\* among any of them: evictOldest and the cleanup find what they look for.
OrderOK ==
  /\ older \subseteq Present \X Present
  /\ \A j, k \in Present : <<j, k>> \in older => <<k, j>> \notin older
  /\ \A K \in (SUBSET Present) \ {{}} : \E k \in K : OldestOf(k, K)
  /\ expired \subseteq Present

TypeOK == Types /\ OrderOK

Init ==
  /\ version = 0
  /\ acked = 0
  /\ entries = [k \in Keys |-> NoEntry]
  /\ older = {}
  /\ expired = {}
  /\ calls = [c \in Calls |-> IdleCall]

Goes(c, from, new) ==
  /\ calls[c].at = from
  /\ calls' = [calls EXCEPT ![c] = new]

\* Mutant: the keys stay in the order of eviction.
DeleteKeepsOrder(K) ==
  /\ entries' = [k \in Keys |-> IF k \in K THEN NoEntry ELSE entries[k]]
  /\ expired' = expired \ K
  /\ UNCHANGED older

\* The entries under the keys in K leave the map.
Delete(K) ==
  /\ entries' = [k \in Keys |-> IF k \in K THEN NoEntry ELSE entries[k]]
  /\ older' = older \cap ((Present \ K) \X (Present \ K))
  /\ expired' = expired \ K

-----------------------------------------------------------------------------
(* A cacheable query.                                                      *)

AskQuery(c, k) ==
  /\ Goes(c, "idle", [IdleCall EXCEPT !.at = "lookup", !.key = k])
  /\ UNCHANGED <<version, acked, entries, older, expired>>

\* QueryCache.Get under the read lock, and the check of ExpiresAt.
Lookup(c) ==
  LET k == calls[c].key
  IN  /\ \/ /\ k \notin Present
            /\ Goes(c, "lookup", [calls[c] EXCEPT !.at = "execute"])
         \/ /\ k \in expired
            /\ Goes(c, "lookup", [calls[c] EXCEPT !.at = "drop"])
         \/ /\ k \in Present \ expired
            /\ Goes(c, "lookup", [calls[c] EXCEPT !.at = "hit"])
      /\ UNCHANGED <<version, acked, entries, older, expired>>

\* Get again, under the write lock: whatever entry is there by now goes.
DropExpired(c) ==
  /\ Goes(c, "drop", [calls[c] EXCEPT !.at = "execute"])
  /\ Delete({calls[c].key})
  /\ UNCHANGED <<version, acked>>

\* The cached result is sent under the envelope of the current request.
AnswerHit(c) ==
  /\ Goes(c, "hit", IdleCall)
  /\ UNCHANGED <<version, acked, entries, older, expired>>

\* The tool reads the cluster, or fails: an error is not cached.
ExecuteQuery(c) ==
  /\ \/ Goes(c, "execute", [calls[c] EXCEPT !.at = "store", !.ver = version])
     \/ Goes(c, "execute", IdleCall)
  /\ UNCHANGED <<version, acked, entries, older, expired>>

\* Mutant: the map is full one entry too late.
StoreWhenFull(c) ==
  LET k == calls[c].key
      victims == IF Cardinality(Present) > MaxSize
                 THEN {o \in Present : OldestOf(o, Present)} ELSE {}
      rest == Present \ (victims \cup {k})
  IN  /\ Goes(c, "store", IdleCall)
      /\ entries' = [o \in Keys |->
           IF o = k THEN [ver |-> calls[c].ver, crossed |-> calls[c].crossed]
           ELSE IF o \in victims THEN NoEntry ELSE entries[o]]
      /\ older' = (older \cap (rest \X rest)) \cup (rest \X {k})
      /\ expired' = expired \cap rest
      /\ UNCHANGED <<version, acked>>

\* QueryCache.SetWithTTL: a full map loses its oldest entry, even when the
\* key to be set is in the map already; the entry for the key is replaced.
Store(c) ==
  LET k == calls[c].key
      victims == IF Cardinality(Present) >= MaxSize
                 THEN {o \in Present : OldestOf(o, Present)} ELSE {}
      rest == Present \ (victims \cup {k})
  IN  /\ Goes(c, "store", IdleCall)
      /\ entries' = [o \in Keys |->
           IF o = k THEN [ver |-> calls[c].ver, crossed |-> calls[c].crossed]
           ELSE IF o \in victims THEN NoEntry ELSE entries[o]]
      /\ older' = (older \cap (rest \X rest)) \cup (rest \X {k})
      /\ expired' = expired \cap rest
      /\ UNCHANGED <<version, acked>>

-----------------------------------------------------------------------------
(* A modification.                                                         *)

AskModification(c, t) ==
  /\ Goes(c, "idle", [IdleCall EXCEPT !.at = "modify", !.tool = t])
  /\ UNCHANGED <<version, acked, entries, older, expired>>

\* The tool succeeds; or the API server applies the change and the tool still
\* reports an error (a lost answer); or nothing is applied.  After an error
\* the cache is left alone.
ExecuteModification(c) ==
  /\ \/ /\ version < MaxWrites
        /\ version' = version + 1
        /\ \/ Goes(c, "modify",
                   [calls[c] EXCEPT !.at = "clear", !.ver = version',
                                    !.left = Invalidations(calls[c].tool)])
           \/ Goes(c, "modify", IdleCall)
     \/ UNCHANGED version /\ Goes(c, "modify", IdleCall)
  /\ UNCHANGED <<acked, entries, older, expired>>

\* A query's result that is on its way to the cache crosses an invalidation.
Crossed(call) == [call EXCEPT !.crossed = @ \/ call.at = "store"]

\* InvalidateByTool, or Clear: the whole map is replaced.
Invalidate(c) ==
  /\ calls[c].at = "clear"
  /\ calls[c].left > 0
  /\ calls' = [d \in Calls |-> IF d = c THEN [calls[c] EXCEPT !.left = @ - 1]
                               ELSE Crossed(calls[d])]
  /\ Delete(Keys)
  /\ UNCHANGED <<version, acked>>

\* Mutant: the success is sent before the cache is cleared.
AcknowledgeEarly(c) ==
  /\ Goes(c, "clear", IdleCall)
  /\ acked' = IF calls[c].ver > acked THEN calls[c].ver ELSE acked
  /\ UNCHANGED <<version, entries, older, expired>>

\* Every invalidation has been made: the success is sent.
Acknowledge(c) ==
  /\ calls[c].left = 0
  /\ Goes(c, "clear", IdleCall)
  /\ acked' = IF calls[c].ver > acked THEN calls[c].ver ELSE acked
  /\ UNCHANGED <<version, entries, older, expired>>

-----------------------------------------------------------------------------
(* Time.                                                                   *)

\* The oldest entry that is not past its ExpiresAt gets there.
Expire ==
  /\ \E k \in Present \ expired :
       /\ OldestOf(k, Present \ expired)
       /\ expired' = expired \cup {k}
  /\ UNCHANGED <<version, acked, entries, older, calls>>

\* Mutant: the tick removes nothing.
CleanupNothing ==
  /\ expired # {}
  /\ Delete({})
  /\ UNCHANGED <<version, acked, calls>>

\* A tick of cleanupLoop: every expired entry is removed.
Cleanup ==
  /\ expired # {}
  /\ Delete(expired)
  /\ UNCHANGED <<version, acked, calls>>

-----------------------------------------------------------------------------
Next ==
  \/ \E c \in Calls :
       \/ \E k \in Keys : AskQuery(c, k)
       \/ Lookup(c) \/ DropExpired(c) \/ AnswerHit(c)
       \/ ExecuteQuery(c) \/ Store(c)
       \/ \E t \in Tools : AskModification(c, t)
       \/ ExecuteModification(c) \/ Invalidate(c) \/ Acknowledge(c)
  \/ Expire \/ Cleanup

Spec == Init /\ [][Next]_vars

\* A call that has begun goes on (its tool returns by the request's deadline),
\* entries grow old and the ticker of cleanupLoop ticks.  Nobody has to call.
FairSpec ==
  /\ Spec
  /\ \A c \in Calls :
       WF_vars(Lookup(c) \/ DropExpired(c) \/ AnswerHit(c) \/ ExecuteQuery(c)
               \/ Store(c) \/ ExecuteModification(c) \/ Invalidate(c)
               \/ Acknowledge(c))
  /\ WF_vars(Expire)
  /\ WF_vars(Cleanup)

-----------------------------------------------------------------------------
(* Properties.                                                             *)

\* The map never outgrows maxSize, with several calls storing at once and a
\* key that is replaced while the map is full.
SizeBounded == Cardinality(Present) <= MaxSize

\* Once a modification has been answered with success, no entry read before
\* it is left in the cache, except one whose result was read before and
\* stored after an invalidation: the one window the code leaves open.
NoEntryOutlivesModification ==
  \A k \in Present : entries[k].ver < acked => entries[k].crossed

\* The window closes by itself: when modifications cease, every entry that
\* is left in the cache tells the cluster's present state, for good.
EventuallyFresh == <>[](\A k \in Present : entries[k].ver = version)

-----------------------------------------------------------------------------
(* The inductive form of NoEntryOutlivesModification.                      *)

\* A modification that has emptied the cache at least once.
Cleared(c) ==
  /\ calls[c].at = "clear"
  /\ calls[c].left < Invalidations(calls[c].tool)

\* What was read before version v is gone, or was on its way.
NothingBefore(v) ==
  /\ \A k \in Present : entries[k].ver < v => entries[k].crossed
  /\ \A c \in Calls : calls[c].at = "store" /\ calls[c].ver < v => calls[c].crossed

\* No version has been read, or answered for, that the cluster has not had.
NothingAhead ==
  /\ acked <= version
  /\ \A c \in Calls : calls[c].ver <= version

\* A modification on its way knows its tool.
ToolKnown ==
  \A c \in Calls : calls[c].at \in {"modify", "clear"} => calls[c].tool \in Tools

IInv ==
  /\ Types
  /\ NothingAhead
  /\ ToolKnown
  /\ NothingBefore(acked)
  /\ \A c \in Calls : Cleared(c) => NothingBefore(calls[c].ver)

-----------------------------------------------------------------------------
(* The inductive form of TypeOK and SizeBounded.                           *)

\* A query under way knows its key.
KeyKnown ==
  \A c \in Calls :
    calls[c].at \in {"lookup", "drop", "hit", "execute", "store"} => calls[c].key \in Keys

SizeInv == TypeOK /\ KeyKnown /\ IsFiniteSet(Present) /\ SizeBounded
=============================================================================
