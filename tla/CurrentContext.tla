----------------------------- MODULE CurrentContext -----------------------------
(***************************************************************************)
(* What K8SClientManager promises of its current context: a switch takes   *)
(* effect at once or not at all, and a caller who names no context is      *)
(* given one that is current at one instant of its call, and keeps it to   *)
(* the end of the call whatever is switched meanwhile.                     *)
(***************************************************************************)
CONSTANTS Contexts, Callers, None

VARIABLES
  current,  \* the current context
  chosen    \* the context a caller's call works with, or None

Init ==
  /\ current \in Contexts
  /\ chosen = [c \in Callers |-> None]

\* When a switch succeeds is left open; one that fails changes nothing.
Switch ==
  /\ \E n \in Contexts : current' = n
  /\ UNCHANGED chosen

Choose(c) ==
  /\ chosen[c] = None
  /\ chosen' = [chosen EXCEPT ![c] = current]
  /\ UNCHANGED current

\* The call returns, with a client of the context chosen or with an error.
Finish(c) ==
  /\ chosen' = [chosen EXCEPT ![c] = None]
  /\ UNCHANGED current

Next == Switch \/ \E c \in Callers : Choose(c) \/ Finish(c)

Spec == Init /\ [][Next]_<<current, chosen>>
=============================================================================
