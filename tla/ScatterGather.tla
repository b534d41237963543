----------------------------- MODULE ScatterGather -----------------------------
(***************************************************************************)
(* What the saved orchestration state of a thread promises to whoever      *)
(* reads it, with no loops, locks, messages or failures: one flow at a     *)
(* time asks agents in rounds, hears each of them once per round, starts   *)
(* the next round when the last one has answered, and stops at the limit   *)
(* of rounds that the flow began with.  HubOrchestration implements it.    *)
(***************************************************************************)
EXTENDS Naturals

CONSTANTS Flow, Agent, None

VARIABLES flow,     \* the flow the thread is in, or None
          waiting,  \* the agents whose answers the round waits for
          round,    \* rounds so far
          limit     \* rounds the flow may take

vars == <<flow, waiting, round, limit>>

Init == flow = None /\ waiting = {} /\ round = 0 /\ limit = 0

\* A flow begins, and replaces the one before.
Begin(f) ==
  /\ flow' = f
  /\ waiting' = {}
  /\ round' = 0
  /\ limit' \in Nat \ {0}

\* One of several agents answers.
Hear(a) ==
  /\ a \in waiting /\ waiting # {a}
  /\ waiting' = waiting \ {a}
  /\ UNCHANGED <<flow, round, limit>>

\* An agent passes its part of the round on to another.
HandOff(a, b) ==
  /\ a \in waiting
  /\ waiting' = (waiting \ {a}) \cup {b}
  /\ UNCHANGED <<flow, round, limit>>

\* Nobody but one agent is waited for: its answer, or the start of the flow, is what
\* the next round and the end of the flow follow.
Gathered == \E a \in Agent : waiting \subseteq {a}

NextRound(asked) ==
  /\ flow # None /\ Gathered
  /\ round < limit
  /\ asked # {}
  /\ waiting' = asked
  /\ round' = round + 1
  /\ UNCHANGED <<flow, limit>>

End ==
  /\ flow # None /\ Gathered
  /\ flow' = None /\ waiting' = {} /\ round' = 0 /\ limit' = 0

Next ==
  \/ \E f \in Flow : Begin(f)
  \/ \E a \in Agent : Hear(a) \/ \E b \in Agent : HandOff(a, b)
  \/ \E asked \in SUBSET Agent : NextRound(asked)
  \/ End

Spec == Init /\ [][Next]_vars
=============================================================================
