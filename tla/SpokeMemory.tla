------------------------------ MODULE SpokeMemory ------------------------------
(***************************************************************************)
(* The short-term memory of one thread of an agent that is not a hub: the  *)
(* handlers of internal/agent/application/service/schema_router_impl.go,   *)
(* ProcessIncomingMessage and the consolidation of message_processor.go,   *)
(* the reasoning loop of cognitive_engine.go, and the list in Redis of     *)
(* internal/agent/adapters/outbound/redis/memory_adapter.go.               *)
(*                                                                         *)
(* No lock protects the memory of a thread.  The agent has two pull loops, *)
(* for the events that name it and for those that are for all, and handles *)
(* two events of one thread at once.  A handler is cut at every command of *)
(* Redis, call of the brain and publish.                                   *)
(***************************************************************************)
EXTENDS Naturals, Sequences, FiniteSets, Functions, SequencesExt

CONSTANTS Loops,       \* the pull loops of the agent's process
          Events,      \* the events of the thread
          Schema,      \* the schema of each event
          Serves,      \* the events whose subject a loop reads
          Context,     \* how many turns a delegation brings along
          Limit,       \* how many turns the brain is shown
          MaxSteps,    \* the steps of a reasoning loop
          MaxDeliver,  \* the 5 of NumDelivered > 5
          MaxFaults,   \* bound: how many failures
          None

ASSUME ConstantsAssumption ==
  /\ Schema \in [Events -> {"start-thread", "add-user-message", "agent-delegation", "end-thread"}]
  /\ Serves \in [Loops -> SUBSET Events]
  /\ Context \in [Events -> Nat]
  /\ Limit \in Nat \ {0} /\ MaxSteps \in Nat \ {0} /\ MaxDeliver \in Nat /\ MaxFaults \in Nat
  /\ None \notin Events

VARIABLES memory,     \* the list of turns in Redis
          stream,     \* where each event is
          delivered,  \* how often each event has been delivered
          loop,       \* the local variables of the handlers
          faults,     \* failures so far
          blank,      \* the delegations whose message is empty
          handed,     \* history: turns handed to a consolidation since the memory was last cleared,
          missing,    \*   turns refused for want of text, or taken back in place of one, and
          disturbed   \*   whether it came about with failures, or two handlers at once

history == <<handed, missing, disturbed>>
vars == <<memory, stream, delivered, loop, faults, blank, history>>

\* A turn, and the delivery of an event that appended it.
Turn == [role : {"user", "assistant", "context"}, of : Events, n : 1..MaxDeliver]

Idle == [pc |-> "idle", event |-> None, copy |-> <<>>, left |-> 0]
Handler == [pc : {"idle", "clear", "context", "read", "append", "reason", "rollback", "answer",
                  "check", "publish", "history", "consolidate", "ack", "nak"},
            event : Events \cup {None}, copy : Seq(Turn), left : Nat]

Delegations == {e \in Events : Schema[e] = "agent-delegation"}

TypeOK ==
  /\ memory \in Seq(Turn)
  /\ stream \in [Events -> {"ready", "taken", "done", "dead"}]
  /\ delivered \in [Events -> 0..MaxDeliver]
  /\ loop \in [Loops -> Handler]
  /\ \A l \in Loops :
       /\ loop[l].pc = "context" => loop[l].left <= Context[loop[l].event]
       /\ loop[l].pc = "append" => Len(loop[l].copy) <= Limit
       /\ loop[l].pc = "reason" => loop[l].left <= MaxSteps
  /\ faults \in 0..MaxFaults
  /\ blank \subseteq Delegations
  /\ handed \subseteq Turn /\ missing \subseteq Turn
  /\ disturbed \in BOOLEAN

Init ==
  /\ memory = <<>>
  /\ stream = [e \in Events |-> "ready"]
  /\ delivered = [e \in Events |-> 0]
  /\ loop = [l \in Loops |-> Idle]
  /\ faults = 0
  /\ blank \in SUBSET Delegations
  /\ handed = {} /\ missing = {}
  /\ disturbed = FALSE

-----------------------------------------------------------------------------
\* A command that fails may have been carried out after all.  An empty answer of the brain
\* counts as a failure, too.
Fault == faults < MaxFaults /\ faults' = faults + 1
pc(l) == loop[l].pc
event(l) == loop[l].event
Goes(l, place) == loop' = [loop EXCEPT ![l].pc = place]
Other(l) == \E k \in Loops \ {l} : pc(k) # "idle"

\* The turn that a handler appends.
TurnOf(l, role) == [role |-> role, of |-> event(l), n |-> delivered[event(l)]]

\* Mutant of Window: the brain is shown the whole memory.
WindowAll == memory
\* The last turns of the memory.
Window == IF Len(memory) <= Limit THEN memory ELSE SubSeq(memory, Len(memory) - Limit + 1, Len(memory))

-----------------------------------------------------------------------------
(* The pull loops                                                          *)

\* RouteEvent: where the handler of an event begins.
Routed(e) ==
  CASE Schema[e] = "start-thread" -> "clear"
    [] Schema[e] = "end-thread" -> "history"
    [] Schema[e] = "agent-delegation" /\ Context[e] > 0 -> "clear"
    [] OTHER -> "read"

Fetch(l) ==
  /\ pc(l) = "idle"
  /\ \E e \in Serves[l] :
       /\ stream[e] = "ready" /\ delivered[e] < MaxDeliver
       /\ stream' = [stream EXCEPT ![e] = "taken"]
       /\ delivered' = [delivered EXCEPT ![e] = @ + 1]
       /\ loop' = [loop EXCEPT ![l] = [Idle EXCEPT !.pc = Routed(e), !.event = e]]
  /\ disturbed' = (disturbed \/ Other(l))
  /\ UNCHANGED <<memory, faults, blank, handed, missing>>

DeadLetter(l) ==
  /\ pc(l) = "idle"
  /\ \E e \in Serves[l] :
       /\ stream[e] = "ready" /\ delivered[e] = MaxDeliver
       /\ stream' = [stream EXCEPT ![e] = "dead"]
  /\ UNCHANGED <<memory, delivered, loop, faults, blank, history>>

\* processAndAck.
Settles(l) == stream' = [stream EXCEPT ![event(l)] = IF pc(l) = "ack" THEN "done" ELSE "ready"]

Settle(l) ==
  /\ pc(l) \in {"ack", "nak"}
  /\ \/ Settles(l) /\ UNCHANGED faults
     \/ pc(l) = "ack" /\ Fault /\ stream' = [stream EXCEPT ![event(l)] = "ready"]
  /\ loop' = [loop EXCEPT ![l] = Idle]
  /\ UNCHANGED <<memory, delivered, blank, history>>

\* The process dies, with both loops.
Crash ==
  /\ Fault
  /\ stream' = [e \in Events |-> IF stream[e] = "taken" THEN "ready" ELSE stream[e]]
  /\ loop' = [l \in Loops |-> Idle]
  /\ disturbed' = (disturbed \/ \E l \in Loops : pc(l) # "idle")
  /\ UNCHANGED <<memory, delivered, blank, handed, missing>>

-----------------------------------------------------------------------------
(* handleStartThread, and the first part of handleAgentDelegation          *)

\* Clear, for whoever calls it.  The memory is as new, unless another handler is at work.
Clear(l) ==
  /\ pc(l) = "clear"
  /\ \/ /\ memory' = <<>>
        /\ handed' = {} /\ missing' = {} /\ disturbed' = Other(l)
        /\ loop' = [loop EXCEPT ![l].pc = IF Schema[event(l)] = "agent-delegation" THEN "context" ELSE "ack",
                                ![l].left = Context[event(l)]]
        /\ UNCHANGED faults
     \/ Fault /\ Goes(l, "nak") /\ memory' \in {memory, <<>>} /\ UNCHANGED history
  /\ UNCHANGED <<stream, delivered, blank>>

\* The turns of the delegation are appended one by one.  One that is not valid, without text or
\* of an unknown role, fails like one that Redis does not take.
AppendContext(l) ==
  /\ pc(l) = "context"
  /\ \/ /\ memory' = Append(memory, TurnOf(l, "context"))
        /\ loop' = [loop EXCEPT ![l].pc = IF loop[l].left = 1 THEN "read" ELSE "context", ![l].left = @ - 1]
        /\ UNCHANGED faults
     \/ Fault /\ Goes(l, "nak") /\ memory' \in {memory, Append(memory, TurnOf(l, "context"))}
  /\ UNCHANGED <<stream, delivered, blank, history>>

-----------------------------------------------------------------------------
(* ProcessIncomingMessage, for a user's message or a delegation            *)

\* The prior turns, without which the brain can do.
Get(l) ==
  /\ pc(l) = "read"
  /\ \/ loop' = [loop EXCEPT ![l].pc = "append", ![l].copy = Window] /\ UNCHANGED faults
     \/ Fault /\ loop' = [loop EXCEPT ![l].pc = "append", ![l].copy = <<>>]
  /\ UNCHANGED <<memory, stream, delivered, blank, history>>

\* The message of a delegation may be empty, and the brain may answer with nothing.
HasText(l, role) == role = "user" => event(l) \notin blank

\* A turn without text is refused before Redis is asked, and a turn that cannot be appended
\* is only logged.  What the brain makes of the turns it was shown is data.
Appends(l, role, next) ==
  /\ \/ HasText(l, role) /\ memory' = Append(memory, TurnOf(l, role))
        /\ UNCHANGED <<faults, missing, disturbed>>
     \/ (IF role = "user" THEN event(l) \in blank /\ UNCHANGED faults ELSE Fault)
        /\ missing' = missing \cup {TurnOf(l, role)} /\ UNCHANGED <<memory, disturbed>>
     \/ HasText(l, role) /\ Fault /\ disturbed' = TRUE
        /\ memory' \in {memory, Append(memory, TurnOf(l, role))} /\ UNCHANGED missing
  /\ loop' = [loop EXCEPT ![l].pc = next, ![l].copy = <<>>, ![l].left = 1]
  /\ UNCHANGED <<stream, delivered, blank, handed>>

AppendUser(l) == pc(l) = "append" /\ Appends(l, "user", "reason")

\* A step of the reasoning loop: the brain calls tools, whose errors are observations,
\* or it answers.  When the steps are used up, its last thought is the answer.
ExecuteStep(l) ==
  /\ pc(l) = "reason"
  /\ \/ loop[l].left < MaxSteps /\ loop' = [loop EXCEPT ![l].left = @ + 1]
     \/ loop' = [loop EXCEPT ![l].pc = "answer", ![l].left = 0]
  /\ UNCHANGED <<memory, stream, delivered, faults, blank, history>>

BrainFails(l) ==
  /\ pc(l) = "reason"
  /\ Fault
  /\ loop' = [loop EXCEPT ![l].pc = "rollback", ![l].left = 0]
  /\ UNCHANGED <<memory, stream, delivered, blank, history>>

\* Mutant of RolledBack: the turn before goes, too.
RolledBackTwice == IF Len(memory) < 2 THEN <<>> ELSE Front(Front(memory))
\* Mutant of RolledBack: nothing is taken back.
RolledBackNot == memory
\* The last turn goes, whoever has appended it.
RolledBack == IF memory = <<>> THEN <<>> ELSE Front(memory)

\* A handler whose own question was refused takes back the turn of another.
RollbackLast(l) ==
  /\ pc(l) = "rollback"
  /\ \/ memory' = RolledBack /\ UNCHANGED <<faults, disturbed>>
        /\ missing' = IF event(l) \in blank /\ memory # <<>>
                      THEN missing \cup {memory[Len(memory)]} ELSE missing
     \/ Fault /\ memory' \in {memory, RolledBack} /\ disturbed' = TRUE /\ UNCHANGED missing
  /\ Goes(l, "nak")
  /\ UNCHANGED <<stream, delivered, blank, handed>>

AppendAssistant(l) == pc(l) = "answer" /\ Appends(l, "assistant", "check")

\* Mutant of Evicted: as many turns as the brain is shown are kept, and one more.
EvictedButOne == SubSeq(memory, 1, Len(memory) - Limit - 1)
\* The turns that the brain will not be shown again.  They stay in the memory.
Evicted == SubSeq(memory, 1, Len(memory) - Limit)

\* A consolidation takes them, in the background, and ends with an entry in the long-term
\* memory or without: nothing here depends on that.
TriggerMemoryConsolidation(l) ==
  /\ pc(l) = "check"
  /\ \/ /\ handed' = IF Len(memory) <= Limit THEN handed ELSE handed \cup Range(Evicted)
        /\ UNCHANGED <<faults, disturbed>>
     \/ Fault /\ disturbed' = TRUE /\ UNCHANGED handed
  /\ Goes(l, "publish")
  /\ UNCHANGED <<memory, stream, delivered, blank, missing>>

\* The response is published, or it is not, or it is and the loop does not know
\* (see SpokeAnswers of HubOrchestration).
PublishResponse(l) ==
  /\ pc(l) = "publish"
  /\ \/ Goes(l, "ack") /\ UNCHANGED faults
     \/ Fault /\ Goes(l, "nak")
  /\ UNCHANGED <<memory, stream, delivered, blank, history>>

-----------------------------------------------------------------------------
(* handleEndThread                                                         *)

\* All turns, or none if they cannot be read: then they are cleared unseen.
GetHistory(l) ==
  /\ pc(l) = "history"
  /\ \/ /\ loop' = [loop EXCEPT ![l].pc = IF memory = <<>> THEN "clear" ELSE "consolidate", ![l].copy = memory]
        /\ UNCHANGED <<faults, disturbed>>
     \/ Fault /\ disturbed' = TRUE /\ Goes(l, "clear")
  /\ UNCHANGED <<memory, stream, delivered, blank, handed, missing>>

\* The history is published and consolidated.  Whether either succeeds does not matter.
ConsolidateThread(l) ==
  /\ pc(l) = "consolidate"
  /\ handed' = handed \cup Range(loop[l].copy)
  /\ loop' = [loop EXCEPT ![l].pc = "clear", ![l].copy = <<>>]
  /\ UNCHANGED <<memory, stream, delivered, faults, blank, missing, disturbed>>

-----------------------------------------------------------------------------
Handle(l) ==
  \/ Clear(l) \/ AppendContext(l)
  \/ Get(l) \/ AppendUser(l) \/ ExecuteStep(l) \/ BrainFails(l) \/ RollbackLast(l)
  \/ AppendAssistant(l) \/ TriggerMemoryConsolidation(l) \/ PublishResponse(l)
  \/ GetHistory(l) \/ ConsolidateThread(l)

Next ==
  \/ \E l \in Loops : Fetch(l) \/ DeadLetter(l) \/ Settle(l) \/ Handle(l)
  \/ Crash

Spec == Init /\ [][Next]_vars

-----------------------------------------------------------------------------
Answer(t) == [t EXCEPT !.role = "assistant"]
Question(t) == [t EXCEPT !.role = "user"]

\* What stands beside a turn of the memory.
InPlace(k) ==
  LET t == memory[k] IN
  /\ t.role = "context" => k = 1 \/ memory[k - 1].role = "context"
  /\ t.role = "user" => Answer(t) \in missing \/ (k < Len(memory) /\ memory[k + 1] = Answer(t))
  /\ t.role = "assistant" => Question(t) \in missing \/ (k > 1 /\ memory[k - 1] = Question(t))

\* Retries and failures of the brain leave no half of a turn behind: while nobody works
\* on the thread, a question is followed by its answer, and what a delegation brought along
\* comes first.  Only an answer or a question without text is missing
\* (memory_adapter.go:95-100), and the turn that a failed delegation without text has taken
\* back in the place of its own (schema_router_impl.go:409).  Not claimed if Redis failed, the
\* process died or two handlers were at work at once since the memory was last cleared.
TurnsPaired ==
  ~disturbed /\ (\A l \in Loops : pc(l) = "idle") => \A k \in 1..Len(memory) : InPlace(k)

\* What the brain is not shown any more, a consolidation has seen: the window that is
\* read before a turn and the turns that are evicted after one fit together
\* (message_processor.go:70 and 125-137).
ForgottenIsHanded ==
  \A l \in Loops : ~disturbed /\ pc(l) = "append" =>
    \A k \in 1..Len(memory) :
      k + Limit <= Len(memory) /\ memory[k].role # "context" => memory[k] \in handed

\* A turn leaves the memory when it is taken back by its own handler, when it was handed
\* to a consolidation, or when a start or a delegation replaces the memory; and when a
\* delegation without text fails, which takes back what it has not appended.
NothingForgotten ==
  [][\A t \in Range(memory) \ Range(memory') :
       \/ disturbed
       \/ t \in handed
       \/ \E l \in Loops :
            \/ pc(l) = "rollback" /\ (t = TurnOf(l, "user") \/ event(l) \in blank)
            \/ pc(l) = "clear" /\ Schema[event(l)] # "end-thread"]_vars
=============================================================================
