---------------------------- MODULE HubOrchestration ----------------------------
(***************************************************************************)
(* The hub agent's conversation flow for one thread: the Orchestrator      *)
(* (internal/agent/application/service/orchestrator.go), driven by the     *)
(* pull loops of the JetStream EventSubscriber                             *)
(* (internal/agent/adapters/inbound/nats/event_subscriber.go), over the    *)
(* orchestration state and the thread lock in Redis                        *)
(* (internal/agent/adapters/outbound/redis/state_lock_adapter.go).         *)
(*                                                                         *)
(* A handler is cut where it touches what others see: each Redis command,  *)
(* each publish and each acknowledgement is a step of its own, and other   *)
(* loops, spokes and failures come between.  The brain is nondeterministic *)
(* and short-term memory, which only feeds its prompts, is left out.       *)
(***************************************************************************)
EXTENDS Naturals, Sequences, FiniteSets

CONSTANTS User,         \* the user messages of the thread
          Spoke,        \* the agents that consume their subject and answer
          Hub,          \* the hub's own name
          Ghost,        \* names the brain may invent
          Cards,        \* names of the agent cards that discovery returns
          Delegations,  \* lists of names the brain may delegate to
          Handoff,      \* targets the spokes may suggest
          HubLoop,      \* pull loops on the hub subject, one per replica
          RespLoop,     \* pull loops on the response subjects, one per replica
          LoopSlack,    \* the 3 of maxLoops := len(spokes) + 3
          MaxDeliver,   \* the 5 of NumDelivered > 5
          Overrun,      \* the brain may take longer than the lock's TTL
          Faults,       \* the kinds of failure that may happen
          MaxFaults,    \* bound: how many failures
          MaxTasks,     \* bound: how many tasks are delegated
          None

Name == Spoke \cup Ghost \cup {Hub}
Loop == HubLoop \cup RespLoop
FaultKind == {"lock", "load", "save", "reply", "clear", "unlock", "cards",
              "brain", "publish", "ack", "slow", "crash", "spoke"}

ASSUME ConstantsAssumption ==
  /\ Cards \subseteq Spoke \cup {Hub} /\ Spoke \subseteq Cards /\ IsFiniteSet(Cards)
  /\ Handoff \subseteq Cards
  /\ Hub \notin Spoke /\ Ghost \cap Cards = {}
  /\ Delegations \subseteq Seq(Spoke \cup Ghost) /\ <<>> \notin Delegations
  /\ HubLoop \cap RespLoop = {}
  /\ LoopSlack \in Nat \ {0} /\ MaxDeliver \in Nat /\ MaxTasks \in Nat /\ MaxFaults \in Nat
  /\ Overrun \in BOOLEAN
  /\ Faults \subseteq FaultKind
  /\ None \notin User \cup Name \cup Loop

\* A task names the spoke it is for.  "copy" tells the first run of the task
\* from the run after a redelivery, and "flow" is the user message it serves;
\* the code's event has neither.
Task == [id : 1..MaxTasks, spoke : Name, copy : {1, 2}, flow : User]

Message ==
  [kind : {"user"}, id : User]
    \cup [kind : {"resp"}, task : Task, handoff : Handoff \cup {None}]

Entry == [msg : Message, n : Nat, ready : BOOLEAN]

\* model.OrchestrationState.  PendingSpokes maps a name to the text of its
\* task, here the task's number, and 0 stands for a name that is not a key.
Pending == [Name -> 0..MaxTasks]

State == [status : {"idle", "waiting_spoke"}, pending : Pending, orig : User,
          loop : Nat, max : Nat]

ASSUME NoneAssumption == None \notin State

NothingPending == [a \in Name |-> 0]

PlaceInSection == {"init", "load", "fanin", "turn", "save", "publish", "clear", "final", "unlock"}
Place == {"idle", "lock", "ack"} \cup PlaceInSection

VARIABLES sent,      \* user messages published by the keeper
          stream,    \* JetStream: entries not acknowledged yet
          dlq,       \* messages in TACITO_DLQ
          lock,      \* the loop whose token the lock key holds, or None
          store,     \* the orchestration state in Redis, or None
          tasks,     \* delegations in the spokes' subjects
          nextTask,  \* number of the next task
          answers,   \* final answers published for each user message
          current,   \* history: the user message that started the latest flow
          faults,    \* failures so far
          pc,        \* place of each loop
          msg,       \* message the loop handles
          st,        \* its copy of the orchestration state
          todo,      \* tasks it has still to publish
          verdict    \* "ack" or "nak": what the handler returned

local == <<pc, msg, st, todo, verdict>>
redis == <<lock, store>>
history == <<answers, current>>
vars == <<sent, stream, dlq, redis, tasks, nextTask, history, faults, local>>

-----------------------------------------------------------------------------
InSection(w) == pc[w] \in PlaceInSection

Fault(kind) == kind \in Faults /\ faults < MaxFaults /\ faults' = faults + 1
NoFault == UNCHANGED faults

Go(w, place) == pc' = [pc EXCEPT ![w] = place]

\* The handler returns, its variables go out of scope, and the deferred Unlock
\* is next.
Return(w, v) ==
  /\ Go(w, "unlock")
  /\ st' = [st EXCEPT ![w] = None]
  /\ todo' = [todo EXCEPT ![w] = <<>>]
  /\ verdict' = [verdict EXCEPT ![w] = v]

\* The loop goes back to Fetch, or its process starts over.
Forget(w) ==
  /\ Go(w, "idle")
  /\ msg' = [msg EXCEPT ![w] = None]
  /\ st' = [st EXCEPT ![w] = None]
  /\ todo' = [todo EXCEPT ![w] = <<>>]
  /\ verdict' = [verdict EXCEPT ![w] = None]

Init ==
  /\ sent = {} /\ stream = {} /\ dlq = {} /\ tasks = {}
  /\ lock = None /\ store = None
  /\ nextTask = 1
  /\ answers = [u \in User |-> 0]
  /\ current = None
  /\ faults = 0
  /\ pc = [w \in Loop |-> "idle"]
  /\ msg = [w \in Loop |-> None]
  /\ st = [w \in Loop |-> None]
  /\ todo = [w \in Loop |-> <<>>]
  /\ verdict = [w \in Loop |-> None]

-----------------------------------------------------------------------------
(* The environment: the keeper publishes user messages, spokes answer.     *)

Published(m) == [msg |-> m, n |-> 0, ready |-> TRUE]

UserSends(u) ==
  /\ u \notin sent
  /\ sent' = sent \cup {u}
  /\ stream' = stream \cup {Published([kind |-> "user", id |-> u])}
  /\ UNCHANGED <<dlq, redis, tasks, nextTask, history, faults, local>>

\* A spoke runs a task and publishes its response, which may suggest a
\* handoff.  If its acknowledgement is lost, the task is delivered again and
\* answered by a second event with an id of its own (handleAgentDelegation).
SpokeAnswers(t) ==
  /\ t.spoke \in Spoke
  /\ \E h \in Handoff \cup {None} :
       stream' = stream \cup {Published([kind |-> "resp", task |-> t, handoff |-> h])}
  /\ \/ tasks' = tasks \ {t} /\ NoFault
     \/ t.copy = 1 /\ Fault("ack") /\ tasks' = (tasks \ {t}) \cup {[t EXCEPT !.copy = 2]}
  /\ UNCHANGED <<sent, dlq, redis, nextTask, history, local>>

\* A spoke fails on all its deliveries of a task, which goes to the DLQ.
SpokeFails(t) ==
  /\ t.spoke \in Spoke
  /\ Fault("spoke")
  /\ tasks' = tasks \ {t}
  /\ UNCHANGED <<sent, stream, dlq, redis, nextTask, history, local>>

-----------------------------------------------------------------------------
(* The pull loops.                                                         *)

Consumes(w, m) == IF m.kind = "user" THEN w \in HubLoop ELSE w \in RespLoop

\* Fetch(1): the server counts the delivery.
Fetch(w) ==
  /\ pc[w] = "idle"
  /\ \E e \in stream :
       /\ e.ready /\ Consumes(w, e.msg) /\ e.n < MaxDeliver
       /\ stream' = (stream \ {e}) \cup {[e EXCEPT !.n = @ + 1, !.ready = FALSE]}
       /\ msg' = [msg EXCEPT ![w] = e.msg]
  /\ Go(w, "lock")
  /\ UNCHANGED <<sent, dlq, redis, tasks, nextTask, history, faults, st, todo, verdict>>

\* Every loop finds its subject empty, and fetches again after the timeout.
FetchTimeout ==
  /\ \A w \in Loop : pc[w] = "idle"
  /\ \A e \in stream : ~e.ready
  /\ UNCHANGED vars

\* The delivery exceeds the limit: the message is published to the DLQ and
\* acknowledged, or negatively acknowledged when that publish fails.
DeadLetter(w) ==
  /\ pc[w] = "idle"
  /\ \E e \in stream :
       /\ e.ready /\ Consumes(w, e.msg) /\ e.n >= MaxDeliver
       /\ \/ stream' = stream \ {e} /\ dlq' = dlq \cup {e.msg} /\ NoFault
          \/ /\ Fault("publish")
             /\ stream' = (stream \ {e}) \cup {[e EXCEPT !.n = @ + 1]}
             /\ UNCHANGED dlq
  /\ UNCHANGED <<sent, redis, tasks, nextTask, history, local>>

\* AckWait runs out while the message is being handled.
AckWaitExpires(w) ==
  /\ pc[w] # "idle"
  /\ \E e \in stream :
       /\ e.msg = msg[w] /\ ~e.ready
       /\ stream' = (stream \ {e}) \cup {[e EXCEPT !.ready = TRUE]}
  /\ Fault("slow")
  /\ UNCHANGED <<sent, dlq, redis, tasks, nextTask, history, local>>

Unsettled(m) == {e \in stream : e.msg = m}

Redeliver(m) == (stream \ Unsettled(m)) \cup {[e EXCEPT !.ready = TRUE] : e \in Unsettled(m)}

\* Handled messages are never acknowledged (a mutation of Settle).
SettleNeverAcks(w) ==
  /\ pc[w] = "ack"
  /\ stream' = Redeliver(msg[w])
  /\ NoFault
  /\ Forget(w)
  /\ UNCHANGED <<sent, dlq, redis, tasks, nextTask, history>>

\* Messages are acknowledged whatever the handler returned (a mutation of Settle).
SettleAlwaysAcks(w) ==
  /\ pc[w] = "ack"
  /\ stream' = stream \ Unsettled(msg[w])
  /\ NoFault
  /\ Forget(w)
  /\ UNCHANGED <<sent, dlq, redis, tasks, nextTask, history>>

\* processAndAck returns: Ack after success, Nak after an error.  An Ack that
\* is lost leaves the message to AckWait.
Settle(w) ==
  /\ pc[w] = "ack"
  /\ \/ verdict[w] = "ack" /\ stream' = stream \ Unsettled(msg[w]) /\ NoFault
     \/ verdict[w] = "nak" /\ stream' = Redeliver(msg[w]) /\ NoFault
     \/ verdict[w] = "ack" /\ stream' = Redeliver(msg[w]) /\ Fault("ack")
  /\ Forget(w)
  /\ UNCHANGED <<sent, dlq, redis, tasks, nextTask, history>>

\* The replica dies.  Redis keeps the lock until its TTL, JetStream redelivers.
Crash(w) ==
  /\ pc[w] # "idle"
  /\ Fault("crash")
  /\ stream' = Redeliver(msg[w])
  /\ Forget(w)
  /\ UNCHANGED <<sent, dlq, redis, tasks, nextTask, history>>

-----------------------------------------------------------------------------
(* Lock and Unlock of the handlers (see ThreadLock).                       *)

\* SET NX succeeds whoever holds the key (a mutation of AcquireLock).
AcquireLockNoGuard(w) ==
  /\ pc[w] = "lock"
  /\ lock' = w
  /\ Go(w, IF msg[w].kind = "user" THEN "init" ELSE "load")
  /\ UNCHANGED <<sent, stream, dlq, store, tasks, nextTask, history, faults, msg, st, todo, verdict>>

\* SET NX on an absent key.
AcquireLock(w) ==
  /\ pc[w] = "lock"
  /\ lock = None
  /\ lock' = w
  /\ Go(w, IF msg[w].kind = "user" THEN "init" ELSE "load")
  /\ UNCHANGED <<sent, stream, dlq, store, tasks, nextTask, history, faults, msg, st, todo, verdict>>

\* lockTimeout while another loop holds the lock, an error of Redis, or a
\* SET NX whose reply is lost and whose token nobody will release.
LockFails(w) ==
  /\ pc[w] = "lock"
  /\ \/ lock # None /\ UNCHANGED lock /\ NoFault
     \/ Fault("lock") /\ UNCHANGED lock
     \/ lock = None /\ lock' = w /\ Fault("reply")
  /\ Go(w, "ack")
  /\ verdict' = [verdict EXCEPT ![w] = "nak"]
  /\ UNCHANGED <<sent, stream, dlq, store, tasks, nextTask, history, msg, st, todo>>

\* The deferred Unlock: compare and delete.  Its error is only logged.
Unlock(w) ==
  /\ pc[w] = "unlock"
  /\ \/ lock' = (IF lock = w THEN None ELSE lock) /\ NoFault
     \/ lock = w /\ UNCHANGED lock /\ Fault("unlock")
  /\ Go(w, "ack")
  /\ UNCHANGED <<sent, stream, dlq, store, tasks, nextTask, history, msg, st, todo, verdict>>

\* The key's TTL runs out: when its holder is gone or, with Overrun, while the
\* holder waits for the brain, to take its turn or to polish the final answer.
LockExpires ==
  /\ lock # None
  /\ ~InSection(lock) \/ (Overrun /\ pc[lock] \in {"turn", "final"})
  /\ lock' = None
  /\ UNCHANGED <<sent, stream, dlq, store, tasks, nextTask, history, faults, local>>

-----------------------------------------------------------------------------
(* ProcessUserMessage.                                                     *)

InitState(w, cards) ==
  [status |-> "idle", pending |-> NothingPending, orig |-> msg[w].id,
   loop |-> 0, max |-> Cardinality(cards) + LoopSlack]

\* The first SaveState is left out (a mutation of InitFlow).
InitFlowNoSave(w) ==
  /\ pc[w] = "init"
  /\ st' = [st EXCEPT ![w] = InitState(w, Cards)]
  /\ current' = msg[w].id
  /\ Go(w, "turn")
  /\ UNCHANGED <<sent, stream, dlq, redis, tasks, nextTask, answers, faults, msg, todo, verdict>>

\* GetCards (an error is only logged and counts as no cards) and the first
\* SaveState, which replaces whatever state the thread had.
InitFlow(w) ==
  /\ pc[w] = "init"
  /\ \E cards \in {Cards, {}} :
       /\ IF cards = Cards THEN NoFault ELSE Fault("cards")
       /\ store' = InitState(w, cards)
       /\ st' = [st EXCEPT ![w] = InitState(w, cards)]
  /\ current' = msg[w].id
  /\ Go(w, "turn")
  /\ UNCHANGED <<sent, stream, dlq, lock, tasks, nextTask, answers, msg, todo, verdict>>

\* GetState or SaveState fails: the handler returns the error.
RedisFails(w) ==
  /\ \/ pc[w] = "load" /\ Fault("load")
     \/ pc[w] \in {"init", "fanin", "save"} /\ Fault("save")
  /\ Return(w, "nak")
  /\ UNCHANGED <<sent, stream, dlq, redis, tasks, nextTask, history, msg>>

\* SaveState reached Redis, but its reply did not reach the handler, which
\* returns the error: nothing is published for the state it saved.  (This
\* failure comes alone: GetCards of the same handler has succeeded.)
SaveReplyLost(w) ==
  /\ Fault("reply")
  /\ \/ pc[w] = "init" /\ store' = InitState(w, Cards) /\ current' = msg[w].id
     \/ pc[w] \in {"fanin", "save"} /\ store' = st[w] /\ UNCHANGED current
  /\ Return(w, "nak")
  /\ UNCHANGED <<sent, stream, dlq, lock, tasks, nextTask, answers, msg>>

-----------------------------------------------------------------------------
(* ProcessSpokeResponse.                                                   *)

From(w) == msg[w].task.spoke

Awaited(w) ==
  store # None /\ store.status = "waiting_spoke" /\ store.pending[From(w)] # 0

\* No state waits for this spoke: the response is acknowledged and ignored.
IgnoreResponse(w) ==
  /\ pc[w] = "load"
  /\ ~Awaited(w)
  /\ Return(w, "ack")
  /\ UNCHANGED <<sent, stream, dlq, redis, tasks, nextTask, history, faults, msg>>

Answered(w) == [store EXCEPT !.pending[From(w)] = 0]

\* The join check is left out (a mutation of AcceptResponse).
AcceptResponseNoJoin(w) ==
  /\ pc[w] = "load"
  /\ Awaited(w)
  /\ IF msg[w].handoff = None \/ nextTask > MaxTasks THEN NoFault ELSE Fault("cards")
  /\ st' = [st EXCEPT ![w] = Answered(w)]
  /\ Go(w, "turn")
  /\ UNCHANGED <<sent, stream, dlq, redis, tasks, nextTask, history, msg, todo, verdict>>

\* The response counts: its spoke leaves the pending map of the handler's copy.
\* While others are pending the copy is saved ("fanin"), otherwise a turn runs
\* on the copy.  A suggested handoff is an ordinary response when GetCards does
\* not return its target (and at the bound on tasks).
AcceptResponse(w) ==
  /\ pc[w] = "load"
  /\ Awaited(w)
  /\ IF msg[w].handoff = None \/ nextTask > MaxTasks THEN NoFault ELSE Fault("cards")
  /\ st' = [st EXCEPT ![w] = Answered(w)]
  /\ Go(w, IF Answered(w).pending = NothingPending THEN "turn" ELSE "fanin")
  /\ UNCHANGED <<sent, stream, dlq, redis, tasks, nextTask, history, msg, todo, verdict>>

\* A handoff to an agent with a card: the target replaces the suggesting
\* spoke in the pending map, where it may overwrite its own entry, and the
\* state is saved before the task is published.  No loop is counted.
AcceptHandoff(w) ==
  /\ pc[w] = "load"
  /\ Awaited(w)
  /\ msg[w].handoff # None
  /\ nextTask <= MaxTasks
  /\ st' = [st EXCEPT ![w] = [Answered(w) EXCEPT !.pending[msg[w].handoff] = nextTask]]
  /\ todo' = [todo EXCEPT ![w] =
       <<[id |-> nextTask, spoke |-> msg[w].handoff, copy |-> 1, flow |-> store.orig]>>]
  /\ nextTask' = nextTask + 1
  /\ Go(w, "save")
  /\ UNCHANGED <<sent, stream, dlq, redis, tasks, history, faults, msg, verdict>>

\* The joined state is not saved (a mutation of SaveFanIn).
SaveFanInSkipped(w) ==
  /\ pc[w] = "fanin"
  /\ Return(w, "ack")
  /\ UNCHANGED <<sent, stream, dlq, redis, tasks, nextTask, history, faults, msg>>

SaveFanIn(w) ==
  /\ pc[w] = "fanin"
  /\ store' = st[w]
  /\ Return(w, "ack")
  /\ UNCHANGED <<sent, stream, dlq, lock, tasks, nextTask, history, faults, msg>>

-----------------------------------------------------------------------------
(* runOrchestrationTurn.                                                   *)

NextLoop(w) == [st[w] EXCEPT !.loop = @ + 1]

LoopsExhausted(w) == st[w].loop + 1 > st[w].max

\* The brain answers, or the loop limit forces it: the state is cleared next.
Finalize(w) ==
  /\ pc[w] = "turn"
  /\ st' = [st EXCEPT ![w] = NextLoop(w)]
  /\ Go(w, "clear")
  /\ UNCHANGED <<sent, stream, dlq, redis, tasks, nextTask, history, faults, msg, todo, verdict>>

\* The k-th task of a delegation list.
TaskOf(list, k, flow) == [id |-> nextTask + k - 1, spoke |-> list[k], copy |-> 1, flow |-> flow]

\* Task numbers off by one (a mutation of PendingOf).
PendingOfNext(list) ==
  [a \in Name |-> LET at == {k \in DOMAIN list : list[k] = a}
                  IN  IF at = {} THEN 0
                      ELSE nextTask + CHOOSE k \in at : \A j \in at : j <= k]

\* The pending map of a delegation list: a name that occurs twice keeps its
\* last task.
PendingOf(list) ==
  [a \in Name |-> LET at == {k \in DOMAIN list : list[k] = a}
                  IN  IF at = {} THEN 0
                      ELSE nextTask - 1 + CHOOSE k \in at : \A j \in at : j <= k]

DelegateTo(w, list) ==
  /\ nextTask + Len(list) - 1 <= MaxTasks
  /\ st' = [st EXCEPT ![w] = [NextLoop(w) EXCEPT !.status = "waiting_spoke",
                                                 !.pending = PendingOf(list)]]
  /\ todo' = [todo EXCEPT ![w] = [k \in DOMAIN list |-> TaskOf(list, k, st[w].orig)]]
  /\ nextTask' = nextTask + Len(list)
  /\ Go(w, "save")
  /\ UNCHANGED <<sent, stream, dlq, redis, tasks, history, faults, msg, verdict>>

\* The brain delegates, within the loop limit.
Delegate(w) ==
  /\ pc[w] = "turn"
  /\ ~LoopsExhausted(w)
  /\ \E list \in Delegations : DelegateTo(w, list)

\* compileSystemPrompt or Generate fails, or the brain delegates to nobody.
BrainFails(w) ==
  /\ pc[w] = "turn"
  /\ ~LoopsExhausted(w)
  /\ Fault("cards") \/ Fault("brain")
  /\ Return(w, "nak")
  /\ UNCHANGED <<sent, stream, dlq, redis, tasks, nextTask, history, msg>>

SaveWaiting(w) ==
  /\ pc[w] = "save"
  /\ store' = st[w]
  /\ Go(w, "publish")
  /\ UNCHANGED <<sent, stream, dlq, lock, tasks, nextTask, history, faults, msg, st, todo, verdict>>

\* Only the first task of the list is published (a mutation of Publish).
PublishFirst(w) ==
  /\ pc[w] = "publish"
  /\ tasks' = tasks \cup {Head(todo[w])}
  /\ Return(w, "ack")
  /\ UNCHANGED <<sent, stream, dlq, redis, nextTask, history, faults, msg>>

\* A task for a name that nobody subscribes under stays in the stream unread.
Publish(w) ==
  /\ pc[w] = "publish"
  /\ tasks' = tasks \cup {Head(todo[w])}
  /\ \/ Len(todo[w]) = 1 /\ Return(w, "ack")
     \/ /\ Len(todo[w]) > 1
        /\ todo' = [todo EXCEPT ![w] = Tail(@)]
        /\ UNCHANGED <<pc, st, verdict>>
  /\ UNCHANGED <<sent, stream, dlq, redis, nextTask, history, faults, msg>>

\* Publishing a task or the final answer fails, or its acknowledgement is lost.
PublishFails(w) ==
  /\ Fault("publish")
  /\ \/ /\ pc[w] = "publish"
        /\ tasks' = tasks \/ tasks' = tasks \cup {Head(todo[w])}
        /\ UNCHANGED answers
     \/ /\ pc[w] = "final"
        /\ \E n \in {0, 1} : answers' = [answers EXCEPT ![st[w].orig] = @ + n]
        /\ UNCHANGED tasks
  /\ Return(w, "nak")
  /\ UNCHANGED <<sent, stream, dlq, redis, nextTask, current, msg>>

\* ClearState; its error is only logged and leaves the state behind.
Clear(w) ==
  /\ pc[w] = "clear"
  /\ \/ store' = None /\ NoFault
     \/ UNCHANGED store /\ Fault("clear")
  /\ Go(w, "final")
  /\ UNCHANGED <<sent, stream, dlq, lock, tasks, nextTask, history, msg, st, todo, verdict>>

PublishFinal(w) ==
  /\ pc[w] = "final"
  /\ answers' = [answers EXCEPT ![st[w].orig] = @ + 1]
  /\ Return(w, "ack")
  /\ UNCHANGED <<sent, stream, dlq, redis, tasks, nextTask, current, faults, msg>>

-----------------------------------------------------------------------------
Handle(w) ==
  \/ AcquireLock(w) \/ LockFails(w) \/ InitFlow(w) \/ RedisFails(w) \/ SaveReplyLost(w)
  \/ IgnoreResponse(w) \/ AcceptResponse(w) \/ AcceptHandoff(w) \/ SaveFanIn(w)
  \/ Finalize(w) \/ Delegate(w) \/ BrainFails(w)
  \/ SaveWaiting(w) \/ Publish(w) \/ PublishFails(w)
  \/ Clear(w) \/ PublishFinal(w) \/ Unlock(w)

Next ==
  \/ \E u \in User : UserSends(u)
  \/ \E t \in tasks : SpokeAnswers(t) \/ SpokeFails(t)
  \/ LockExpires
  \/ FetchTimeout
  \/ \E w \in Loop : \/ Fetch(w) \/ DeadLetter(w) \/ AckWaitExpires(w)
                     \/ Settle(w) \/ Crash(w) \/ Handle(w)

\* The loops run, Redis expires keys, and the spokes answer what reaches them.
\* A lock attempt that keeps failing counts towards the delivery limit.
Fairness ==
  /\ WF_vars(LockExpires)
  /\ \A w \in Loop : WF_vars(Fetch(w) \/ DeadLetter(w) \/ Settle(w) \/ Handle(w))
  /\ WF_vars(\E t \in tasks : SpokeAnswers(t))

Spec == Init /\ [][Next]_vars

FairSpec == Spec /\ Fairness

-----------------------------------------------------------------------------
TypeOK ==
  /\ sent \subseteq User
  /\ stream \subseteq Entry
  /\ dlq \subseteq Message
  /\ lock \in Loop \cup {None}
  /\ store \in State \cup {None}
  /\ tasks \subseteq Task
  /\ nextTask \in 1..MaxTasks + 1
  /\ answers \in [User -> Nat]
  /\ current \in User \cup {None}
  /\ faults \in 0..MaxFaults
  /\ pc \in [Loop -> Place]
  /\ msg \in [Loop -> Message \cup {None}]
  /\ st \in [Loop -> State \cup {None}]
  /\ todo \in [Loop -> Seq(Task)]
  /\ verdict \in [Loop -> {"ack", "nak", None}]

\* The orchestration state changes only in the hands of the loop that holds
\* the thread lock, between its Lock and its Unlock: user messages and spoke
\* responses, delivered to different loops and replicas, are handled one at a
\* time (Lock and the deferred Unlock of ProcessUserMessage and
\* ProcessSpokeResponse), provided that the work fits in the lock's TTL.
OnlyLockHolderWrites ==
  [][store' # store => \E w \in Loop : lock = w /\ InSection(w) /\ pc'[w] # pc[w]]_vars

\* The saved state always belongs to the latest user message the hub took up:
\* a handler of an older message or response, slow, retried or interrupted by
\* failures, never writes the state it had read over that of a newer flow (the
\* read-modify-write of GetState and SaveState under the thread lock).
FlowNotOverwritten == store # None => store.orig = current

\* The safeguard against endless delegation: a saved state never exceeds the
\* limit its flow started with, across redeliveries, failed saves and the
\* handler's copies of the state (LoopCount and MaxLoops of
\* runOrchestrationTurn).
LoopBounded ==
  /\ store # None => store.loop <= store.max
  /\ \A w \in Loop : st[w] # None /\ pc[w] # "clear" /\ pc[w] # "final" => st[w].loop <= st[w].max

\* A response on which the flow still depends: not handled and acknowledged.
AwaitsHandling(e) ==
  \A w \in Loop : ~(msg[w] = e.msg /\ pc[w] \in {"unlock", "ack"} /\ verdict[w] = "ack")

\* When a spoke response starts a turn, no task of the flow is unanswered and
\* no other response of it is unread: the join of ProcessSpokeResponse waits
\* for all delegated spokes.
FanInComplete ==
  \A w \in Loop : pc[w] = "turn" /\ msg[w].kind = "resp" =>
    /\ \A t \in tasks : t.flow # st[w].orig
    /\ \A e \in stream :
         e.msg.kind = "resp" /\ e.msg.task.flow = st[w].orig /\ e.msg # msg[w] => ~AwaitsHandling(e)

UserMessage(u) == [kind |-> "user", id |-> u]

InStream(m) == \E e \in stream : e.msg = m

\* A message of u's flow: the user message itself, or a response to a task of it.
OfFlow(m, u) == m = UserMessage(u) \/ (m.kind = "resp" /\ m.task.flow = u)

InFlight(u) == \E e \in stream : OfFlow(e.msg, u)

DeadLettered(u) == \E m \in dlq : OfFlow(m, u)

\* A later user message of the thread replaced u's flow, or u's was handled
\* when the other's flow had started.
Superseded(u) == current # None /\ current # u /\ ~InStream(UserMessage(u))

Serving(u) == \E w \in Loop : InSection(w) /\ st[w] # None /\ st[w].orig = u

WaitingFor(u) == store # None /\ store.status = "waiting_spoke" /\ store.orig = u

\* A user message is never forgotten: until it is answered, it or a response of
\* its flow is in the stream or in the DLQ, or a handler works on it, or the saved
\* state waits for its spokes, or a later message took over the thread (at-least-once handling by
\* processAndAck, SaveState before the fan-out, ClearState before the answer).
NothingLost ==
  \A u \in sent :
    \/ answers[u] > 0
    \/ InFlight(u) \/ DeadLettered(u)
    \/ Serving(u) \/ WaitingFor(u)
    \/ Superseded(u)

\* Every answer after the first to the same user message costs a failure:
\* no order of deliveries, handoffs and turns alone repeats an answer.
DuplicateNeedsFailure == \A u \in User : answers[u] <= 1 + faults

\* The task is queued at its spoke, or to be published, or its response is on
\* its way, or that response was dead-lettered.
Served(id) ==
  \/ \E t \in tasks : t.id = id /\ t.spoke \in Spoke
  \/ \E w \in Loop : pc[w] = "publish" /\ \E k \in DOMAIN todo[w] : todo[w][k].id = id
  \/ \E e \in stream : e.msg.kind = "resp" /\ e.msg.task.id = id /\ AwaitsHandling(e)
  \/ \E m \in dlq : m.kind = "resp" /\ m.task.id = id

\* Whoever the saved state waits for can still answer: otherwise the thread
\* hangs until the user writes again, as the code has no timeout for a spoke.
WaitingIsServed ==
  store # None /\ store.status = "waiting_spoke" =>
    \A a \in Name : store.pending[a] # 0 =>
       \/ Served(store.pending[a])
       \/ InStream(UserMessage(store.orig))

\* Every user message is answered in the end, or dead-lettered, or superseded.
EventuallyAnswered ==
  \A u \in User : u \in sent ~> answers[u] > 0 \/ DeadLettered(u) \/ Superseded(u)

-----------------------------------------------------------------------------
\* The saved state as a reader of the abstract specification sees it.
Saved(field, otherwise) == IF store = None THEN otherwise ELSE store[field]

Join == INSTANCE ScatterGather WITH
          Flow <- User, Agent <- Name,
          flow <- Saved("orig", None),
          waiting <- IF store = None THEN {} ELSE {x \in Name : store.pending[x] # 0},
          round <- Saved("loop", 0),
          limit <- Saved("max", 0)

\* Whatever fails, and whoever handles the messages, the saved state is that of one
\* conversation which asks, hears every agent once, and asks again when the last has
\* answered: no removal from the pending map is lost or made twice by two handlers that
\* read the same state, no round starts early, and only the start of a flow resets the
\* count of rounds (GetState and SaveState of ProcessUserMessage, ProcessSpokeResponse
\* and runOrchestrationTurn under the thread lock).
ImplementsScatterGather == Join!Spec
=============================================================================
