------------------------- MODULE HubOrchestrationProofs -------------------------
(***************************************************************************)
(* Proofs about HubOrchestration, for any users, spokes, replicas,         *)
(* delegation lists and limits. In this order:                             *)
(*   - types, and the limit of rounds (Inv);                               *)
(*   - the thread lock, and the flow of the saved state (SectionInv,       *)
(*     FlowInv);                                                           *)
(*   - the refinement of ScatterGather;                                    *)
(*   - user messages, and the answers to them (StreamInv, PhaseInv,        *)
(*     AnswerInv);                                                         *)
(*   - tasks and responses, the handlers of a message, and what an         *)
(*     acknowledged message left behind (TaskInv, HandlerInv, SafeInv);    *)
(*   - who the saved state waits for (NamesInv, FinishedInv, ReachInv);    *)
(*   - the join (JoinInv).                                                 *)
(* Every part rests on the parts before it.                                *)
(***************************************************************************)
EXTENDS HubOrchestration, FiniteSetTheorems, WellFoundedInduction, TLAPS

Working == {"fanin", "turn", "save", "publish", "clear", "final"}

\* TypeOK, in two parts: what the loops share, and their local variables.
SharedOK ==
  /\ sent \subseteq User
  /\ stream \subseteq Entry
  /\ dlq \subseteq Message
  /\ lock \in Loop \cup {None}
  /\ store \in State \cup {None}
  /\ tasks \subseteq Task
  /\ nextTask \in 1..MaxTasks + 1
  /\ answers \in [User -> Nat]
  /\ current \in User \cup {None}
  /\ faults \in 0..MaxFaults

LocalOK ==
  /\ pc \in [Loop -> Place]
  /\ msg \in [Loop -> Message \cup {None}]
  /\ st \in [Loop -> State \cup {None}]
  /\ todo \in [Loop -> Seq(Task)]
  /\ verdict \in [Loop -> {"ack", "nak", None}]

\* What a loop holds at each place of its handler.
LoopInv(w) ==
  /\ pc[w] # "idle" => msg[w] \in Message
  /\ pc[w] = "init" => msg[w].kind = "user"
  /\ pc[w] = "load" => msg[w].kind = "resp"
  /\ pc[w] \in Working => st[w] \in State
  /\ pc[w] \notin Working => st[w] = None
  /\ pc[w] \in {"save", "publish"} => todo[w] # <<>>
  /\ pc[w] \in Working \ {"clear", "final"} => st[w].loop <= st[w].max

LocalInv == LocalOK /\ \A w \in Loop : LoopInv(w)

\* The saved state respects its limit.
StoreInv == store # None => store.loop <= store.max

Inv == SharedOK /\ StoreInv /\ LocalInv

-----------------------------------------------------------------------------
LEMMA MaxExists ==
  ASSUME NEW n \in Nat, NEW S \in SUBSET (1..n), S # {}
  PROVE  \E k \in S : \A j \in S : j <= k
<1> DEFINE T == {n - k : k \in S}
<1>1. \A k \in S : k \in Int /\ n - k \in Nat /\ n - k \in T
  OBVIOUS
<1>2. T \subseteq Nat /\ T # {}
  BY <1>1
<1>3. PICK m \in T : \A y \in T : <<y, m>> \notin OpToRel(<, Nat)
  <2> HIDE DEF T
  <2> QED
    BY <1>2, WFMin, NatLessThanWellFounded
<1>4. \A y \in T : ~(y < m)
  BY <1>2, <1>3 DEF OpToRel
<1>5. PICK k \in S : m = n - k
  BY <1>3
<1>6. ASSUME NEW j \in S PROVE j <= k
  <2>1. ~(n - j < n - k)
    BY <1>1, <1>4, <1>5
  <2> QED
    BY <1>1, <2>1
<1> QED
  BY <1>6

\* The pending map of a list whose tasks fit under the bound.
LEMMA PendingTyped ==
  ASSUME SharedOK, NEW list \in Delegations, nextTask + Len(list) - 1 <= MaxTasks
  PROVE  PendingOf(list) \in Pending
<1> DEFINE At(x) == {k \in DOMAIN list : list[k] = x}
           Last(x) == CHOOSE k \in At(x) : \A j \in At(x) : j <= k
           Number(x) == IF At(x) = {} THEN 0 ELSE nextTask - 1 + Last(x)
<1>1. list \in Seq(Spoke \cup Ghost)
  BY ConstantsAssumption
<1>2. Len(list) \in Nat /\ DOMAIN list = 1..Len(list)
  BY <1>1
<1>3. nextTask \in Nat /\ nextTask >= 1 /\ MaxTasks \in Nat
  BY ConstantsAssumption DEF SharedOK
<1>4. ASSUME NEW x \in Name PROVE Number(x) \in 0..MaxTasks
  <2>1. CASE At(x) = {}
    BY <2>1, <1>3
  <2>2. CASE At(x) # {}
    <3>1. \E k \in At(x) : \A j \in At(x) : j <= k
      BY <1>2, <2>2, MaxExists
    <3>2. Last(x) \in 1..Len(list)
      BY <1>2, <3>1
    <3> HIDE DEF Last
    <3> QED
      BY <1>2, <1>3, <2>2, <3>2
  <2> QED
    BY <2>1, <2>2
<1>5. PendingOf(list) = [x \in Name |-> Number(x)]
  BY DEF PendingOf
<1> HIDE DEF Number
<1> QED
  BY <1>4, <1>5 DEF Pending

-----------------------------------------------------------------------------
(* How the local variables of a loop change.                               *)

LEMMA LocalFrame == ASSUME LocalInv, UNCHANGED local PROVE LocalInv'
BY DEF local, LocalInv, LocalOK, LoopInv

\* One loop moves on with its message.
LEMMA MoveLocal ==
  ASSUME LocalInv, NEW w \in Loop, NEW p \in Place \ {"idle"},
         NEW s \in State \cup {None}, NEW q \in Seq(Task), NEW v \in {"ack", "nak", None},
         pc[w] # "idle",
         pc' = [pc EXCEPT ![w] = p],
         UNCHANGED msg,
         st' = [st EXCEPT ![w] = s],
         todo' = [todo EXCEPT ![w] = q],
         verdict' = [verdict EXCEPT ![w] = v],
         p = "init" => msg[w].kind = "user",
         p = "load" => msg[w].kind = "resp",
         p \in Working => s \in State,
         p \notin Working => s = None,
         p \in {"save", "publish"} => q # <<>>,
         p \in Working \ {"clear", "final"} => s.loop <= s.max
  PROVE  LocalInv'
<1>1. LocalOK'
  BY DEF LocalInv, LocalOK
<1>2. LoopInv(w)'
  BY DEF LocalInv, LocalOK, LoopInv
<1>3. ASSUME NEW u \in Loop, u # w PROVE LoopInv(u)'
  BY <1>3 DEF LocalInv, LocalOK, LoopInv
<1> QED
  BY <1>1, <1>2, <1>3 DEF LocalInv

LEMMA ReturnLocal ==
  ASSUME LocalInv, NEW w \in Loop, NEW v \in {"ack", "nak"}, pc[w] # "idle",
         Return(w, v), UNCHANGED msg
  PROVE  LocalInv'
<1>1. <<>> \in Seq(Task) /\ "unlock" \in Place \ {"idle"} /\ "unlock" \notin Working
  BY DEF Place, PlaceInSection, Working
<1> QED
  BY <1>1, MoveLocal DEF Return, Go

LEMMA ForgetLocal ==
  ASSUME LocalInv, NEW w \in Loop, Forget(w)
  PROVE  LocalInv'
<1>1. <<>> \in Seq(Task) /\ "idle" \in Place /\ "idle" \notin Working
  BY DEF Place, PlaceInSection, Working
<1>2. LocalOK'
  BY <1>1 DEF LocalInv, LocalOK, Forget, Go
<1>3. LoopInv(w)'
  BY <1>1 DEF LocalInv, LocalOK, LoopInv, Forget, Go
<1>4. ASSUME NEW u \in Loop, u # w PROVE LoopInv(u)'
  BY <1>4 DEF LocalInv, LocalOK, LoopInv, Forget, Go
<1> QED
  BY <1>2, <1>3, <1>4 DEF LocalInv

-----------------------------------------------------------------------------
(* The environment and the pull loops.                                     *)

LEMMA PublishedTyped ==
  ASSUME NEW m \in Message
  PROVE  Published(m) \in Entry
BY DEF Published, Entry

LEMMA RedeliverTyped ==
  ASSUME SharedOK, NEW m
  PROVE  Redeliver(m) \subseteq Entry
BY DEF SharedOK, Redeliver, Unsettled, Entry

LEMMA FaultTyped ==
  ASSUME SharedOK, NEW kind, Fault(kind) \/ NoFault
  PROVE  faults' \in 0..MaxFaults
BY ConstantsAssumption DEF SharedOK, Fault, NoFault

LEMMA UserSendsInv ==
  ASSUME Inv, NEW u \in User, UserSends(u)
  PROVE  Inv'
<1>1. [kind |-> "user", id |-> u] \in Message
  BY DEF Message
<1> QED
  BY <1>1, PublishedTyped, LocalFrame
     DEF UserSends, Inv, SharedOK, StoreInv, redis, history

LEMMA SpokeInv ==
  ASSUME Inv, NEW t \in tasks, SpokeAnswers(t) \/ SpokeFails(t)
  PROVE  Inv'
<1>1. t \in Task /\ [t EXCEPT !.copy = 2] \in Task
  BY DEF Inv, SharedOK, Task
<1>2. CASE SpokeAnswers(t)
  <2>1. PICK h \in Handoff \cup {None} :
          stream' = stream \cup {Published([kind |-> "resp", task |-> t, handoff |-> h])}
    BY <1>2 DEF SpokeAnswers
  <2>2. [kind |-> "resp", task |-> t, handoff |-> h] \in Message
    BY <1>1 DEF Message
  <2>3. stream' \subseteq Entry
    BY <2>1, <2>2, PublishedTyped DEF Inv, SharedOK
  <2>4. tasks' \subseteq Task /\ faults' \in 0..MaxFaults
    BY <1>1, <1>2, FaultTyped DEF SpokeAnswers, Inv, SharedOK
  <2> QED
    BY <1>2, <2>3, <2>4, LocalFrame
       DEF SpokeAnswers, Inv, SharedOK, StoreInv, redis, history
<1>3. CASE SpokeFails(t)
  BY <1>3, FaultTyped, LocalFrame DEF SpokeFails, Inv, SharedOK, StoreInv, redis, history
<1> QED
  BY <1>2, <1>3

LEMMA FetchInv ==
  ASSUME Inv, NEW w \in Loop, Fetch(w)
  PROVE  Inv'
<1>1. PICK e \in stream :
        /\ stream' = (stream \ {e}) \cup {[e EXCEPT !.n = @ + 1, !.ready = FALSE]}
        /\ msg' = [msg EXCEPT ![w] = e.msg]
  BY DEF Fetch
<1>2. e \in Entry /\ e.msg \in Message /\ [e EXCEPT !.n = @ + 1, !.ready = FALSE] \in Entry
  <2>1. e \in Entry
    BY DEF Inv, SharedOK
  <2>2. e.msg \in Message /\ e.n + 1 \in Nat
    BY <2>1 DEF Entry
  <2>3. [e EXCEPT !.n = @ + 1] \in Entry
    BY <2>1 DEF Entry
  <2>4. \A f \in Entry : [f EXCEPT !.ready = FALSE] \in Entry
    BY DEF Entry
  <2>5. [e EXCEPT !.n = @ + 1, !.ready = FALSE] = [[e EXCEPT !.n = @ + 1] EXCEPT !.ready = FALSE]
    BY <2>1
  <2> QED
    BY <2>1, <2>2, <2>3, <2>4, <2>5
<1>3. stream' \subseteq Entry
  BY <1>1, <1>2 DEF Inv, SharedOK
<1>4. SharedOK' /\ StoreInv'
  BY <1>3 DEF Fetch, Inv, SharedOK, StoreInv, redis, history
<1>5. LocalInv'
  BY <1>1, <1>2
     DEF Fetch, Go, Inv, LocalInv, LocalOK, LoopInv, Place, PlaceInSection, Working
<1> QED
  BY <1>4, <1>5 DEF Inv

LEMMA DeadLetterInv ==
  ASSUME Inv, NEW w \in Loop, DeadLetter(w)
  PROVE  Inv'
<1>1. PICK e \in stream :
        \/ stream' = stream \ {e} /\ dlq' = dlq \cup {e.msg} /\ NoFault
        \/ /\ Fault("publish")
           /\ stream' = (stream \ {e}) \cup {[e EXCEPT !.n = @ + 1]}
           /\ UNCHANGED dlq
  BY DEF DeadLetter
<1>2. e.msg \in Message /\ [e EXCEPT !.n = @ + 1] \in Entry
  BY DEF Inv, SharedOK, Entry
<1>3. stream' \subseteq Entry /\ dlq' \subseteq Message
  BY <1>1, <1>2 DEF Inv, SharedOK
<1>4. faults' \in 0..MaxFaults
  BY <1>1, FaultTyped DEF Inv
<1> QED
  BY <1>3, <1>4, LocalFrame DEF DeadLetter, Inv, SharedOK, StoreInv, redis, history

LEMMA AckWaitExpiresInv ==
  ASSUME Inv, NEW w \in Loop, AckWaitExpires(w)
  PROVE  Inv'
<1>1. stream' \subseteq Entry
  BY DEF AckWaitExpires, Inv, SharedOK, Entry
<1> QED
  BY <1>1, FaultTyped, LocalFrame
     DEF AckWaitExpires, Inv, SharedOK, StoreInv, redis, history

LEMMA SettleInv ==
  ASSUME Inv, NEW w \in Loop, Settle(w) \/ Crash(w)
  PROVE  Inv'
<1>1. stream' \subseteq Entry
  BY RedeliverTyped DEF Settle, Crash, Inv, SharedOK
<1>2. faults' \in 0..MaxFaults
  BY FaultTyped DEF Settle, Crash, Inv
<1>3. LocalInv'
  BY ForgetLocal DEF Settle, Crash, Inv
<1> QED
  BY <1>1, <1>2, <1>3 DEF Settle, Crash, Inv, SharedOK, StoreInv, redis, history

LEMMA LockExpiresInv == ASSUME Inv, LockExpires PROVE Inv'
BY LocalFrame DEF LockExpires, Inv, SharedOK, StoreInv, redis, history

-----------------------------------------------------------------------------
(* The handlers.                                                           *)

LEMMA AcquireLockInv ==
  ASSUME Inv, NEW w \in Loop, AcquireLock(w)
  PROVE  Inv'
<1>1. LocalInv'
  BY DEF AcquireLock, Go, Inv, LocalInv, LocalOK, LoopInv, Message, Place, PlaceInSection, Working
<1> QED
  BY <1>1 DEF AcquireLock, Inv, SharedOK, StoreInv, history

LEMMA LockFailsInv ==
  ASSUME Inv, NEW w \in Loop, LockFails(w)
  PROVE  Inv'
<1>1. LocalInv'
  BY DEF LockFails, Go, Inv, LocalInv, LocalOK, LoopInv, Place, PlaceInSection, Working
<1>2. faults' \in 0..MaxFaults
  BY FaultTyped DEF LockFails, Inv
<1> QED
  BY <1>1, <1>2 DEF LockFails, Inv, SharedOK, StoreInv, history

LEMMA UnlockInv ==
  ASSUME Inv, NEW w \in Loop, Unlock(w)
  PROVE  Inv'
<1>1. LocalInv'
  BY DEF Unlock, Go, Inv, LocalInv, LocalOK, LoopInv, Place, PlaceInSection, Working
<1>2. faults' \in 0..MaxFaults
  BY FaultTyped DEF Unlock, Inv
<1> QED
  BY <1>1, <1>2 DEF Unlock, Inv, SharedOK, StoreInv, history

LEMMA InitStateTyped ==
  ASSUME Inv, NEW w \in Loop, pc[w] = "init", NEW cards \in {Cards, {}}
  PROVE  /\ InitState(w, cards) \in State
         /\ InitState(w, cards).loop <= InitState(w, cards).max
         /\ InitState(w, cards).orig = msg[w].id
         /\ msg[w].id \in User
<1>1. Cardinality(cards) \in Nat
  BY ConstantsAssumption, FS_CardinalityType, FS_EmptySet
<1>2. msg[w].id \in User
  BY DEF Inv, LocalInv, LoopInv, Message
<1>3. NothingPending \in Pending
  BY ConstantsAssumption DEF NothingPending, Pending
<1> QED
  BY <1>1, <1>2, <1>3, ConstantsAssumption DEF InitState, State

LEMMA InitFlowInv ==
  ASSUME Inv, NEW w \in Loop, InitFlow(w)
  PROVE  Inv'
<1>1. PICK cards \in {Cards, {}} :
        /\ IF cards = Cards THEN NoFault ELSE Fault("cards")
        /\ store' = InitState(w, cards)
        /\ st' = [st EXCEPT ![w] = InitState(w, cards)]
  BY DEF InitFlow
<1> DEFINE s == InitState(w, cards)
<1>2. s \in State /\ s.loop <= s.max /\ msg[w].id \in User
  BY InitStateTyped DEF InitFlow
<1> HIDE DEF s
<1>3. LocalInv'
  <2>1. "turn" \in Place \ {"idle"} /\ "turn" \in Working
    BY DEF Place, PlaceInSection, Working
  <2>2. /\ todo' = [todo EXCEPT ![w] = todo[w]] /\ todo[w] \in Seq(Task)
        /\ verdict' = [verdict EXCEPT ![w] = verdict[w]] /\ verdict[w] \in {"ack", "nak", None}
    BY DEF InitFlow, Inv, LocalInv, LocalOK
  <2> QED
    BY <1>1, <1>2, <2>1, <2>2, MoveLocal DEF InitFlow, Go, Inv, s
<1>4. faults' \in 0..MaxFaults
  BY <1>1, FaultTyped DEF Inv
<1> QED
  BY <1>1, <1>2, <1>3, <1>4 DEF InitFlow, Inv, SharedOK, StoreInv, s

LEMMA RedisFailsInv ==
  ASSUME Inv, NEW w \in Loop, RedisFails(w)
  PROVE  Inv'
<1>1. LocalInv'
  BY ReturnLocal DEF RedisFails, Inv
<1>2. faults' \in 0..MaxFaults
  BY FaultTyped DEF RedisFails, Inv
<1> QED
  BY <1>1, <1>2 DEF RedisFails, Inv, SharedOK, StoreInv, redis, history

LEMMA SaveReplyLostInv ==
  ASSUME Inv, NEW w \in Loop, SaveReplyLost(w)
  PROVE  Inv'
<1>1. LocalInv'
  BY ReturnLocal DEF SaveReplyLost, Inv
<1>2. faults' \in 0..MaxFaults
  BY FaultTyped DEF SaveReplyLost, Inv
<1>3. /\ store' \in State /\ store'.loop <= store'.max
      /\ current' \in User \cup {None}
  <2>1. CASE pc[w] = "init"
    BY <2>1, InitStateTyped DEF SaveReplyLost
  <2>2. CASE pc[w] \in {"fanin", "save"}
    BY <2>2 DEF SaveReplyLost, Inv, SharedOK, LocalInv, LoopInv, Working
  <2> QED
    BY <2>1, <2>2 DEF SaveReplyLost
<1> QED
  BY <1>1, <1>2, <1>3 DEF SaveReplyLost, Inv, SharedOK, StoreInv

LEMMA IgnoreResponseInv ==
  ASSUME Inv, NEW w \in Loop, IgnoreResponse(w)
  PROVE  Inv'
BY ReturnLocal DEF IgnoreResponse, Inv, SharedOK, StoreInv, redis, history

\* The state without the answering spoke.
LEMMA AnsweredTyped ==
  ASSUME Inv, NEW w \in Loop, pc[w] = "load", Awaited(w)
  PROVE  /\ store \in State /\ From(w) \in Name
         /\ Answered(w) \in State
         /\ Answered(w).loop = store.loop /\ Answered(w).max = store.max
         /\ Answered(w).orig = store.orig
         /\ store.loop <= store.max
<1>1. store \in State /\ store.loop <= store.max
  BY DEF Awaited, Inv, SharedOK, StoreInv
<1>2. From(w) \in Name
  <2>1. msg[w] \in Message /\ msg[w].kind = "resp"
    BY DEF Inv, LocalInv, LoopInv
  <2> QED
    BY <2>1 DEF From, Message, Task
<1>3. 0 \in 0..MaxTasks
  BY ConstantsAssumption
<1>4. [store.pending EXCEPT ![From(w)] = 0] \in Pending
  BY <1>1, <1>3 DEF State, Pending
<1>5. Answered(w) = [store EXCEPT !.pending = [store.pending EXCEPT ![From(w)] = 0]]
  BY <1>1 DEF Answered, State
<1> QED
  BY <1>1, <1>2, <1>4, <1>5 DEF State

LEMMA AcceptResponseInv ==
  ASSUME Inv, NEW w \in Loop, AcceptResponse(w)
  PROVE  Inv'
<1> DEFINE s == Answered(w)
           p == IF s.pending = NothingPending THEN "turn" ELSE "fanin"
<1>1. s \in State /\ s.loop <= s.max
  BY AnsweredTyped DEF AcceptResponse
<1>2. p \in Place \ {"idle"} /\ p \in Working /\ p \notin {"init", "load", "save", "publish"}
  BY DEF Place, PlaceInSection, Working
<1>3. pc' = [pc EXCEPT ![w] = p] /\ st' = [st EXCEPT ![w] = s]
  BY DEF AcceptResponse, Go
<1> HIDE DEF s, p
<1>4. LocalInv'
  <2>1. /\ todo' = [todo EXCEPT ![w] = todo[w]] /\ todo[w] \in Seq(Task)
        /\ verdict' = [verdict EXCEPT ![w] = verdict[w]] /\ verdict[w] \in {"ack", "nak", None}
        /\ pc[w] # "idle" /\ UNCHANGED msg
    BY DEF AcceptResponse, Inv, LocalInv, LocalOK
  <2> QED
    BY <1>1, <1>2, <1>3, <2>1, MoveLocal DEF Inv
<1>5. faults' \in 0..MaxFaults
  BY FaultTyped DEF AcceptResponse, Inv
<1> QED
  BY <1>4, <1>5 DEF AcceptResponse, Inv, SharedOK, StoreInv, redis, history

LEMMA AcceptHandoffInv ==
  ASSUME Inv, NEW w \in Loop, AcceptHandoff(w)
  PROVE  Inv'
<1> DEFINE target == msg[w].handoff
           s == [Answered(w) EXCEPT !.pending[target] = nextTask]
           q == <<[id |-> nextTask, spoke |-> target, copy |-> 1, flow |-> store.orig]>>
<1>1. Answered(w) \in State /\ Answered(w).loop <= Answered(w).max /\ store \in State
  BY AnsweredTyped DEF AcceptHandoff
<1>2. target \in Name /\ nextTask \in 1..MaxTasks
  <2>1. msg[w] \in Message /\ msg[w].kind = "resp"
    BY DEF AcceptHandoff, Inv, LocalInv, LoopInv
  <2>2. target \in Handoff
    BY <2>1 DEF AcceptHandoff, Message
  <2> QED
    BY <2>2, ConstantsAssumption DEF AcceptHandoff, Inv, SharedOK, Name
<1>3. s \in State /\ s.loop <= s.max
  <2>1. [Answered(w).pending EXCEPT ![target] = nextTask] \in Pending
    BY <1>1, <1>2, ConstantsAssumption DEF State, Pending
  <2>2. s = [Answered(w) EXCEPT !.pending = [Answered(w).pending EXCEPT ![target] = nextTask]]
    BY <1>1 DEF State
  <2> QED
    BY <1>1, <2>1, <2>2 DEF State
<1>4. q \in Seq(Task) /\ q # <<>>
  BY <1>1, <1>2 DEF Task, State
<1>5. "save" \in Place \ {"idle"} /\ "save" \in Working
  BY DEF Place, PlaceInSection, Working
<1>6. /\ pc' = [pc EXCEPT ![w] = "save"] /\ st' = [st EXCEPT ![w] = s]
      /\ todo' = [todo EXCEPT ![w] = q]
  BY DEF AcceptHandoff, Go
<1> HIDE DEF s, q
<1>7. LocalInv'
  <2>1. /\ verdict' = [verdict EXCEPT ![w] = verdict[w]] /\ verdict[w] \in {"ack", "nak", None}
        /\ pc[w] # "idle" /\ UNCHANGED msg
    BY DEF AcceptHandoff, Inv, LocalInv, LocalOK
  <2> QED
    BY <1>3, <1>4, <1>5, <1>6, <2>1, MoveLocal DEF Inv
<1>8. nextTask' \in 1..MaxTasks + 1
  BY <1>2, ConstantsAssumption DEF AcceptHandoff
<1> QED
  BY <1>7, <1>8 DEF AcceptHandoff, Inv, SharedOK, StoreInv, redis, history

LEMMA SaveFanInInv ==
  ASSUME Inv, NEW w \in Loop, SaveFanIn(w)
  PROVE  Inv'
<1>1. LocalInv'
  BY ReturnLocal DEF SaveFanIn, Inv
<1>2. st[w] \in State /\ st[w].loop <= st[w].max
  BY DEF SaveFanIn, Inv, LocalInv, LoopInv, Working
<1> QED
  BY <1>1, <1>2 DEF SaveFanIn, Inv, SharedOK, StoreInv, history

\* The copy of the state that a turn works on, with its loop counted.
LEMMA NextLoopTyped ==
  ASSUME Inv, NEW w \in Loop, pc[w] = "turn"
  PROVE  /\ st[w] \in State /\ NextLoop(w) \in State
         /\ NextLoop(w).orig = st[w].orig
         /\ ~LoopsExhausted(w) => NextLoop(w).loop <= NextLoop(w).max
<1>1. st[w] \in State
  BY DEF Inv, LocalInv, LoopInv, Working
<1> QED
  BY <1>1 DEF NextLoop, LoopsExhausted, State

LEMMA FinalizeInv ==
  ASSUME Inv, NEW w \in Loop, Finalize(w)
  PROVE  Inv'
<1>1. NextLoop(w) \in State
  BY NextLoopTyped DEF Finalize
<1>2. "clear" \in Place \ {"idle"} /\ "clear" \in Working
  BY DEF Place, PlaceInSection, Working
<1>3. LocalInv'
  <2>1. /\ todo' = [todo EXCEPT ![w] = todo[w]] /\ todo[w] \in Seq(Task)
        /\ verdict' = [verdict EXCEPT ![w] = verdict[w]] /\ verdict[w] \in {"ack", "nak", None}
        /\ pc[w] # "idle" /\ UNCHANGED msg
    BY DEF Finalize, Inv, LocalInv, LocalOK
  <2>2. pc' = [pc EXCEPT ![w] = "clear"] /\ st' = [st EXCEPT ![w] = NextLoop(w)]
    BY DEF Finalize, Go
  <2> QED
    BY <1>1, <1>2, <2>1, <2>2, MoveLocal DEF Inv
<1> QED
  BY <1>3 DEF Finalize, Inv, SharedOK, StoreInv, redis, history

LEMMA NotEmpty ==
  ASSUME NEW S, NEW q \in Seq(S), Len(q) > 0
  PROVE  q # <<>>
OBVIOUS

LEMMA TailNotEmpty ==
  ASSUME NEW S, NEW q \in Seq(S), Len(q) > 1
  PROVE  Tail(q) # <<>>
<1> DEFINE r == Tail(q)
<1>1. r \in Seq(S) /\ Len(r) > 0
  <2>1. Len(q) \in Nat /\ q # <<>>
    OBVIOUS
  <2>2. Tail(q) \in Seq(S) /\ Len(Tail(q)) = Len(q) - 1
    BY <2>1
  <2> QED
    BY <2>1, <2>2
<1> HIDE DEF r
<1>2. r # <<>>
  BY <1>1, NotEmpty
<1> QED
  BY <1>2 DEF r

LEMMA DelegateInv ==
  ASSUME Inv, NEW w \in Loop, Delegate(w)
  PROVE  Inv'
<1> PICK list \in Delegations : DelegateTo(w, list)
  BY DEF Delegate
<1> DEFINE s == [NextLoop(w) EXCEPT !.status = "waiting_spoke", !.pending = PendingOf(list)]
           q == [k \in DOMAIN list |-> TaskOf(list, k, st[w].orig)]
<1>1. st[w] \in State /\ NextLoop(w) \in State /\ NextLoop(w).loop <= NextLoop(w).max
  BY NextLoopTyped DEF Delegate
<1>2. PendingOf(list) \in Pending
  BY PendingTyped DEF DelegateTo, Inv
<1>3. s \in State /\ s.loop <= s.max
  BY <1>1, <1>2 DEF State
<1>4. /\ list \in Seq(Spoke \cup Ghost) /\ list # <<>>
      /\ Len(list) \in Nat /\ Len(list) > 0 /\ DOMAIN list = 1..Len(list)
  BY ConstantsAssumption
<1>5. /\ nextTask \in 1..MaxTasks + 1 /\ nextTask + Len(list) - 1 <= MaxTasks
      /\ nextTask' = nextTask + Len(list)
  BY DEF DelegateTo, Inv, SharedOK
<1>6. q \in Seq(Task) /\ q # <<>>
  <2>1. ASSUME NEW k \in 1..Len(list) PROVE TaskOf(list, k, st[w].orig) \in Task
    <3>1. list[k] \in Name
      BY <1>4 DEF Name
    <3>2. nextTask + k - 1 \in 1..MaxTasks
      BY <1>4, <1>5, ConstantsAssumption
    <3> QED
      BY <1>1, <3>1, <3>2 DEF TaskOf, Task, State
  <2>2. q \in [1..Len(list) -> Task]
    BY <1>4, <2>1
  <2>3. q \in Seq(Task) /\ Len(q) = Len(list)
    BY <1>4, <2>2
  <2> HIDE DEF q
  <2> QED
    BY <1>4, <2>3, NotEmpty
<1>7. "save" \in Place \ {"idle"} /\ "save" \in Working
  BY DEF Place, PlaceInSection, Working
<1>8. /\ pc' = [pc EXCEPT ![w] = "save"] /\ st' = [st EXCEPT ![w] = s]
      /\ todo' = [todo EXCEPT ![w] = q]
  BY DEF DelegateTo, Go
<1> HIDE DEF s, q
<1>9. LocalInv'
  <2>1. /\ verdict' = [verdict EXCEPT ![w] = verdict[w]] /\ verdict[w] \in {"ack", "nak", None}
        /\ pc[w] # "idle" /\ UNCHANGED msg
    BY DEF Delegate, DelegateTo, Inv, LocalInv, LocalOK
  <2> QED
    BY <1>3, <1>6, <1>7, <1>8, <2>1, MoveLocal DEF Inv
<1>10. nextTask' \in 1..MaxTasks + 1
  BY <1>4, <1>5, ConstantsAssumption
<1> QED
  BY <1>9, <1>10 DEF DelegateTo, Inv, SharedOK, StoreInv, redis, history

LEMMA BrainFailsInv ==
  ASSUME Inv, NEW w \in Loop, BrainFails(w)
  PROVE  Inv'
<1>1. LocalInv'
  BY ReturnLocal DEF BrainFails, Inv
<1>2. faults' \in 0..MaxFaults
  BY FaultTyped DEF BrainFails, Inv
<1> QED
  BY <1>1, <1>2 DEF BrainFails, Inv, SharedOK, StoreInv, redis, history

LEMMA SaveWaitingInv ==
  ASSUME Inv, NEW w \in Loop, SaveWaiting(w)
  PROVE  Inv'
<1>1. st[w] \in State /\ st[w].loop <= st[w].max
  BY DEF SaveWaiting, Inv, LocalInv, LoopInv, Working
<1>2. LocalInv'
  BY DEF SaveWaiting, Go, Inv, LocalInv, LocalOK, LoopInv, Place, PlaceInSection, Working
<1> QED
  BY <1>1, <1>2 DEF SaveWaiting, Inv, SharedOK, StoreInv, history

\* The next task to publish.
LEMMA HeadTyped ==
  ASSUME Inv, NEW w \in Loop, pc[w] = "publish"
  PROVE  Head(todo[w]) \in Task /\ Tail(todo[w]) \in Seq(Task) /\ Len(todo[w]) \in Nat
<1>1. todo[w] \in Seq(Task) /\ todo[w] # <<>>
  BY DEF Inv, LocalInv, LocalOK, LoopInv
<1> QED
  BY <1>1

LEMMA PublishInv ==
  ASSUME Inv, NEW w \in Loop, Publish(w)
  PROVE  Inv'
<1>1. tasks' \subseteq Task
  BY HeadTyped DEF Publish, Inv, SharedOK
<1>2. LocalInv'
  <2>1. CASE Return(w, "ack")
    BY <2>1, ReturnLocal DEF Publish, Inv
  <2>2. CASE /\ Len(todo[w]) > 1
             /\ todo' = [todo EXCEPT ![w] = Tail(@)]
             /\ UNCHANGED <<pc, st, verdict>>
    <3>1. Tail(todo[w]) # <<>>
      <4>1. todo[w] \in Seq(Task)
        BY DEF Inv, LocalInv, LocalOK
      <4> QED
        BY <4>1, <2>2, TailNotEmpty
    <3>2. Tail(todo[w]) \in Seq(Task)
      BY HeadTyped DEF Publish
    <3> QED
      BY <2>2, <3>1, <3>2 DEF Publish, Inv, LocalInv, LocalOK, LoopInv, Working
  <2> QED
    BY <2>1, <2>2 DEF Publish
<1> QED
  BY <1>1, <1>2 DEF Publish, Inv, SharedOK, StoreInv, redis, history

LEMMA PublishFailsInv ==
  ASSUME Inv, NEW w \in Loop, PublishFails(w)
  PROVE  Inv'
<1>1. LocalInv'
  BY ReturnLocal DEF PublishFails, Inv
<1>2. faults' \in 0..MaxFaults
  BY FaultTyped DEF PublishFails, Inv
<1>3. tasks' \subseteq Task /\ answers' \in [User -> Nat]
  BY HeadTyped DEF PublishFails, Inv, SharedOK
<1> QED
  BY <1>1, <1>2, <1>3 DEF PublishFails, Inv, SharedOK, StoreInv, redis

LEMMA ClearInv ==
  ASSUME Inv, NEW w \in Loop, Clear(w)
  PROVE  Inv'
<1>1. LocalInv'
  BY DEF Clear, Go, Inv, LocalInv, LocalOK, LoopInv, Place, PlaceInSection, Working
<1>2. faults' \in 0..MaxFaults
  BY FaultTyped DEF Clear, Inv
<1> QED
  BY <1>1, <1>2 DEF Clear, Inv, SharedOK, StoreInv, history

LEMMA PublishFinalInv ==
  ASSUME Inv, NEW w \in Loop, PublishFinal(w)
  PROVE  Inv'
<1>1. LocalInv'
  BY ReturnLocal DEF PublishFinal, Inv
<1>2. answers' \in [User -> Nat]
  <2>1. st[w].orig \in User
    BY DEF PublishFinal, Inv, LocalInv, LoopInv, Working, State
  <2>2. answers[st[w].orig] + 1 \in Nat
    BY <2>1 DEF Inv, SharedOK
  <2> QED
    BY <2>2 DEF PublishFinal, Inv, SharedOK
<1> QED
  BY <1>1, <1>2 DEF PublishFinal, Inv, SharedOK, StoreInv, redis

-----------------------------------------------------------------------------
(* Types and the loop limit: under every kind of failure, and even when the *)
(* work outlasts the lock.                                                  *)

LEMMA InitInv == Init => Inv
<1> SUFFICES ASSUME Init PROVE Inv
  OBVIOUS
<1>1. SharedOK /\ StoreInv
  BY ConstantsAssumption DEF Init, SharedOK, StoreInv
<1>2. <<>> \in Seq(Task) /\ "idle" \in Place /\ "idle" \notin Working
  BY DEF Place, Working
<1>3. LocalInv
  BY <1>2 DEF Init, LocalInv, LocalOK, LoopInv
<1> QED
  BY <1>1, <1>3 DEF Inv

LEMMA StutterInv == ASSUME Inv, UNCHANGED vars PROVE Inv'
BY LocalFrame DEF vars, redis, history, Inv, SharedOK, StoreInv

LEMMA HandleInv ==
  ASSUME Inv, NEW w \in Loop, Handle(w)
  PROVE  Inv'
BY AcquireLockInv, LockFailsInv, InitFlowInv, RedisFailsInv, SaveReplyLostInv,
   IgnoreResponseInv, AcceptResponseInv, AcceptHandoffInv, SaveFanInInv, FinalizeInv,
   DelegateInv, BrainFailsInv, SaveWaitingInv, PublishInv, PublishFailsInv, ClearInv,
   PublishFinalInv, UnlockInv
   DEF Handle

LEMMA NextInv == Inv /\ [Next]_vars => Inv'
<1> SUFFICES ASSUME Inv, [Next]_vars PROVE Inv'
  OBVIOUS
<1>1. CASE UNCHANGED vars
  BY <1>1, StutterInv
<1>2. CASE \E u \in User : UserSends(u)
  BY <1>2, UserSendsInv
<1>3. CASE \E t \in tasks : SpokeAnswers(t) \/ SpokeFails(t)
  BY <1>3, SpokeInv
<1>4. CASE LockExpires
  BY <1>4, LockExpiresInv
<1>5. CASE FetchTimeout
  BY <1>5, StutterInv DEF FetchTimeout
<1>6. ASSUME NEW w \in Loop,
             Fetch(w) \/ DeadLetter(w) \/ AckWaitExpires(w) \/ Settle(w) \/ Crash(w)
                \/ Handle(w)
      PROVE  Inv'
  BY <1>6, FetchInv, DeadLetterInv, AckWaitExpiresInv, SettleInv, HandleInv
<1> QED
  BY <1>1, <1>2, <1>3, <1>4, <1>5, <1>6 DEF Next

\* The invariant holds in every reachable state.
THEOREM Invariance == Spec => []Inv
BY InitInv, NextInv, PTL DEF Spec

\* Type correctness of the hub's state, its messages and its handlers.
THEOREM TypeCorrect == Spec => []TypeOK
<1>1. Inv => TypeOK
  BY DEF Inv, LocalInv, SharedOK, LocalOK, TypeOK
<1> QED
  BY <1>1, Invariance, PTL

\* No saved or working state exceeds the loop limit of its flow.
THEOREM LoopIsBounded == Spec => []LoopBounded
<1>1. Inv => LoopBounded
  BY DEF Inv, StoreInv, LocalInv, LocalOK, LoopInv, LoopBounded, Working
<1> QED
  BY <1>1, Invariance, PTL

-----------------------------------------------------------------------------
(* The critical section, when the work fits in the lock's time to live.    *)

SectionInv == \A w \in Loop : InSection(w) => lock = w

\* Every copy of the state belongs to the latest flow.
FlowInv ==
  /\ store # None => store.orig = current
  /\ \A w \in Loop : pc[w] \in Working => st[w].orig = current

\* A step of the handler inside its section, on the way in, or on the way out.
LEMMA InsideSection ==
  ASSUME SectionInv, LocalOK, NEW w \in Loop, InSection(w), NEW p \in Place, Go(w, p),
         UNCHANGED lock
  PROVE  SectionInv'
BY DEF SectionInv, InSection, LocalOK, Go

LEMMA LeaveSection ==
  ASSUME SectionInv, LocalOK, NEW w \in Loop, NEW p \in Place \ PlaceInSection, Go(w, p),
         \/ UNCHANGED lock
         \/ lock' = IF lock = w THEN None ELSE lock
         \/ lock = None
  PROVE  SectionInv'
BY ConstantsAssumption DEF SectionInv, InSection, LocalOK, Go

LEMMA SectionPlaces ==
  /\ PlaceInSection \subseteq Place /\ Working \subseteq PlaceInSection
  /\ "init" \in PlaceInSection /\ "load" \in PlaceInSection /\ "unlock" \in PlaceInSection
  /\ "idle" \in Place \ PlaceInSection /\ "lock" \in Place \ PlaceInSection
  /\ "ack" \in Place \ PlaceInSection
  /\ "init" \notin Working /\ "load" \notin Working /\ "unlock" \notin Working
BY DEF Place, PlaceInSection, Working

LEMMA HandleSection ==
  ASSUME Inv, SectionInv, NEW w \in Loop, Handle(w)
  PROVE  SectionInv'
<1>0. LocalOK
  BY DEF Inv, LocalInv
<1>1. CASE AcquireLock(w)
  BY <1>0, <1>1, ConstantsAssumption DEF AcquireLock, SectionInv, InSection, LocalOK, Go
<1>2. CASE LockFails(w) \/ Unlock(w)
  <2>1. Go(w, "ack")
    BY <1>2 DEF LockFails, Unlock
  <2>2. \/ UNCHANGED lock
        \/ lock' = IF lock = w THEN None ELSE lock
        \/ lock = None
    BY <1>2 DEF LockFails, Unlock
  <2> QED
    BY <1>0, <2>1, <2>2, LeaveSection, SectionPlaces
<1>3. CASE \/ RedisFails(w) \/ SaveReplyLost(w) \/ IgnoreResponse(w) \/ SaveFanIn(w)
           \/ BrainFails(w) \/ PublishFails(w) \/ PublishFinal(w)
  <2>1. InSection(w) /\ UNCHANGED lock
    BY <1>3 DEF RedisFails, SaveReplyLost, IgnoreResponse, SaveFanIn, BrainFails, PublishFails,
                PublishFinal, redis, InSection, PlaceInSection
  <2>2. Go(w, "unlock")
    BY <1>3 DEF RedisFails, SaveReplyLost, IgnoreResponse, SaveFanIn, BrainFails, PublishFails,
                PublishFinal, Return
  <2> QED
    BY <1>0, <2>1, <2>2, InsideSection, SectionPlaces
<1>4. CASE \/ InitFlow(w) \/ AcceptResponse(w) \/ AcceptHandoff(w) \/ Finalize(w)
           \/ Delegate(w) \/ SaveWaiting(w) \/ Clear(w)
  <2>1. InSection(w) /\ UNCHANGED lock
    BY <1>4 DEF InitFlow, AcceptResponse, AcceptHandoff, Finalize, Delegate, DelegateTo,
                SaveWaiting, Clear, redis, InSection, PlaceInSection
  <2>2. \E p \in PlaceInSection : Go(w, p)
    <3>1. InitFlow(w) => Go(w, "turn")
      BY DEF InitFlow
    <3>2. AcceptResponse(w) => Go(w, "turn") \/ Go(w, "fanin")
      BY DEF AcceptResponse, Go
    <3>3. AcceptHandoff(w) \/ Delegate(w) => Go(w, "save")
      BY DEF AcceptHandoff, Delegate, DelegateTo
    <3>4. Finalize(w) => Go(w, "clear")
      BY DEF Finalize
    <3>5. SaveWaiting(w) => Go(w, "publish")
      BY DEF SaveWaiting
    <3>6. Clear(w) => Go(w, "final")
      BY DEF Clear
    <3> QED
      BY <1>4, <3>1, <3>2, <3>3, <3>4, <3>5, <3>6, SectionPlaces DEF Working
  <2> QED
    BY <1>0, <2>1, <2>2, InsideSection, SectionPlaces
<1>5. CASE Publish(w)
  <2>1. InSection(w) /\ UNCHANGED lock
    BY <1>5 DEF Publish, redis, InSection, PlaceInSection
  <2>2. UNCHANGED pc \/ Go(w, "unlock")
    BY <1>5 DEF Publish, Return
  <2>3. CASE UNCHANGED pc
    BY <2>1, <2>3 DEF SectionInv, InSection
  <2> QED
    BY <1>0, <2>1, <2>2, <2>3, InsideSection, SectionPlaces
<1> QED
  BY <1>1, <1>2, <1>3, <1>4, <1>5 DEF Handle

LEMMA SectionNext ==
  ASSUME ~Overrun
  PROVE  Inv /\ SectionInv /\ [Next]_vars => SectionInv'
<1> SUFFICES ASSUME Inv, SectionInv, [Next]_vars PROVE SectionInv'
  OBVIOUS
<1>0. LocalOK
  BY DEF Inv, LocalInv
<1>1. CASE \/ UNCHANGED vars \/ FetchTimeout
           \/ \E u \in User : UserSends(u)
           \/ \E t \in tasks : SpokeAnswers(t) \/ SpokeFails(t)
           \/ \E w \in Loop : DeadLetter(w) \/ AckWaitExpires(w)
  <2>1. UNCHANGED <<lock, pc>>
    BY <1>1 DEF vars, redis, local, FetchTimeout, UserSends, SpokeAnswers, SpokeFails,
                DeadLetter, AckWaitExpires
  <2> QED
    BY <2>1 DEF SectionInv, InSection
<1>2. CASE LockExpires
  <2>1. lock # None /\ ~InSection(lock) /\ UNCHANGED pc
    BY <1>2 DEF LockExpires, local
  <2> QED
    BY <2>1 DEF SectionInv, InSection
<1>3. ASSUME NEW w \in Loop, Fetch(w) \/ Settle(w) \/ Crash(w) PROVE SectionInv'
  <2>1. UNCHANGED lock /\ (Go(w, "lock") \/ Go(w, "idle"))
    BY <1>3 DEF Fetch, Settle, Crash, Forget, redis
  <2> QED
    BY <1>0, <2>1, LeaveSection, SectionPlaces
<1>4. ASSUME NEW w \in Loop, Handle(w) PROVE SectionInv'
  BY <1>4, HandleSection
<1> QED
  BY <1>1, <1>2, <1>3, <1>4 DEF Next

LEMMA SectionInvariance == ASSUME ~Overrun PROVE Spec => []SectionInv
<1>1. Init => SectionInv
  BY DEF Init, SectionInv, InSection, PlaceInSection
<1> QED
  BY <1>1, SectionNext, Invariance, PTL DEF Spec

\* When the work fits in the lock's TTL, only the holder of the thread lock
\* writes the orchestration state, whatever else fails.
THEOREM LockProtectsState == ASSUME ~Overrun PROVE Spec => OnlyLockHolderWrites
<1> DEFINE Written ==
      store' # store => \E w \in Loop : lock = w /\ InSection(w) /\ pc'[w] # pc[w]
<1>1. Inv /\ SectionInv /\ [Next]_vars => [Written]_vars
  <2> SUFFICES ASSUME Inv, SectionInv, Next, store' # store
               PROVE  \E w \in Loop : lock = w /\ InSection(w) /\ pc'[w] # pc[w]
    OBVIOUS
  <2>1. PICK w \in Loop : InitFlow(w) \/ SaveReplyLost(w) \/ SaveFanIn(w) \/ SaveWaiting(w)
                           \/ Clear(w)
    <3>1. PICK w \in Loop : Fetch(w) \/ DeadLetter(w) \/ AckWaitExpires(w) \/ Settle(w) \/ Crash(w)
                             \/ Handle(w)
      <4>1. ~(LockExpires \/ FetchTimeout) /\ \A u \in User : ~UserSends(u)
        BY DEF vars, redis, LockExpires, FetchTimeout, UserSends
      <4>2. \A t \in tasks : ~(SpokeAnswers(t) \/ SpokeFails(t))
        BY DEF redis, SpokeAnswers, SpokeFails
      <4> QED
        BY <4>1, <4>2 DEF Next
    <3>2. Handle(w)
      BY <3>1 DEF redis, Fetch, DeadLetter, AckWaitExpires, Settle, Crash
    <3>3. ~(AcquireLock(w) \/ LockFails(w) \/ RedisFails(w) \/ IgnoreResponse(w) \/ AcceptResponse(w))
      BY DEF redis, AcquireLock, LockFails, RedisFails, IgnoreResponse, AcceptResponse
    <3>4. ~(AcceptHandoff(w) \/ Finalize(w) \/ Delegate(w) \/ BrainFails(w))
      BY DEF redis, AcceptHandoff, Finalize, Delegate, DelegateTo, BrainFails
    <3>5. ~(Publish(w) \/ PublishFails(w) \/ PublishFinal(w) \/ Unlock(w))
      BY DEF redis, Publish, PublishFails, PublishFinal, Unlock
    <3> QED
      BY <3>2, <3>3, <3>4, <3>5 DEF Handle
  <2>2. InSection(w)
    BY <2>1 DEF InitFlow, SaveReplyLost, SaveFanIn, SaveWaiting, Clear, InSection, PlaceInSection
  <2>3. pc'[w] # pc[w]
    BY <2>1 DEF InitFlow, SaveReplyLost, SaveFanIn, SaveWaiting, Clear, Return, Go,
                Inv, LocalInv, LocalOK
  <2> QED
    BY <2>2, <2>3 DEF SectionInv
<1> QED
  BY <1>1, Invariance, SectionInvariance, PTL DEF Spec, OnlyLockHolderWrites

-----------------------------------------------------------------------------
(* The saved state belongs to the latest flow.                             *)

\* A loop inside its section is alone there.
LEMMA AloneInside ==
  ASSUME SectionInv, NEW w \in Loop, InSection(w), NEW u \in Loop, pc[u] \in Working
  PROVE  u = w
BY DEF SectionInv, InSection, Working, PlaceInSection

\* A step of w that starts no flow: w's copy and the saved state stay with it.
LEMMA SameFlow ==
  ASSUME FlowInv, LocalOK, NEW w \in Loop, NEW p \in Place, NEW s, NEW c,
         pc' = [pc EXCEPT ![w] = p], st' = [st EXCEPT ![w] = s],
         p \in Working => s.orig = current,
         store' = c, c = store \/ c = None \/ c.orig = current,
         UNCHANGED current
  PROVE  FlowInv'
BY DEF FlowInv, LocalOK

\* A step of w that starts the flow of its message.
LEMMA NewFlow ==
  ASSUME SectionInv, LocalOK, NEW w \in Loop, InSection(w), NEW p \in Place, NEW s,
         pc' = [pc EXCEPT ![w] = p], st' = [st EXCEPT ![w] = s],
         p \in Working => s.orig = current',
         store'.orig = current'
  PROVE  FlowInv'
<1>1. ASSUME NEW u \in Loop, pc'[u] \in Working PROVE st'[u].orig = current'
  <2>1. CASE u = w
    BY <2>1, <1>1 DEF LocalOK
  <2>2. CASE u # w
    <3>1. pc[u] \in Working
      BY <1>1, <2>2 DEF LocalOK
    <3> QED
      BY <2>2, <3>1, AloneInside
  <2> QED
    BY <2>1, <2>2
<1> QED
  BY <1>1 DEF FlowInv

\* Steps that touch neither the states, nor who works on them.
LEMMA FlowFrame == ASSUME FlowInv, UNCHANGED <<pc, st, store, current>> PROVE FlowInv'
BY DEF FlowInv

LEMMA LeavesFlow ==
  ASSUME FlowInv, LocalOK, NEW w \in Loop, NEW p \in Place \ Working, NEW c,
         pc' = [pc EXCEPT ![w] = p],
         UNCHANGED st \/ st' = [st EXCEPT ![w] = None],
         store' = c, c = store \/ c.orig = current,
         UNCHANGED current
  PROVE  FlowInv'
<1>1. PICK s : st' = [st EXCEPT ![w] = s]
  BY DEF LocalOK
<1> QED
  BY <1>1, SameFlow

LEMMA HandleFlow ==
  ASSUME Inv, SectionInv, FlowInv, NEW w \in Loop, Handle(w)
  PROVE  FlowInv'
<1>0. LocalOK
  BY DEF Inv, LocalInv
<1>1. CASE AcquireLock(w) \/ LockFails(w) \/ Unlock(w)
  <2>1. PICK p \in Place \ Working : Go(w, p)
    BY <1>1, SectionPlaces DEF AcquireLock, LockFails, Unlock, Working, Place, PlaceInSection
  <2>2. UNCHANGED <<st, store, current>>
    BY <1>1 DEF AcquireLock, LockFails, Unlock, history
  <2> QED
    BY <1>0, <2>1, <2>2, LeavesFlow DEF Go
<1>2. CASE \/ RedisFails(w) \/ IgnoreResponse(w) \/ BrainFails(w) \/ PublishFails(w)
           \/ PublishFinal(w) \/ SaveFanIn(w) \/ (SaveReplyLost(w) /\ pc[w] # "init")
  <2>1. pc' = [pc EXCEPT ![w] = "unlock"] /\ st' = [st EXCEPT ![w] = None] /\ UNCHANGED current
    BY <1>2 DEF RedisFails, IgnoreResponse, BrainFails, PublishFails, PublishFinal, SaveFanIn,
                SaveReplyLost, Return, Go, history
  <2>2. store' = store \/ store'.orig = current
    BY <1>2 DEF RedisFails, IgnoreResponse, BrainFails, PublishFails, PublishFinal, SaveFanIn,
                SaveReplyLost, redis, FlowInv, Working
  <2> QED
    BY <1>0, <2>1, <2>2, LeavesFlow, SectionPlaces
<1>3. CASE InitFlow(w)
  <2>1. PICK cards \in {Cards, {}} :
          store' = InitState(w, cards) /\ st' = [st EXCEPT ![w] = InitState(w, cards)]
    BY <1>3 DEF InitFlow
  <2>2. /\ InSection(w) /\ InitState(w, cards).orig = msg[w].id
        /\ current' = msg[w].id /\ pc' = [pc EXCEPT ![w] = "turn"] /\ "turn" \in Place
    BY <1>3, InitStateTyped DEF InitFlow, InSection, PlaceInSection, Place, Go
  <2> QED
    BY <1>0, <2>1, <2>2, NewFlow
<1>4. CASE SaveReplyLost(w) /\ pc[w] = "init"
  <2>1. /\ InSection(w) /\ store'.orig = current'
        /\ pc' = [pc EXCEPT ![w] = "unlock"] /\ st' = [st EXCEPT ![w] = None]
    BY <1>4, InitStateTyped DEF SaveReplyLost, InSection, PlaceInSection, Return, Go
  <2> QED
    BY <1>0, <2>1, NewFlow, SectionPlaces
<1>5. CASE AcceptResponse(w)
  <2>1. st' = [st EXCEPT ![w] = Answered(w)] /\ Answered(w).orig = current /\ UNCHANGED <<store, current>>
    BY <1>5, AnsweredTyped DEF AcceptResponse, FlowInv, Awaited, redis, history
  <2>2. PICK p \in Place : pc' = [pc EXCEPT ![w] = p]
    BY <1>5 DEF AcceptResponse, Go, Place, PlaceInSection
  <2> QED
    BY <1>0, <2>1, <2>2, SameFlow
<1>6. CASE AcceptHandoff(w)
  <2> DEFINE s == [Answered(w) EXCEPT !.pending[msg[w].handoff] = nextTask]
  <2>1. Answered(w) \in State /\ Answered(w).orig = store.orig
    BY <1>6, AnsweredTyped DEF AcceptHandoff
  <2>2. s.orig = Answered(w).orig
    BY <2>1 DEF State
  <2>3. s.orig = current
    BY <1>6, <2>1, <2>2 DEF AcceptHandoff, Awaited, FlowInv
  <2> HIDE DEF s
  <2>4. st' = [st EXCEPT ![w] = s] /\ UNCHANGED <<store, current>>
    BY <1>6 DEF AcceptHandoff, redis, history, s
  <2>5. "save" \in Place /\ pc' = [pc EXCEPT ![w] = "save"]
    BY <1>6 DEF AcceptHandoff, Go, Place, PlaceInSection
  <2> QED
    BY <1>0, <2>3, <2>4, <2>5, SameFlow
<1>7. CASE Finalize(w)
  <2>1. st[w] \in State /\ st[w].orig = current
    BY <1>7 DEF Finalize, Inv, LocalInv, LoopInv, FlowInv, Working
  <2>2. NextLoop(w).orig = current
    BY <2>1 DEF NextLoop, State
  <2>3. /\ st' = [st EXCEPT ![w] = NextLoop(w)] /\ UNCHANGED <<store, current>>
        /\ "clear" \in Place /\ pc' = [pc EXCEPT ![w] = "clear"]
    BY <1>7 DEF Finalize, Go, redis, history, Place, PlaceInSection
  <2> QED
    BY <1>0, <2>2, <2>3, SameFlow
<1>8. CASE Delegate(w)
  <2>1. PICK list \in Delegations : DelegateTo(w, list)
    BY <1>8 DEF Delegate
  <2> DEFINE s == [NextLoop(w) EXCEPT !.status = "waiting_spoke", !.pending = PendingOf(list)]
  <2>2. st[w] \in State /\ st[w].orig = current
    BY <1>8 DEF Delegate, Inv, LocalInv, LoopInv, FlowInv, Working
  <2>3. s.orig = current
    BY <2>2 DEF NextLoop, State
  <2> HIDE DEF s
  <2>4. st' = [st EXCEPT ![w] = s] /\ UNCHANGED <<store, current>>
    BY <2>1 DEF DelegateTo, redis, history, s
  <2>5. "save" \in Place /\ pc' = [pc EXCEPT ![w] = "save"]
    BY <2>1 DEF DelegateTo, Go, Place, PlaceInSection
  <2> QED
    BY <1>0, <2>3, <2>4, <2>5, SameFlow
<1>9. CASE SaveWaiting(w) \/ Clear(w)
  <2>1. st[w].orig = current
    BY <1>9 DEF SaveWaiting, Clear, FlowInv, Working
  <2>2. /\ st' = [st EXCEPT ![w] = st[w]] /\ UNCHANGED current
        /\ store' = store \/ store' = None \/ store' = st[w]
    BY <1>0, <1>9 DEF SaveWaiting, Clear, history, LocalOK
  <2>3. PICK p \in Place : pc' = [pc EXCEPT ![w] = p]
    BY <1>9 DEF SaveWaiting, Clear, Go, Place, PlaceInSection
  <2> QED
    BY <1>0, <2>1, <2>2, <2>3, SameFlow
<1>10. CASE Publish(w)
  <2>1. UNCHANGED <<store, current>>
    BY <1>10 DEF Publish, redis, history
  <2>2. CASE Return(w, "ack")
    BY <1>0, <2>1, <2>2, LeavesFlow, SectionPlaces DEF Return, Go
  <2>3. CASE UNCHANGED <<pc, st>>
    BY <2>1, <2>3, FlowFrame
  <2> QED
    BY <1>10, <2>2, <2>3 DEF Publish
<1> QED
  BY <1>1, <1>2, <1>3, <1>4, <1>5, <1>6, <1>7, <1>8, <1>9, <1>10 DEF Handle

LEMMA FlowNext == Inv /\ SectionInv /\ FlowInv /\ [Next]_vars => FlowInv'
<1> SUFFICES ASSUME Inv, SectionInv, FlowInv, [Next]_vars PROVE FlowInv'
  OBVIOUS
<1>0. LocalOK
  BY DEF Inv, LocalInv
<1>1. CASE \/ UNCHANGED vars \/ FetchTimeout \/ LockExpires
           \/ \E u \in User : UserSends(u)
           \/ \E t \in tasks : SpokeAnswers(t) \/ SpokeFails(t)
           \/ \E w \in Loop : DeadLetter(w) \/ AckWaitExpires(w)
  <2>1. UNCHANGED <<pc, st, store, current>>
    BY <1>1 DEF vars, redis, history, local, FetchTimeout, LockExpires, UserSends,
                SpokeAnswers, SpokeFails, DeadLetter, AckWaitExpires
  <2> QED
    BY <2>1, FlowFrame
<1>2. ASSUME NEW w \in Loop, Fetch(w) \/ Settle(w) \/ Crash(w) PROVE FlowInv'
  <2>1. PICK p \in {"lock", "idle"} : pc' = [pc EXCEPT ![w] = p]
    BY <1>2 DEF Fetch, Settle, Crash, Forget, Go
  <2>2. /\ UNCHANGED st \/ st' = [st EXCEPT ![w] = None]
        /\ UNCHANGED <<store, current>>
    BY <1>2 DEF Fetch, Settle, Crash, Forget, redis, history
  <2>3. p \in Place \ Working
    BY DEF Place, Working
  <2> QED
    BY <1>0, <2>1, <2>2, <2>3, LeavesFlow
<1>3. ASSUME NEW w \in Loop, Handle(w) PROVE FlowInv'
  BY <1>3, HandleFlow
<1> QED
  BY <1>1, <1>2, <1>3 DEF Next

LEMMA FlowInvariance == ASSUME ~Overrun PROVE Spec => []FlowInv
<1>1. Init => FlowInv
  BY DEF Init, FlowInv, Working
<1> QED
  BY <1>1, FlowNext, Invariance, SectionInvariance, PTL DEF Spec

\* When the work fits in the lock's TTL, the saved state belongs to the latest
\* user message the hub took up, whatever fails: no handler writes back a state
\* it read in an older flow.
THEOREM FlowIsNotOverwritten == ASSUME ~Overrun PROVE Spec => []FlowNotOverwritten
<1>1. FlowInv => FlowNotOverwritten
  BY DEF FlowInv, FlowNotOverwritten
<1> QED
  BY <1>1, FlowInvariance, PTL

-----------------------------------------------------------------------------
(* The saved state implements ScatterGather.                               *)

\* The agents a state waits for.
Awaiting(s) == {x \in Name : s.pending[x] # 0}

OneAwaited(s) == \E a \in Name : Awaiting(s) \subseteq {a}

SameRun(s, t) == s.orig = t.orig /\ s.max = t.max

\* How the handler's copy relates to the saved state it was made from.
Heard(s, t) ==
  /\ SameRun(s, t) /\ s.loop = t.loop
  /\ \E a \in Name : a \in Awaiting(t) /\ Awaiting(s) = Awaiting(t) \ {a} /\ Awaiting(s) # {}

HandedOff(s, t) ==
  /\ SameRun(s, t) /\ s.loop = t.loop
  /\ \E a, b \in Name : a \in Awaiting(t) /\ Awaiting(s) = (Awaiting(t) \ {a}) \cup {b}

Asked(s, t) ==
  /\ SameRun(s, t) /\ s.loop = t.loop + 1 /\ s.loop <= s.max
  /\ OneAwaited(t) /\ Awaiting(s) # {}

Copied(w) ==
  /\ pc[w] \in {"fanin", "turn", "save", "clear"} => store # None
  /\ pc[w] = "fanin" => Heard(st[w], store)
  /\ pc[w] = "turn" => SameRun(st[w], store) /\ st[w].loop = store.loop /\ OneAwaited(store)
  /\ pc[w] = "save" => HandedOff(st[w], store) \/ Asked(st[w], store)
  /\ pc[w] = "clear" => OneAwaited(store)

CopyInv == \A w \in Loop : Copied(w)

-----------------------------------------------------------------------------
(* Changes of the saved state as steps of ScatterGather.                   *)

LEMMA BeginStep ==
  ASSUME store' \in State, store'.pending = NothingPending, store'.loop = 0,
         store'.max \in Nat \ {0}
  PROVE  Join!Next
<1>1. store' # None
  BY NoneAssumption
<1>2. PICK f \in User : f = store'.orig
  BY DEF State
<1>3. Join!Begin(f)
  BY <1>1, <1>2 DEF Join!Begin, Saved, NothingPending
<1> QED
  BY <1>3 DEF Join!Next

LEMMA SameStep == ASSUME store' = store PROVE UNCHANGED Join!vars
BY DEF Join!vars, Saved

\* The shared part of the other steps: both states are there, of the same run.
LEMMA HearStep ==
  ASSUME store \in State, store' \in State, Heard(store', store)
  PROVE  Join!Next
<1>1. store # None /\ store' # None
  BY NoneAssumption
<1>2. PICK a \in Name : /\ a \in Awaiting(store) /\ Awaiting(store)' = Awaiting(store) \ {a}
                       /\ Awaiting(store)' # {}
  BY DEF Heard, Awaiting
<1>3. Join!Hear(a)
  BY <1>1, <1>2 DEF Join!Hear, Saved, Awaiting, Heard, SameRun
<1> QED
  BY <1>3 DEF Join!Next

LEMMA HandOffStep ==
  ASSUME store \in State, store' \in State, HandedOff(store', store)
  PROVE  Join!Next
<1>1. store # None /\ store' # None
  BY NoneAssumption
<1>2. PICK a \in Name, b \in Name :
        a \in Awaiting(store) /\ Awaiting(store)' = (Awaiting(store) \ {a}) \cup {b}
  BY DEF HandedOff, Awaiting
<1>3. Join!HandOff(a, b)
  BY <1>1, <1>2 DEF Join!HandOff, Saved, Awaiting, HandedOff, SameRun
<1> QED
  BY <1>3 DEF Join!Next

LEMMA RoundStep ==
  ASSUME store \in State, store' \in State, Asked(store', store)
  PROVE  Join!Next
<1>1. store # None /\ store' # None /\ store.orig # None
  BY NoneAssumption, ConstantsAssumption DEF State
<1>2. PICK asked \in SUBSET Name : asked = Awaiting(store)'
  BY DEF Awaiting
<1>3. Join!Gathered
  BY <1>1 DEF Join!Gathered, Asked, OneAwaited, Awaiting
<1>4. store.loop < store.max /\ store'.loop = store.loop + 1 /\ store'.max = store.max
  BY DEF Asked, SameRun, State
<1>5. Join!NextRound(asked)
  BY <1>1, <1>2, <1>3, <1>4 DEF Join!NextRound, Saved, Awaiting, Asked, SameRun
<1> QED
  BY <1>5 DEF Join!Next

LEMMA EndStep ==
  ASSUME store \in State, OneAwaited(store), store' = None
  PROVE  Join!Next
<1>1. store # None /\ store.orig # None
  BY NoneAssumption, ConstantsAssumption DEF State
<1>2. Join!Gathered
  BY <1>1 DEF Join!Gathered, OneAwaited, Awaiting
<1>3. Join!End
  BY <1>1, <1>2 DEF Join!End, Saved
<1> QED
  BY <1>3 DEF Join!Next

-----------------------------------------------------------------------------
(* The copies, while only the holder of the lock touches the saved state.  *)

\* A step of a handler inside its section says nothing of the others.
LEMMA CopyMoves ==
  ASSUME Inv, SectionInv, CopyInv, NEW w \in Loop, InSection(w), NEW p \in Place, Go(w, p),
         NEW s, st' = [st EXCEPT ![w] = s], Copied(w)'
  PROVE  CopyInv'
<1>1. ASSUME NEW u \in Loop, u # w PROVE Copied(u)'
  <2>1. ~InSection(u)
    BY <1>1 DEF SectionInv
  <2>2. pc'[u] = pc[u] /\ pc[u] \notin {"fanin", "turn", "save", "clear"}
    BY <1>1, <2>1 DEF Go, InSection, PlaceInSection, Inv, LocalInv, LocalOK
  <2> QED
    BY <2>2 DEF Copied
<1> QED
  BY <1>1 DEF CopyInv

\* A step to a place where the handler has no copy, or one that it needs no more.
LEMMA CopyLeaves ==
  ASSUME Inv, CopyInv, NEW w \in Loop, NEW p \in Place \ {"fanin", "turn", "save", "clear"},
         Go(w, p), UNCHANGED st \/ (\E s : st' = [st EXCEPT ![w] = s]),
         UNCHANGED store \/ (SectionInv /\ InSection(w))
  PROVE  CopyInv'
<1>1. Copied(w)'
  BY DEF Go, Copied, Inv, LocalInv, LocalOK
<1>2. ASSUME NEW u \in Loop, u # w PROVE Copied(u)'
  <2>1. pc'[u] = pc[u] /\ st'[u] = st[u]
    BY <1>2 DEF Go, Inv, LocalInv, LocalOK
  <2>2. CASE UNCHANGED store
    BY <2>1, <2>2 DEF CopyInv, Copied
  <2>3. CASE SectionInv /\ InSection(w)
    <3>1. ~InSection(u)
      BY <1>2, <2>3 DEF SectionInv
    <3> QED
      BY <2>1, <3>1 DEF Copied, InSection, PlaceInSection
  <2> QED
    BY <2>2, <2>3
<1> QED
  BY <1>1, <1>2 DEF CopyInv

-----------------------------------------------------------------------------
(* The handlers.                                                           *)

\* The state without the answering spoke waits for one agent less.
LEMMA AnsweredAwaiting ==
  ASSUME Inv, NEW w \in Loop, pc[w] = "load", Awaited(w)
  PROVE  /\ From(w) \in Awaiting(store)
         /\ Awaiting(Answered(w)) = Awaiting(store) \ {From(w)}
         /\ SameRun(Answered(w), store) /\ Answered(w).loop = store.loop
<1>1. store \in State /\ From(w) \in Name
  BY AnsweredTyped
<1>2. \A x \in Name : Answered(w).pending[x] = IF x = From(w) THEN 0 ELSE store.pending[x]
  BY <1>1 DEF Answered, State, Pending
<1>3. Awaiting(Answered(w)) = Awaiting(store) \ {From(w)}
  BY <1>2 DEF Awaiting
<1>4. From(w) \in Awaiting(store)
  BY <1>1 DEF Awaited, Awaiting
<1> QED
  BY <1>3, <1>4, AnsweredTyped DEF SameRun

LEMMA SomebodyAwaited ==
  ASSUME NEW s \in State
  PROVE  s.pending = NothingPending <=> Awaiting(s) = {}
<1>1. s.pending \in Pending
  BY DEF State
<1>2. ASSUME \A x \in Name : s.pending[x] = 0 PROVE s.pending = NothingPending
  BY <1>1, <1>2 DEF Pending, NothingPending
<1> QED
  BY <1>2 DEF Awaiting, NothingPending

LEMMA SomeName == Hub \in Name
BY DEF Name

LEMMA InitialState ==
  ASSUME Inv, NEW w \in Loop, pc[w] = "init", NEW cards \in {Cards, {}}
  PROVE  /\ InitState(w, cards) \in State /\ InitState(w, cards).pending = NothingPending
         /\ InitState(w, cards).loop = 0 /\ InitState(w, cards).max \in Nat \ {0}
<1>1. Cardinality(cards) \in Nat
  BY ConstantsAssumption, FS_CardinalityType, FS_EmptySet
<1>2. InitState(w, cards) \in State
  BY InitStateTyped
<1>3. /\ InitState(w, cards).pending = NothingPending
      /\ InitState(w, cards).loop = 0 /\ InitState(w, cards).max = Cardinality(cards) + LoopSlack
  BY DEF InitState
<1> QED
  BY <1>1, <1>2, <1>3, ConstantsAssumption

LEMMA InitFlowCopy ==
  ASSUME Inv, SectionInv, CopyInv, NEW w \in Loop, InitFlow(w)
  PROVE  CopyInv' /\ Join!Next
<1>1. PICK cards \in {Cards, {}} :
        store' = InitState(w, cards) /\ st' = [st EXCEPT ![w] = InitState(w, cards)]
  BY DEF InitFlow
<1>2. /\ InitState(w, cards) \in State /\ InitState(w, cards).pending = NothingPending
      /\ InitState(w, cards).loop = 0 /\ InitState(w, cards).max \in Nat \ {0}
  BY InitialState DEF InitFlow
<1>3. Join!Next
  BY <1>1, <1>2, BeginStep
<1>4. InSection(w) /\ Go(w, "turn") /\ "turn" \in Place
  BY DEF InitFlow, InSection, PlaceInSection, Place
<1>5. st'[w] = store' /\ pc'[w] = "turn"
  BY <1>1, <1>4 DEF Go, Inv, LocalInv, LocalOK
<1>6. Copied(w)'
  <2>1. OneAwaited(store')
    BY <1>1, <1>2, SomebodyAwaited, SomeName DEF OneAwaited
  <2>2. store' # None
    BY <1>1, <1>2, NoneAssumption
  <2> QED
    BY <1>5, <2>1, <2>2 DEF Copied, SameRun, OneAwaited, Awaiting
<1>7. CopyInv'
  BY <1>1, <1>4, <1>6, CopyMoves
<1> QED
  BY <1>3, <1>7

\* A copy that is saved is a step of ScatterGather.
LEMMA SaveStep ==
  ASSUME Inv, CopyInv, NEW w \in Loop, pc[w] \in {"fanin", "save"}, store' = st[w]
  PROVE  Join!Next
<1>1. st[w] \in State
  BY DEF Inv, LocalInv, LoopInv, Working
<1>2. store \in State
  BY DEF CopyInv, Copied, Inv, SharedOK
<1>3. Heard(store', store) \/ HandedOff(store', store) \/ Asked(store', store)
  BY DEF CopyInv, Copied
<1> QED
  BY <1>1, <1>2, <1>3, HearStep, HandOffStep, RoundStep

LEMMA SaveReplyLostCopy ==
  ASSUME Inv, SectionInv, CopyInv, NEW w \in Loop, SaveReplyLost(w)
  PROVE  CopyInv' /\ Join!Next
<1>1. ASSUME pc[w] = "init" PROVE Join!Next
  <2>1. /\ InitState(w, Cards) \in State /\ InitState(w, Cards).pending = NothingPending
        /\ InitState(w, Cards).loop = 0 /\ InitState(w, Cards).max \in Nat \ {0}
    BY <1>1, InitialState
  <2>2. store' = InitState(w, Cards)
    BY <1>1 DEF SaveReplyLost
  <2> QED
    BY <2>1, <2>2, BeginStep
<1>2. ASSUME pc[w] \in {"fanin", "save"} PROVE Join!Next
  BY <1>2, SaveStep DEF SaveReplyLost
<1>3. Join!Next
  BY <1>1, <1>2 DEF SaveReplyLost
<1>4. /\ InSection(w) /\ Go(w, "unlock") /\ "unlock" \in Place
      /\ \E s : st' = [st EXCEPT ![w] = s]
  BY DEF SaveReplyLost, Return, InSection, PlaceInSection, Place
<1>5. CopyInv'
  BY <1>4, CopyLeaves
<1> QED
  BY <1>3, <1>5

LEMMA AcceptResponseCopy ==
  ASSUME Inv, SectionInv, CopyInv, NEW w \in Loop, AcceptResponse(w)
  PROVE  CopyInv'
<1>1. /\ pc[w] = "load" /\ Awaited(w) /\ InSection(w) /\ UNCHANGED store
      /\ st' = [st EXCEPT ![w] = Answered(w)]
  BY DEF AcceptResponse, InSection, PlaceInSection, redis
<1>2. st'[w] = Answered(w) /\ Answered(w) \in State /\ store' = store /\ store # None
  BY <1>1, AnsweredTyped DEF Inv, LocalInv, LocalOK, Awaited
<1>3. /\ From(w) \in Awaiting(store) /\ From(w) \in Name
      /\ Awaiting(Answered(w)) = Awaiting(store) \ {From(w)}
      /\ SameRun(Answered(w), store) /\ Answered(w).loop = store.loop
  BY <1>1, AnsweredAwaiting, AnsweredTyped
<1>4. CASE Answered(w).pending = NothingPending
  <2>1. Go(w, "turn") /\ "turn" \in Place /\ pc'[w] = "turn"
    BY <1>4 DEF AcceptResponse, Go, Place, PlaceInSection, Inv, LocalInv, LocalOK
  <2>2. OneAwaited(store)
    BY <1>2, <1>3, <1>4, SomebodyAwaited DEF OneAwaited
  <2>3. Copied(w)'
    BY <1>2, <1>3, <2>1, <2>2 DEF Copied, SameRun, OneAwaited, Awaiting
  <2> QED
    BY <1>1, <2>1, <2>3, CopyMoves
<1>5. CASE Answered(w).pending # NothingPending
  <2>1. Go(w, "fanin") /\ "fanin" \in Place /\ pc'[w] = "fanin"
    BY <1>5 DEF AcceptResponse, Go, Place, PlaceInSection, Inv, LocalInv, LocalOK
  <2>2. Heard(Answered(w), store)
    BY <1>2, <1>3, <1>5, SomebodyAwaited DEF Heard
  <2>3. Copied(w)'
    BY <1>2, <2>1, <2>2 DEF Copied, Heard, SameRun, Awaiting
  <2> QED
    BY <1>1, <2>1, <2>3, CopyMoves
<1> QED
  BY <1>4, <1>5

LEMMA AcceptHandoffCopy ==
  ASSUME Inv, SectionInv, CopyInv, NEW w \in Loop, AcceptHandoff(w)
  PROVE  CopyInv'
<1> DEFINE target == msg[w].handoff
           s == [Answered(w) EXCEPT !.pending[target] = nextTask]
<1>1. /\ pc[w] = "load" /\ Awaited(w) /\ InSection(w) /\ UNCHANGED store /\ store # None
      /\ st' = [st EXCEPT ![w] = s] /\ Go(w, "save") /\ "save" \in Place
  BY DEF AcceptHandoff, InSection, PlaceInSection, Place, redis, Awaited
<1>2. target \in Name /\ nextTask \in 1..MaxTasks
  <2>1. msg[w] \in Message /\ msg[w].kind = "resp"
    BY DEF AcceptHandoff, Inv, LocalInv, LoopInv
  <2>2. target \in Handoff
    BY <2>1 DEF AcceptHandoff, Message
  <2> QED
    BY <2>2, ConstantsAssumption DEF AcceptHandoff, Inv, SharedOK, Name
<1>3. Answered(w) \in State
  BY <1>1, AnsweredTyped
<1>4. /\ \A x \in Name : s.pending[x] = IF x = target THEN nextTask ELSE Answered(w).pending[x]
      /\ s.orig = Answered(w).orig /\ s.max = Answered(w).max /\ s.loop = Answered(w).loop
  BY <1>2, <1>3 DEF State, Pending
<1> HIDE DEF s
<1>5. Awaiting(s) = Awaiting(Answered(w)) \cup {target}
  BY <1>2, <1>4 DEF Awaiting
<1>6. HandedOff(s, store)
  <2>1. From(w) \in Name
    BY <1>1, AnsweredTyped
  <2> QED
    BY <1>1, <1>2, <1>4, <1>5, <2>1, AnsweredAwaiting DEF HandedOff, SameRun
<1>7. st'[w] = s /\ pc'[w] = "save" /\ store' = store
  BY <1>1 DEF Go, Inv, LocalInv, LocalOK
<1>8. Copied(w)'
  BY <1>1, <1>6, <1>7 DEF Copied, HandedOff, SameRun, Awaiting
<1> QED
  BY <1>1, <1>8, CopyMoves

LEMMA FinalizeCopy ==
  ASSUME Inv, SectionInv, CopyInv, NEW w \in Loop, Finalize(w)
  PROVE  CopyInv'
<1>1. /\ InSection(w) /\ UNCHANGED store /\ Go(w, "clear") /\ "clear" \in Place
      /\ st' = [st EXCEPT ![w] = NextLoop(w)] /\ pc[w] = "turn"
  BY DEF Finalize, InSection, PlaceInSection, Place, redis
<1>2. pc'[w] = "clear"
  BY <1>1 DEF Go, Inv, LocalInv, LocalOK
<1>3. Copied(w)'
  BY <1>1, <1>2 DEF CopyInv, Copied, OneAwaited, Awaiting
<1> QED
  BY <1>1, <1>3, CopyMoves

\* A list of delegations waits for somebody.
LEMMA PendingAwaits ==
  ASSUME SharedOK, NEW list \in Delegations, NEW s, s.pending = PendingOf(list)
  PROVE  Awaiting(s) # {}
<1>1. list \in Seq(Spoke \cup Ghost) /\ list # <<>>
  BY ConstantsAssumption
<1>2. Len(list) \in Nat /\ DOMAIN list = 1..Len(list) /\ 1 \in DOMAIN list
  BY <1>1
<1> DEFINE At(x) == {k \in DOMAIN list : list[k] = x}
<1>3. list[1] \in Name /\ 1 \in At(list[1])
  BY <1>1, <1>2 DEF Name
<1>4. \E k \in At(list[1]) : \A j \in At(list[1]) : j <= k
  BY <1>2, <1>3, MaxExists
<1>5. PICK last : /\ last = CHOOSE k \in At(list[1]) : \A j \in At(list[1]) : j <= k
                  /\ last \in 1..Len(list)
  BY <1>2, <1>4
<1>6. PendingOf(list)[list[1]] = nextTask - 1 + last
  BY <1>3, <1>5 DEF PendingOf
<1>7. nextTask - 1 + last # 0
  BY <1>2, <1>5 DEF SharedOK
<1> QED
  BY <1>3, <1>6, <1>7 DEF Awaiting

LEMMA DelegateCopy ==
  ASSUME Inv, SectionInv, CopyInv, NEW w \in Loop, Delegate(w)
  PROVE  CopyInv'
<1> PICK list \in Delegations : DelegateTo(w, list)
  BY DEF Delegate
<1> DEFINE s == [NextLoop(w) EXCEPT !.status = "waiting_spoke", !.pending = PendingOf(list)]
<1>1. /\ InSection(w) /\ UNCHANGED store /\ Go(w, "save") /\ "save" \in Place
      /\ st' = [st EXCEPT ![w] = s] /\ pc[w] = "turn"
  BY DEF Delegate, DelegateTo, InSection, PlaceInSection, Place, redis
<1>2. /\ st[w] \in State /\ store # None /\ store \in State
      /\ SameRun(st[w], store) /\ st[w].loop = store.loop /\ OneAwaited(store)
  BY <1>1 DEF CopyInv, Copied, Inv, SharedOK, LocalInv, LoopInv, Working
<1>3. /\ s.orig = st[w].orig /\ s.max = st[w].max /\ s.loop = st[w].loop + 1
      /\ s.pending = PendingOf(list)
  BY <1>2 DEF NextLoop, State
<1>4. s.loop <= s.max
  BY <1>2, <1>3 DEF Delegate, LoopsExhausted, State
<1> HIDE DEF s
<1>5. Awaiting(s) # {}
  BY <1>3, PendingAwaits DEF Inv
<1>6. Asked(s, store)
  BY <1>2, <1>3, <1>4, <1>5 DEF Asked, SameRun
<1>7. st'[w] = s /\ pc'[w] = "save" /\ store' = store
  BY <1>1 DEF Go, Inv, LocalInv, LocalOK
<1>8. Copied(w)'
  BY <1>2, <1>6, <1>7 DEF Copied, Asked, SameRun, OneAwaited, Awaiting
<1> QED
  BY <1>1, <1>8, CopyMoves

\* Every step of a handler is a step of ScatterGather or leaves its variables alone.
LEMMA HandleCopy ==
  ASSUME Inv, SectionInv, CopyInv, NEW w \in Loop, Handle(w)
  PROVE  CopyInv' /\ [Join!Next]_(Join!vars)
<1>1. CASE \/ AcquireLock(w) \/ LockFails(w) \/ Unlock(w) \/ RedisFails(w) \/ IgnoreResponse(w)
           \/ BrainFails(w) \/ PublishFails(w) \/ PublishFinal(w)
  <2>1. UNCHANGED store
    BY <1>1 DEF AcquireLock, LockFails, Unlock, RedisFails, IgnoreResponse, BrainFails,
                PublishFails, PublishFinal, redis
  <2>2. PICK p \in Place \ {"fanin", "turn", "save", "clear"} : Go(w, p)
    <3>1. {"init", "load", "ack", "unlock"} \subseteq Place \ {"fanin", "turn", "save", "clear"}
      BY DEF Place, PlaceInSection
    <3>2. Go(w, "init") \/ Go(w, "load") \/ Go(w, "ack") \/ Go(w, "unlock")
      BY <1>1 DEF AcquireLock, LockFails, Unlock, RedisFails, IgnoreResponse, BrainFails,
                  PublishFails, PublishFinal, Return, Go
    <3> QED
      BY <3>1, <3>2
  <2>3. UNCHANGED st \/ \E s : st' = [st EXCEPT ![w] = s]
    BY <1>1 DEF AcquireLock, LockFails, Unlock, RedisFails, IgnoreResponse, BrainFails,
                PublishFails, PublishFinal, Return
  <2> QED
    BY <2>1, <2>2, <2>3, CopyLeaves, SameStep
<1>2. CASE InitFlow(w)
  BY <1>2, InitFlowCopy
<1>3. CASE SaveReplyLost(w)
  BY <1>3, SaveReplyLostCopy
<1>4. CASE AcceptResponse(w) \/ AcceptHandoff(w) \/ Finalize(w) \/ Delegate(w)
  <2>1. UNCHANGED store
    BY <1>4 DEF AcceptResponse, AcceptHandoff, Finalize, Delegate, DelegateTo, redis
  <2> QED
    BY <1>4, <2>1, AcceptResponseCopy, AcceptHandoffCopy, FinalizeCopy, DelegateCopy, SameStep
<1>5. CASE SaveFanIn(w) \/ SaveWaiting(w)
  <2>1. pc[w] \in {"fanin", "save"} /\ store' = st[w] /\ InSection(w)
    BY <1>5 DEF SaveFanIn, SaveWaiting, InSection, PlaceInSection
  <2>2. \E p \in Place \ {"fanin", "turn", "save", "clear"} : Go(w, p)
    BY <1>5 DEF SaveFanIn, SaveWaiting, Return, Place, PlaceInSection
  <2>3. UNCHANGED st \/ \E s : st' = [st EXCEPT ![w] = s]
    BY <1>5 DEF SaveFanIn, SaveWaiting, Return
  <2> QED
    BY <2>1, <2>2, <2>3, CopyLeaves, SaveStep
<1>6. CASE Publish(w)
  <2>1. UNCHANGED store
    BY <1>6 DEF Publish, redis
  <2>2. CASE Return(w, "ack")
    BY <2>1, <2>2, CopyLeaves, SameStep DEF Return, Place, PlaceInSection
  <2>3. CASE UNCHANGED <<pc, st>>
    BY <2>1, <2>3, SameStep DEF CopyInv, Copied
  <2> QED
    BY <1>6, <2>2, <2>3 DEF Publish
<1>7. CASE Clear(w)
  <2>1. /\ InSection(w) /\ Go(w, "final") /\ UNCHANGED st /\ pc[w] = "clear"
        /\ "final" \in Place \ {"fanin", "turn", "save", "clear"}
    BY <1>7 DEF Clear, InSection, PlaceInSection, Place
  <2>2. CopyInv'
    BY <2>1, CopyLeaves
  <2>3. store \in State /\ OneAwaited(store)
    BY <2>1 DEF CopyInv, Copied, Inv, SharedOK
  <2>4. [Join!Next]_(Join!vars)
    BY <1>7, <2>3, EndStep, SameStep DEF Clear
  <2> QED
    BY <2>2, <2>4
<1> QED
  BY <1>1, <1>2, <1>3, <1>4, <1>5, <1>6, <1>7 DEF Handle

LEMMA CopyNext ==
  ASSUME Inv, SectionInv, CopyInv, [Next]_vars
  PROVE  CopyInv' /\ [Join!Next]_(Join!vars)
<1>1. CASE \/ UNCHANGED vars \/ FetchTimeout \/ LockExpires
           \/ \E u \in User : UserSends(u)
           \/ \E t \in tasks : SpokeAnswers(t) \/ SpokeFails(t)
           \/ \E w \in Loop : DeadLetter(w) \/ AckWaitExpires(w)
  <2>1. UNCHANGED <<pc, st, store>>
    BY <1>1 DEF vars, redis, local, FetchTimeout, LockExpires, UserSends, SpokeAnswers,
                SpokeFails, DeadLetter, AckWaitExpires
  <2> QED
    BY <2>1, SameStep DEF CopyInv, Copied
<1>2. ASSUME NEW w \in Loop, Fetch(w) \/ Settle(w) \/ Crash(w)
      PROVE  CopyInv' /\ [Join!Next]_(Join!vars)
  <2>1. \E p \in Place \ {"fanin", "turn", "save", "clear"} : Go(w, p)
    <3>1. {"lock", "idle"} \subseteq Place \ {"fanin", "turn", "save", "clear"}
      BY DEF Place, PlaceInSection
    <3> QED
      BY <1>2, <3>1 DEF Fetch, Settle, Crash, Forget
  <2>2. /\ UNCHANGED store
        /\ UNCHANGED st \/ \E s : st' = [st EXCEPT ![w] = s]
    BY <1>2 DEF Fetch, Settle, Crash, Forget, redis
  <2> QED
    BY <2>1, <2>2, CopyLeaves, SameStep
<1>3. ASSUME NEW w \in Loop, Handle(w) PROVE CopyInv' /\ [Join!Next]_(Join!vars)
  BY <1>3, HandleCopy
<1> QED
  BY <1>1, <1>2, <1>3 DEF Next

-----------------------------------------------------------------------------
\* When the work fits in the lock's TTL, the hub's orchestration implements the
\* abstract specification: whatever fails, every change of the saved state starts a
\* flow, hears one awaited agent, hands its part over, asks a next round within the
\* limit when at most one agent is missing, or ends the flow.
THEOREM Refinement == ASSUME ~Overrun PROVE Spec => ImplementsScatterGather
<1>1. Init => CopyInv /\ Join!Init
  BY DEF Init, CopyInv, Copied, Join!Init, Saved
<1>2. Inv /\ SectionInv /\ CopyInv /\ [Next]_vars => CopyInv' /\ [Join!Next]_(Join!vars)
  BY CopyNext
<1> QED
  BY <1>1, <1>2, Invariance, SectionInvariance, PTL
     DEF Spec, ImplementsScatterGather, Join!Spec

-----------------------------------------------------------------------------
(* What becomes of the messages of a thread.                               *)

\* A user message has one entry in the stream, made when it was sent.
StreamInv ==
  /\ \A e \in stream : e.msg.kind = "user" => e.msg.id \in sent
  /\ \A e, f \in stream : e.msg = f.msg /\ e.msg.kind = "user" => e = f

LEMMA UserMessageIs ==
  ASSUME NEW m \in Message
  PROVE  /\ m.kind \in {"user", "resp"}
         /\ m.kind = "user" => m.id \in User /\ m = UserMessage(m.id)
         /\ m.kind = "resp" => m.task \in Task /\ m.handoff \in Handoff \cup {None}
         /\ \A u : m = UserMessage(u) => m.kind = "user" /\ m.id = u
BY DEF Message, UserMessage

LEMMA EntryIs ==
  ASSUME Inv, NEW e \in stream
  PROVE  e \in Entry /\ e.msg \in Message /\ e.n \in Nat /\ e.ready \in BOOLEAN
BY DEF Inv, SharedOK, Entry

\* Entries are replaced by entries of the same message.
LEMMA ReplaceStream ==
  ASSUME StreamInv, NEW e \in stream, NEW f, f.msg = e.msg, UNCHANGED sent,
         stream' = (stream \ {e}) \cup {f}
  PROVE  StreamInv'
BY DEF StreamInv

LEMMA ShrinkStream ==
  ASSUME StreamInv, sent \subseteq sent', stream' \subseteq stream
  PROVE  StreamInv'
BY DEF StreamInv

LEMMA ReadyEntry ==
  ASSUME NEW e \in Entry
  PROVE  /\ [e EXCEPT !.ready = TRUE].msg = e.msg /\ [e EXCEPT !.ready = TRUE].n = e.n
         /\ [e EXCEPT !.ready = TRUE].ready = TRUE
         /\ [e EXCEPT !.ready = TRUE] \in Entry
BY DEF Entry

\* Redelivery makes the entries of a message ready, and keeps the others.
LEMMA RedeliverIs ==
  ASSUME Inv, NEW m
  PROVE  /\ \A e \in Redeliver(m) :
              /\ e.msg # m => e \in stream
              /\ e.msg = m => e.ready /\ \E f \in stream : f.msg = m /\ e = [f EXCEPT !.ready = TRUE]
         /\ \A e \in stream : e.msg # m => e \in Redeliver(m)
         /\ \A e \in stream : e.msg = m => [e EXCEPT !.ready = TRUE] \in Redeliver(m)
<1>1. \A e \in stream : e \in Entry
  BY EntryIs
<1>2. ASSUME NEW e \in Redeliver(m)
      PROVE  /\ e.msg # m => e \in stream
             /\ e.msg = m => e.ready /\ \E f \in stream : f.msg = m /\ e = [f EXCEPT !.ready = TRUE]
  <2>1. CASE e \in stream \ Unsettled(m)
    BY <2>1 DEF Unsettled
  <2>2. CASE e \in {[f EXCEPT !.ready = TRUE] : f \in Unsettled(m)}
    <3>1. PICK f \in Unsettled(m) : e = [f EXCEPT !.ready = TRUE]
      BY <2>2
    <3>2. f \in stream /\ f.msg = m /\ f \in Entry
      BY <1>1 DEF Unsettled
    <3>3. e.msg = m /\ e.ready
      BY <3>1, <3>2, ReadyEntry
    <3> QED
      BY <3>1, <3>2, <3>3
  <2> QED
    BY <2>1, <2>2 DEF Redeliver
<1>3. \A e \in stream : e.msg # m => e \in Redeliver(m)
  BY DEF Redeliver, Unsettled
<1>4. \A e \in stream : e.msg = m => [e EXCEPT !.ready = TRUE] \in Redeliver(m)
  BY DEF Redeliver, Unsettled
<1> QED
  BY <1>2, <1>3, <1>4

LEMMA RedeliverStream ==
  ASSUME Inv, StreamInv, NEW m, stream' = Redeliver(m), UNCHANGED sent
  PROVE  StreamInv'
<1>1. \A e \in stream : [e EXCEPT !.ready = TRUE].msg = e.msg
  BY EntryIs, ReadyEntry
<1>2. ASSUME NEW e \in stream', e.msg.kind = "user" PROVE e.msg.id \in sent'
  <2>1. \E f \in stream : f.msg = e.msg
    BY RedeliverIs, <1>1
  <2> QED
    BY <1>2, <2>1 DEF StreamInv
<1>3. ASSUME NEW e \in stream', NEW f \in stream', e.msg = f.msg, e.msg.kind = "user" PROVE e = f
  <2>1. CASE e.msg = m
    <3>1. PICK e0 \in stream : e0.msg = m /\ e = [e0 EXCEPT !.ready = TRUE]
      BY <2>1, RedeliverIs
    <3>2. PICK f0 \in stream : f0.msg = m /\ f = [f0 EXCEPT !.ready = TRUE]
      BY <1>3, <2>1, RedeliverIs
    <3>3. e0 = f0
      BY <1>3, <2>1, <3>1, <3>2 DEF StreamInv
    <3> QED
      BY <3>1, <3>2, <3>3
  <2>2. CASE e.msg # m
    BY <1>3, <2>2, RedeliverIs DEF StreamInv
  <2> QED
    BY <2>1, <2>2
<1> QED
  BY <1>2, <1>3 DEF StreamInv

\* The message of an entry that Fetch or DeadLetter has counted.
LEMMA CountedEntry ==
  ASSUME NEW e \in Entry
  PROVE  /\ [e EXCEPT !.n = @ + 1, !.ready = FALSE].msg = e.msg
         /\ ~[e EXCEPT !.n = @ + 1, !.ready = FALSE].ready
         /\ [e EXCEPT !.n = @ + 1].msg = e.msg
         /\ [e EXCEPT !.n = @ + 1].ready = e.ready
BY DEF Entry

LEMMA StreamNext ==
  ASSUME Inv, StreamInv, [Next]_vars
  PROVE  StreamInv'
<1>1. CASE UNCHANGED <<stream, sent>>
  BY <1>1 DEF StreamInv
<1>2. ASSUME NEW u \in User, UserSends(u) PROVE StreamInv'
  <2>1. /\ u \notin sent /\ sent' = sent \cup {u}
        /\ stream' = stream \cup {Published(UserMessage(u))}
    BY <1>2 DEF UserSends, UserMessage
  <2>2. Published(UserMessage(u)).msg = UserMessage(u)
    BY DEF Published
  <2>3. UserMessage(u).id = u /\ \A e \in stream : e.msg # UserMessage(u)
    BY <2>1 DEF StreamInv, UserMessage
  <2> QED
    BY <2>1, <2>2, <2>3 DEF StreamInv
<1>3. ASSUME NEW t \in tasks, SpokeAnswers(t) PROVE StreamInv'
  <2>1. PICK h \in Handoff \cup {None} :
          stream' = stream \cup {Published([kind |-> "resp", task |-> t, handoff |-> h])}
    BY <1>3 DEF SpokeAnswers
  <2>2. Published([kind |-> "resp", task |-> t, handoff |-> h]).msg.kind = "resp"
    BY DEF Published
  <2>3. UNCHANGED sent
    BY <1>3 DEF SpokeAnswers
  <2> QED
    BY <2>1, <2>2, <2>3 DEF StreamInv
<1>4. ASSUME NEW w \in Loop, Fetch(w) PROVE StreamInv'
  <2>1. PICK e \in stream : stream' = (stream \ {e}) \cup {[e EXCEPT !.n = @ + 1, !.ready = FALSE]}
    BY <1>4 DEF Fetch
  <2>2. UNCHANGED sent
    BY <1>4 DEF Fetch
  <2> QED
    BY <2>1, <2>2, EntryIs, CountedEntry, ReplaceStream
<1>5. ASSUME NEW w \in Loop, DeadLetter(w) PROVE StreamInv'
  <2>1. PICK e \in stream : \/ stream' = stream \ {e}
                            \/ stream' = (stream \ {e}) \cup {[e EXCEPT !.n = @ + 1]}
    BY <1>5 DEF DeadLetter
  <2>2. UNCHANGED sent
    BY <1>5 DEF DeadLetter
  <2> QED
    BY <2>1, <2>2, EntryIs, CountedEntry, ReplaceStream, ShrinkStream
<1>6. ASSUME NEW w \in Loop, AckWaitExpires(w) PROVE StreamInv'
  <2>1. PICK e \in stream : stream' = (stream \ {e}) \cup {[e EXCEPT !.ready = TRUE]}
    BY <1>6 DEF AckWaitExpires
  <2>2. UNCHANGED sent
    BY <1>6 DEF AckWaitExpires
  <2> QED
    BY <2>1, <2>2, EntryIs, ReadyEntry, ReplaceStream
<1>7. ASSUME NEW w \in Loop, Settle(w) \/ Crash(w) PROVE StreamInv'
  <2>1. UNCHANGED sent /\ (stream' = stream \ Unsettled(msg[w]) \/ stream' = Redeliver(msg[w]))
    BY <1>7 DEF Settle, Crash
  <2> QED
    BY <2>1, RedeliverStream, ShrinkStream
<1>8. CASE \/ UNCHANGED vars \/ FetchTimeout \/ LockExpires
           \/ \E t \in tasks : SpokeFails(t)
           \/ \E w \in Loop : Handle(w)
  <2>1. UNCHANGED <<stream, sent>>
    BY <1>8 DEF vars, FetchTimeout, LockExpires, SpokeFails, Handle, AcquireLock, LockFails, InitFlow,
         RedisFails, SaveReplyLost, IgnoreResponse, AcceptResponse, AcceptHandoff, SaveFanIn, Finalize,
         Delegate, DelegateTo, BrainFails, SaveWaiting, Publish, PublishFails, Clear, PublishFinal, Unlock
  <2> QED
    BY <1>1, <2>1
<1> QED
  BY <1>2, <1>3, <1>4, <1>5, <1>6, <1>7, <1>8 DEF Next

LEMMA StreamInvariance == Spec => []StreamInv
<1>1. Init => StreamInv
  BY DEF Init, StreamInv
<1> QED
  BY <1>1, StreamNext, Invariance, PTL DEF Spec

-----------------------------------------------------------------------------
(* What a step of one loop leaves alone, and where it may go.              *)

Stays(v) == pc'[v] = pc[v] /\ msg'[v] = msg[v] /\ st'[v] = st[v] /\ todo'[v] = todo[v]
              /\ verdict'[v] = verdict[v]

OthersStay(w) == \A v \in Loop : v # w => Stays(v)

LEMMA StepOfLoop ==
  ASSUME Inv, NEW w \in Loop, Fetch(w) \/ Settle(w) \/ Crash(w) \/ Handle(w)
  PROVE  OthersStay(w)
<1>0. LocalOK
  BY DEF Inv, LocalInv
<1>1. CASE Fetch(w)
  BY <1>0, <1>1 DEF LocalOK, OthersStay, Stays, Fetch, Go
<1>2. CASE Settle(w) \/ Crash(w)
  BY <1>0, <1>2 DEF LocalOK, OthersStay, Stays, Settle, Crash, Forget, Go
<1>3. CASE \/ RedisFails(w) \/ SaveReplyLost(w) \/ IgnoreResponse(w) \/ SaveFanIn(w)
           \/ BrainFails(w) \/ PublishFails(w) \/ PublishFinal(w)
  BY <1>0, <1>3 DEF LocalOK, OthersStay, Stays, RedisFails, SaveReplyLost, IgnoreResponse,
       SaveFanIn, BrainFails, PublishFails, PublishFinal, Return, Go
<1>4. CASE \/ AcquireLock(w) \/ LockFails(w) \/ Unlock(w) \/ Clear(w) \/ SaveWaiting(w)
  BY <1>0, <1>4 DEF LocalOK, OthersStay, Stays, AcquireLock, LockFails, Unlock, Clear,
       SaveWaiting, Go
<1>5. CASE InitFlow(w) \/ AcceptResponse(w) \/ Finalize(w)
  BY <1>0, <1>5 DEF LocalOK, OthersStay, Stays, InitFlow, AcceptResponse, Finalize, Go
<1>6. CASE AcceptHandoff(w) \/ Delegate(w)
  BY <1>0, <1>6 DEF LocalOK, OthersStay, Stays, AcceptHandoff, Delegate, DelegateTo, Go
<1>7. CASE Publish(w)
  BY <1>0, <1>7 DEF LocalOK, OthersStay, Stays, Publish, Return, Go
<1> QED
  BY <1>1, <1>2, <1>3, <1>4, <1>5, <1>6, <1>7 DEF Handle

LEMMA Alone ==
  ASSUME SectionInv, NEW w \in Loop, InSection(w), NEW v \in Loop, v # w
  PROVE  ~InSection(v)
BY DEF SectionInv

-----------------------------------------------------------------------------
(* The handlers of user messages and of responses, and the state they find. *)

\* A flow that a user message has started waits for nobody; while a response
\* is handled the saved state is still the one that waits for it.
Phase(w) ==
  /\ pc[w] = "fanin" => msg[w].kind = "resp"
  /\ pc[w] \in {"fanin", "save"} => st[w].status = "waiting_spoke"
  /\ pc[w] \in {"fanin", "turn", "save", "clear"} /\ msg[w].kind = "resp" =>
       store # None /\ store.status = "waiting_spoke" /\ store.orig = st[w].orig
  /\ pc[w] \in {"turn", "save", "clear", "final"} /\ msg[w].kind = "user" =>
       (store # None => store.status = "idle") /\ st[w].orig = msg[w].id

PhaseInv == \A w \in Loop : Phase(w)

LEMMA PhaseStep ==
  ASSUME PhaseInv, NEW w \in Loop, OthersStay(w), Phase(w)',
         UNCHANGED store \/ (SectionInv /\ InSection(w))
  PROVE  PhaseInv'
<1>1. ASSUME NEW v \in Loop, v # w PROVE Phase(v)'
  <2>1. Stays(v)
    BY <1>1 DEF OthersStay
  <2>2. CASE UNCHANGED store
    BY <2>1, <2>2 DEF PhaseInv, Phase, Stays
  <2>3. CASE SectionInv /\ InSection(w)
    <3>1. pc[v] \notin {"fanin", "turn", "save", "clear", "final"}
      BY <1>1, <2>3, Alone DEF InSection, PlaceInSection
    <3> QED
      BY <2>1, <3>1 DEF Phase, Stays
  <2> QED
    BY <2>2, <2>3
<1> QED
  BY <1>1 DEF PhaseInv

LEMMA HandlePhase ==
  ASSUME Inv, SectionInv, PhaseInv, NEW w \in Loop, Handle(w)
  PROVE  PhaseInv'
<1>0. LocalOK /\ OthersStay(w) /\ Phase(w) /\ UNCHANGED msg
  <2>1. UNCHANGED msg
    BY DEF Handle, AcquireLock, LockFails, InitFlow, RedisFails, SaveReplyLost, IgnoreResponse,
       AcceptResponse, AcceptHandoff, SaveFanIn, Finalize, Delegate, DelegateTo, BrainFails,
       SaveWaiting, Publish, PublishFails, Clear, PublishFinal, Unlock
  <2> QED
    BY <2>1, StepOfLoop DEF Inv, LocalInv, PhaseInv
<1>1. CASE AcquireLock(w) \/ LockFails(w) \/ Unlock(w)
  <2>1. UNCHANGED store /\ pc'[w] \in {"init", "load", "ack"}
    BY <1>0, <1>1 DEF AcquireLock, LockFails, Unlock, Go, LocalOK
  <2> QED
    BY <1>0, <2>1, PhaseStep DEF Phase
<1>2. CASE \/ RedisFails(w) \/ SaveReplyLost(w) \/ IgnoreResponse(w) \/ SaveFanIn(w)
           \/ BrainFails(w) \/ PublishFails(w) \/ PublishFinal(w)
  <2>1. InSection(w) /\ pc'[w] = "unlock"
    BY <1>0, <1>2 DEF RedisFails, SaveReplyLost, IgnoreResponse, SaveFanIn, BrainFails,
         PublishFails, PublishFinal, Return, Go, LocalOK, InSection, PlaceInSection
  <2> QED
    BY <1>0, <2>1, PhaseStep DEF Phase
<1>3. CASE InitFlow(w)
  <2>1. PICK cards \in {Cards, {}} :
          store' = InitState(w, cards) /\ st' = [st EXCEPT ![w] = InitState(w, cards)]
    BY <1>3 DEF InitFlow
  <2>2. /\ InSection(w) /\ pc'[w] = "turn" /\ st'[w] = InitState(w, cards)
        /\ msg[w].kind = "user"
    BY <1>0, <1>3, <2>1 DEF InitFlow, Go, LocalOK, InSection, PlaceInSection, Inv, LocalInv, LoopInv
  <2>3. InitState(w, cards).status = "idle" /\ InitState(w, cards).orig = msg[w].id
    BY DEF InitState
  <2>4. Phase(w)'
    BY <1>0, <2>1, <2>2, <2>3 DEF Phase
  <2> QED
    BY <1>0, <2>2, <2>4, PhaseStep
<1>4. CASE AcceptResponse(w)
  <2>1. /\ UNCHANGED store /\ pc'[w] \in {"turn", "fanin"} /\ st'[w] = Answered(w)
        /\ msg[w].kind = "resp" /\ Awaited(w)
    BY <1>0, <1>4 DEF AcceptResponse, redis, Go, LocalOK, Inv, LocalInv, LoopInv
  <2>2. Answered(w).status = "waiting_spoke" /\ Answered(w).orig = store.orig
    <3>1. store \in State /\ store.status = "waiting_spoke"
      BY <1>4, <2>1, AnsweredTyped DEF AcceptResponse, Awaited
    <3> QED
      BY <3>1 DEF Answered, State
  <2>3. Phase(w)'
    BY <1>0, <2>1, <2>2 DEF Phase, Awaited
  <2> QED
    BY <1>0, <2>1, <2>3, PhaseStep
<1>5. CASE AcceptHandoff(w)
  <2> DEFINE s == [Answered(w) EXCEPT !.pending[msg[w].handoff] = nextTask]
  <2>1. /\ UNCHANGED store /\ pc'[w] = "save" /\ st'[w] = s
        /\ msg[w].kind = "resp" /\ Awaited(w)
    BY <1>0, <1>5 DEF AcceptHandoff, redis, Go, LocalOK, Inv, LocalInv, LoopInv
  <2>2. s.status = "waiting_spoke" /\ s.orig = store.orig
    <3>1. store \in State /\ store.status = "waiting_spoke"
      BY <1>5, <2>1, AnsweredTyped DEF AcceptHandoff, Awaited
    <3>2. Answered(w) \in State /\ Answered(w).status = "waiting_spoke" /\ Answered(w).orig = store.orig
      BY <1>5, <2>1, <3>1, AnsweredTyped DEF AcceptHandoff, Answered, State
    <3> QED
      BY <3>2 DEF State
  <2> HIDE DEF s
  <2>3. Phase(w)'
    BY <1>0, <2>1, <2>2 DEF Phase, Awaited
  <2> QED
    BY <1>0, <2>1, <2>3, PhaseStep
<1>6. CASE Finalize(w)
  <2>1. UNCHANGED store /\ pc[w] = "turn" /\ pc'[w] = "clear" /\ st'[w] = NextLoop(w)
    BY <1>0, <1>6 DEF Finalize, redis, Go, LocalOK
  <2>2. NextLoop(w).orig = st[w].orig
    BY <2>1, NextLoopTyped
  <2>3. Phase(w)'
    BY <1>0, <2>1, <2>2 DEF Phase
  <2> QED
    BY <1>0, <2>1, <2>3, PhaseStep
<1>7. CASE Delegate(w)
  <2>1. PICK list \in Delegations : DelegateTo(w, list)
    BY <1>7 DEF Delegate
  <2> DEFINE s == [NextLoop(w) EXCEPT !.status = "waiting_spoke", !.pending = PendingOf(list)]
  <2>2. UNCHANGED store /\ pc[w] = "turn" /\ pc'[w] = "save" /\ st'[w] = s
    BY <1>0, <1>7, <2>1 DEF Delegate, DelegateTo, redis, Go, LocalOK
  <2>3. s.orig = st[w].orig /\ s.status = "waiting_spoke"
    <3>1. st[w] \in State /\ NextLoop(w) \in State /\ NextLoop(w).orig = st[w].orig
      BY <2>2, NextLoopTyped
    <3> QED
      BY <3>1 DEF State
  <2> HIDE DEF s
  <2>4. Phase(w)'
    BY <1>0, <2>2, <2>3 DEF Phase
  <2> QED
    BY <1>0, <2>2, <2>4, PhaseStep
<1>8. CASE SaveWaiting(w)
  <2>1. InSection(w) /\ pc'[w] = "publish"
    BY <1>0, <1>8 DEF SaveWaiting, Go, LocalOK, InSection, PlaceInSection
  <2> QED
    BY <1>0, <2>1, PhaseStep DEF Phase
<1>9. CASE Publish(w)
  <2>1. UNCHANGED store /\ pc[w] = "publish" /\ pc'[w] \in {"publish", "unlock"}
    BY <1>0, <1>9 DEF Publish, redis, Return, Go, LocalOK
  <2> QED
    BY <1>0, <2>1, PhaseStep DEF Phase
<1>10. CASE Clear(w)
  <2>1. /\ InSection(w) /\ pc[w] = "clear" /\ pc'[w] = "final" /\ UNCHANGED st
        /\ store' = None \/ store' = store
    BY <1>0, <1>10 DEF Clear, Go, LocalOK, InSection, PlaceInSection
  <2>2. Phase(w)'
    BY <1>0, <2>1 DEF Phase
  <2> QED
    BY <1>0, <2>1, <2>2, PhaseStep
<1> QED
  BY <1>1, <1>2, <1>3, <1>4, <1>5, <1>6, <1>7, <1>8, <1>9, <1>10 DEF Handle

LEMMA PhaseNext ==
  ASSUME Inv, SectionInv, PhaseInv, [Next]_vars
  PROVE  PhaseInv'
<1>1. CASE \/ UNCHANGED vars \/ FetchTimeout \/ LockExpires
           \/ \E u \in User : UserSends(u)
           \/ \E t \in tasks : SpokeAnswers(t) \/ SpokeFails(t)
           \/ \E w \in Loop : DeadLetter(w) \/ AckWaitExpires(w)
  <2>1. UNCHANGED <<pc, msg, st, store>>
    BY <1>1 DEF vars, redis, local, FetchTimeout, LockExpires, UserSends, SpokeAnswers,
                SpokeFails, DeadLetter, AckWaitExpires
  <2> QED
    BY <2>1 DEF PhaseInv, Phase
<1>2. ASSUME NEW w \in Loop, Fetch(w) \/ Settle(w) \/ Crash(w) PROVE PhaseInv'
  <2>1. UNCHANGED store /\ pc'[w] \in {"lock", "idle"}
    BY <1>2 DEF Fetch, Settle, Crash, Forget, Go, redis, Inv, LocalInv, LocalOK
  <2> QED
    BY <1>2, <2>1, PhaseStep, StepOfLoop DEF Phase
<1>3. ASSUME NEW w \in Loop, Handle(w) PROVE PhaseInv'
  BY <1>3, HandlePhase
<1> QED
  BY <1>1, <1>2, <1>3 DEF Next

LEMMA PhaseInvariance == ASSUME ~Overrun PROVE Spec => []PhaseInv
<1>1. Init => PhaseInv
  BY DEF Init, PhaseInv, Phase
<1> QED
  BY <1>1, PhaseNext, Invariance, SectionInvariance, PTL DEF Spec

-----------------------------------------------------------------------------
(* How often a user message may be answered.                               *)

One(P) == IF P THEN 1 ELSE 0

\* w handles u's message and may still answer it, or give it back.
Handles(w, u) ==
  /\ msg[w] = UserMessage(u)
  /\ \/ pc[w] \in {"lock", "init", "turn", "save", "clear", "final"}
     \/ pc[w] \in {"unlock", "ack"} /\ verdict[w] = "nak"

Handlers(u) == {w \in Loop : Handles(w, u)}

\* w has ended u's flow after a response, and is about to answer.
Finishes(w, u) == pc[w] = "final" /\ msg[w].kind = "resp" /\ st[w].orig = u

Finishing(u) == \E w \in Loop : Finishes(w, u)

Unread(u) == u \notin sent \/ \E e \in stream : e.ready /\ e.msg = UserMessage(u)

\* Whatever may bring one more answer without another failure: the message, waiting to
\* be read; a handler of it; the saved state, waiting for spokes; a handler about to
\* answer.  A failure adds at most one of them to what a flow has.
AnswerInv ==
  \A u \in User :
    /\ IsFiniteSet(Handlers(u))
    /\ answers[u] + One(WaitingFor(u)) + One(Finishing(u)) + One(Unread(u))
         + Cardinality(Handlers(u)) <= 1 + faults

LEMMA Ones == \A P \in BOOLEAN : One(P) \in {0, 1} /\ (One(P) = 1 <=> P)
BY DEF One

\* One loop's part of the sum.
Part(w, u) ==
  answers[u] + One(WaitingFor(u)) + One(Finishing(u)) + One(Unread(u)) + One(Handles(w, u))

LEMMA HandlersFrame ==
  ASSUME UNCHANGED <<pc, msg, verdict>>, NEW u
  PROVE  Handlers(u)' = Handlers(u)
BY DEF Handlers, Handles

LEMMA HandlersStep ==
  ASSUME NEW w \in Loop, OthersStay(w), NEW u, IsFiniteSet(Handlers(u))
  PROVE  /\ IsFiniteSet(Handlers(u)') /\ Cardinality(Handlers(u)) \in Nat
         /\ Cardinality(Handlers(u)') \in Nat
         /\ Cardinality(Handlers(u)') + One(Handles(w, u)) = Cardinality(Handlers(u)) + One(Handles(w, u)')
<1> DEFINE R == Handlers(u) \ {w}
<1>1. R = Handlers(u)' \ {w}
  BY DEF OthersStay, Stays, Handlers, Handles
<1>2. IsFiniteSet(R) /\ w \notin R /\ Cardinality(R) \in Nat
  BY FS_Subset, FS_CardinalityType
<1>3. IsFiniteSet(R \cup {w}) /\ Cardinality(R \cup {w}) = Cardinality(R) + 1
  <2> HIDE DEF R
  <2> QED
    BY <1>2, FS_AddElement
<1>4. /\ Handles(w, u) => Handlers(u) = R \cup {w}
      /\ ~Handles(w, u) => Handlers(u) = R
  BY DEF Handlers
<1>5. /\ Handles(w, u)' => Handlers(u)' = R \cup {w}
      /\ ~Handles(w, u)' => Handlers(u)' = R
  BY <1>1 DEF Handlers
<1> HIDE DEF R
<1>6. Cardinality(Handlers(u)) = Cardinality(R) + One(Handles(w, u))
  BY <1>2, <1>3, <1>4 DEF One
<1>7. /\ Cardinality(Handlers(u)') = Cardinality(R) + One(Handles(w, u)')
      /\ IsFiniteSet(Handlers(u)')
  <2>1. CASE Handles(w, u)'
    BY <1>2, <1>3, <1>5, <2>1 DEF One
  <2>2. CASE ~Handles(w, u)'
    BY <1>2, <1>5, <2>2 DEF One
  <2> QED
    BY <2>1, <2>2
<1>8. One(Handles(w, u)) \in {0, 1} /\ One(Handles(w, u)') \in {0, 1}
  BY DEF One
<1> QED
  BY <1>2, <1>3, <1>6, <1>7, <1>8, FS_CardinalityType

\* A step of one loop keeps the balance when that loop's part grows no more than the failures.
LEMMA Balance ==
  ASSUME Inv, Inv', AnswerInv, NEW w \in Loop, OthersStay(w), NEW u \in User,
         Part(w, u)' + faults <= Part(w, u) + faults'
  PROVE  /\ IsFiniteSet(Handlers(u)')
         /\ (answers[u] + One(WaitingFor(u)) + One(Finishing(u)) + One(Unread(u))
              + Cardinality(Handlers(u)))' <= 1 + faults'
<1>1. /\ answers[u] \in Nat /\ answers'[u] \in Nat /\ faults \in Nat /\ faults' \in Nat
  BY ConstantsAssumption DEF Inv, SharedOK
<1>2. IsFiniteSet(Handlers(u))
  BY DEF AnswerInv
<1> DEFINE a == One(WaitingFor(u))  a2 == One(WaitingFor(u))'
           b == One(Finishing(u))   b2 == One(Finishing(u))'
           c == One(Unread(u))      c2 == One(Unread(u))'
           d == One(Handles(w, u))  d2 == One(Handles(w, u))'
           n == Cardinality(Handlers(u))  n2 == Cardinality(Handlers(u))'
<1>3. a \in Nat /\ a2 \in Nat /\ b \in Nat /\ b2 \in Nat /\ c \in Nat /\ c2 \in Nat
      /\ d \in Nat /\ d2 \in Nat
  BY DEF One
<1>4. n \in Nat /\ n2 \in Nat /\ n2 + d = n + d2 /\ IsFiniteSet(Handlers(u)')
  BY <1>2, HandlersStep
<1>5. answers[u] + a + b + c + n <= 1 + faults
  BY DEF AnswerInv
<1>6. answers'[u] + a2 + b2 + c2 + d2 + faults <= answers[u] + a + b + c + d + faults'
  BY DEF Part
<1>7. answers'[u] + a2 + b2 + c2 + n2 <= 1 + faults'
  <2> HIDE DEF a, a2, b, b2, c, c2, d, d2, n, n2
  <2> QED
    BY <1>1, <1>3, <1>4, <1>5, <1>6
<1> QED
  BY <1>4, <1>7

LEMMA FinishingStep ==
  ASSUME SectionInv, NEW w \in Loop, OthersStay(w), NEW u
  PROVE  /\ InSection(w) => (Finishing(u) <=> Finishes(w, u)) /\ (Finishing(u)' <=> Finishes(w, u)')
         /\ pc'[w] # "final" => (Finishing(u)' => Finishing(u))
<1>1. ASSUME NEW v \in Loop, v # w PROVE Finishes(v, u)' <=> Finishes(v, u)
  BY <1>1 DEF OthersStay, Stays, Finishes
<1>2. ASSUME NEW v \in Loop, v # w, InSection(w) PROVE ~Finishes(v, u)
  BY <1>2, Alone DEF Finishes, InSection, PlaceInSection
<1>3. ASSUME InSection(w)
      PROVE (Finishing(u) <=> Finishes(w, u)) /\ (Finishing(u)' <=> Finishes(w, u)')
  BY <1>1, <1>2, <1>3 DEF Finishing
<1>4. ASSUME pc'[w] # "final", Finishing(u)' PROVE Finishing(u)
  BY <1>1, <1>4 DEF Finishing, Finishes
<1> QED
  BY <1>3, <1>4

LEMMA FaultSteps ==
  ASSUME Inv, NEW kind
  PROVE  /\ NoFault => faults' = faults
         /\ Fault(kind) => faults' = faults + 1
         /\ faults \in Nat
BY ConstantsAssumption DEF NoFault, Fault, Inv, SharedOK

\* The message of u's flow that started it is the only one that Handles counts.
LEMMA ResponseHandles ==
  ASSUME NEW w, msg[w].kind = "resp", NEW u
  PROVE  ~Handles(w, u)
BY DEF Handles, UserMessage

\* What the handlers' steps that fail may change: one answer more, or one of the things
\* that may bring one.
LEMMA FailureParts ==
  ASSUME Inv, Inv', SectionInv, PhaseInv, NEW w \in Loop, OthersStay(w), NEW u \in User,
         RedisFails(w) \/ SaveReplyLost(w) \/ BrainFails(w) \/ PublishFails(w)
  PROVE  Part(w, u)' + faults <= Part(w, u) + faults'
<1>1. /\ InSection(w) /\ pc'[w] = "unlock" /\ verdict'[w] = "nak" /\ UNCHANGED <<msg, sent, stream>>
      /\ faults' = faults + 1 /\ faults \in Nat
  BY FaultSteps DEF RedisFails, SaveReplyLost, BrainFails, PublishFails, Return, Go,
       InSection, PlaceInSection, Inv, LocalInv, LocalOK
<1>2. Finishing(u)' => Finishing(u)
  BY <1>1, FinishingStep
<1>3. Unread(u)' <=> Unread(u)
  BY <1>1 DEF Unread
<1>4. answers \in [User -> Nat] /\ answers' \in [User -> Nat]
  BY DEF Inv, SharedOK
<1>5. CASE RedisFails(w) \/ BrainFails(w)
  <2>1. UNCHANGED <<answers, store>> /\ pc[w] \in {"load", "init", "fanin", "save", "turn"}
    BY <1>5 DEF RedisFails, BrainFails, redis, history
  <2>2. WaitingFor(u)' <=> WaitingFor(u)
    BY <2>1 DEF WaitingFor
  <2> QED
    BY <1>1, <1>2, <1>3, <1>4, <2>1, <2>2 DEF Part, One
<1>6. CASE SaveReplyLost(w)
  <2>1. UNCHANGED answers /\ pc[w] \in {"init", "fanin", "save"}
    BY <1>6 DEF SaveReplyLost
  <2>2. Handles(w, u)' => Handles(w, u)
    <3>1. pc[w] = "fanin" => ~Handles(w, u)'
      BY <1>1, UserMessageIs DEF PhaseInv, Phase, Handles, UserMessage
    <3> QED
      BY <1>1, <2>1, <3>1 DEF Handles
  <2> QED
    BY <1>1, <1>2, <1>3, <1>4, <2>1, <2>2 DEF Part, One
<1>7. CASE PublishFails(w) /\ pc[w] = "publish"
  <2>1. UNCHANGED <<answers, store>>
    BY <1>7 DEF PublishFails, redis
  <2>2. WaitingFor(u)' <=> WaitingFor(u)
    BY <2>1 DEF WaitingFor
  <2> QED
    BY <1>1, <1>2, <1>3, <1>4, <1>7, <2>1, <2>2 DEF Part, One
<1>8. CASE PublishFails(w) /\ pc[w] = "final"
  <2>1. UNCHANGED store /\ \E n \in {0, 1} : answers' = [answers EXCEPT ![st[w].orig] = @ + n]
    BY <1>8 DEF PublishFails, redis
  <2>2. WaitingFor(u)' <=> WaitingFor(u)
    BY <2>1 DEF WaitingFor
  <2>3. answers'[u] <= answers[u] + 1
    BY <1>4, <2>1
  <2>4. Handles(w, u)' => Handles(w, u)
    BY <1>1, <1>8 DEF Handles
  <2> QED
    BY <1>1, <1>2, <1>3, <1>4, <2>2, <2>3, <2>4 DEF Part, One
<1> QED
  BY <1>5, <1>6, <1>7, <1>8 DEF PublishFails

\* Steps between places where the handler still owes what it owed.
LEMMA SamePart ==
  ASSUME Inv, Inv', SectionInv, NEW w \in Loop, OthersStay(w), NEW u \in User,
         \/ AcquireLock(w) \/ LockFails(w) \/ Unlock(w)
         \/ AcceptResponse(w) \/ AcceptHandoff(w) \/ Finalize(w) \/ Delegate(w)
         \/ IgnoreResponse(w) \/ Publish(w)
  PROVE  Part(w, u)' + faults <= Part(w, u) + faults'
<1>1. /\ UNCHANGED <<msg, sent, stream, answers, store>>
      /\ faults' \in {faults, faults + 1} /\ faults \in Nat
  BY FaultSteps DEF AcquireLock, LockFails, Unlock, AcceptResponse, AcceptHandoff, Finalize, Delegate,
       DelegateTo, IgnoreResponse, Publish, redis, history
<1>2. pc'[w] # "final"
  BY DEF AcquireLock, LockFails, Unlock, AcceptResponse, AcceptHandoff, Finalize, Delegate,
       DelegateTo, IgnoreResponse, Publish, Return, Go, Inv, LocalInv, LocalOK
<1>3. Finishing(u)' => Finishing(u)
  BY <1>2, FinishingStep
<1>4. (Unread(u)' <=> Unread(u)) /\ (WaitingFor(u)' <=> WaitingFor(u))
  BY <1>1 DEF Unread, WaitingFor
<1>5. Handles(w, u)' => Handles(w, u)
  <2>1. CASE AcquireLock(w) \/ LockFails(w)
    BY <1>1, <2>1 DEF AcquireLock, LockFails, Handles
  <2>2. CASE Unlock(w)
    BY <1>1, <2>2 DEF Unlock, Go, Handles, Inv, LocalInv, LocalOK
  <2>3. CASE AcceptResponse(w) \/ AcceptHandoff(w)
    BY <1>1, <2>3, ResponseHandles DEF AcceptResponse, AcceptHandoff, Inv, LocalInv, LoopInv, Handles, UserMessage
  <2>4. CASE Finalize(w) \/ Delegate(w)
    BY <1>1, <2>4 DEF Finalize, Delegate, Handles
  <2>5. CASE IgnoreResponse(w) \/ Publish(w)
    <3>1. Return(w, "ack") \/ (UNCHANGED pc /\ pc[w] = "publish")
      BY <2>5 DEF IgnoreResponse, Publish
    <3>2. ~Handles(w, u)'
      BY <3>1 DEF Return, Go, Handles, Inv, LocalInv, LocalOK
    <3> QED
      BY <3>2
  <2> QED
    BY <2>1, <2>2, <2>3, <2>4, <2>5
<1>6. answers[u] \in Nat
  BY DEF Inv, SharedOK
<1> QED
  BY <1>1, <1>3, <1>4, <1>5, <1>6 DEF Part, One

\* A flow that starts again waits for nobody.
LEMMA InitFlowPart ==
  ASSUME Inv, Inv', SectionInv, NEW w \in Loop, OthersStay(w), NEW u \in User, InitFlow(w)
  PROVE  Part(w, u)' + faults <= Part(w, u) + faults'
<1>1. PICK cards \in {Cards, {}} :
        /\ store' = InitState(w, cards)
        /\ IF cards = Cards THEN NoFault ELSE Fault("cards")
  BY DEF InitFlow
<1>2. /\ UNCHANGED <<msg, sent, stream, answers>> /\ pc[w] = "init" /\ pc'[w] = "turn"
      /\ faults' \in {faults, faults + 1} /\ faults \in Nat
  BY <1>1, FaultSteps DEF InitFlow, Go, Inv, LocalInv, LocalOK
<1>3. ~WaitingFor(u)'
  BY <1>1 DEF WaitingFor, InitState
<1>4. Finishing(u)' => Finishing(u)
  BY <1>2, FinishingStep
<1>5. (Unread(u)' <=> Unread(u)) /\ (Handles(w, u)' <=> Handles(w, u))
  BY <1>2 DEF Unread, Handles
<1>6. answers[u] \in Nat
  BY DEF Inv, SharedOK
<1> QED
  BY <1>2, <1>3, <1>4, <1>5, <1>6 DEF Part, One

\* The saved state waits on behalf of the handler that saved it, which owes no more.
LEMMA SavePart ==
  ASSUME Inv, Inv', SectionInv, PhaseInv, NEW w \in Loop, OthersStay(w), NEW u \in User,
         SaveFanIn(w) \/ SaveWaiting(w)
  PROVE  Part(w, u)' + faults <= Part(w, u) + faults'
<1>1. /\ UNCHANGED <<msg, sent, stream, answers, faults>> /\ store' = st[w]
      /\ pc[w] \in {"fanin", "save"} /\ pc'[w] \in {"unlock", "publish"}
      /\ ~Handles(w, u)'
  BY DEF SaveFanIn, SaveWaiting, Return, Go, history, Handles, Inv, LocalInv, LocalOK
<1>2. Finishing(u)' => Finishing(u)
  BY <1>1, FinishingStep
<1>3. Unread(u)' <=> Unread(u)
  BY <1>1 DEF Unread
<1>4. st[w] \in State /\ st[w] # None /\ st[w].status = "waiting_spoke"
  BY <1>1, NoneAssumption DEF PhaseInv, Phase, Inv, LocalInv, LoopInv, Working
<1>5. WaitingFor(u)' <=> st[w].orig = u
  BY <1>1, <1>4 DEF WaitingFor
<1>6. msg[w] \in Message
  BY <1>1 DEF Inv, LocalInv, LoopInv
<1>7. CASE msg[w].kind = "resp"
  <2>1. WaitingFor(u) <=> st[w].orig = u
    BY <1>1, <1>7 DEF WaitingFor, PhaseInv, Phase
  <2> QED
    BY <1>1, <1>2, <1>3, <1>5, <2>1, FaultSteps DEF Part, One, Inv, SharedOK
<1>8. CASE msg[w].kind = "user"
  <2>1. pc[w] = "save" /\ st[w].orig = msg[w].id
    BY <1>1, <1>8 DEF PhaseInv, Phase
  <2>2. st[w].orig = u => Handles(w, u)
    <3>1. msg[w] = UserMessage(msg[w].id)
      BY <1>6, <1>8, UserMessageIs
    <3> QED
      BY <2>1, <3>1 DEF Handles
  <2> QED
    BY <1>1, <1>2, <1>3, <1>5, <2>2, FaultSteps DEF Part, One, Inv, SharedOK
<1> QED
  BY <1>6, <1>7, <1>8, UserMessageIs

\* A state that is cleared waits no more: its handler is about to answer.
LEMMA ClearPart ==
  ASSUME Inv, Inv', SectionInv, PhaseInv, NEW w \in Loop, OthersStay(w), NEW u \in User, Clear(w)
  PROVE  Part(w, u)' + faults <= Part(w, u) + faults'
<1>1. /\ UNCHANGED <<msg, sent, stream, answers, st>> /\ pc[w] = "clear" /\ pc'[w] = "final"
      /\ \/ store' = None /\ faults' = faults
         \/ UNCHANGED store /\ faults' = faults + 1
      /\ faults \in Nat /\ InSection(w)
  BY FaultSteps DEF Clear, Go, history, Inv, LocalInv, LocalOK, InSection, PlaceInSection
<1>2. (Unread(u)' <=> Unread(u)) /\ (Handles(w, u)' <=> Handles(w, u))
  BY <1>1 DEF Unread, Handles
<1>3. /\ Finishing(u) <=> Finishes(w, u)
      /\ Finishing(u)' <=> Finishes(w, u)'
  BY <1>1, FinishingStep
<1>4. Finishing(u)' => WaitingFor(u)
  BY <1>1, <1>3 DEF Finishes, WaitingFor, PhaseInv, Phase
<1>5. WaitingFor(u)' => WaitingFor(u) /\ faults' = faults + 1
  BY <1>1 DEF WaitingFor
<1>6. answers[u] \in Nat
  BY DEF Inv, SharedOK
<1> QED
  BY <1>1, <1>2, <1>4, <1>5, <1>6 DEF Part, One

\* The answer is published by the one that owed it.
LEMMA FinalPart ==
  ASSUME Inv, Inv', SectionInv, PhaseInv, NEW w \in Loop, OthersStay(w), NEW u \in User,
         PublishFinal(w)
  PROVE  Part(w, u)' + faults <= Part(w, u) + faults'
<1>1. /\ UNCHANGED <<msg, sent, stream, store, faults>> /\ pc[w] = "final" /\ pc'[w] = "unlock"
      /\ ~Handles(w, u)' /\ InSection(w) /\ faults \in Nat
      /\ answers' = [answers EXCEPT ![st[w].orig] = @ + 1]
  BY FaultSteps DEF PublishFinal, Return, Go, redis, Handles, Inv, LocalInv, LocalOK, InSection, PlaceInSection
<1>2. (Unread(u)' <=> Unread(u)) /\ (WaitingFor(u)' <=> WaitingFor(u))
  BY <1>1 DEF Unread, WaitingFor
<1>3. /\ Finishing(u) <=> Finishes(w, u)
      /\ ~Finishing(u)'
  BY <1>1, FinishingStep DEF Finishes
<1>4. msg[w] \in Message /\ answers \in [User -> Nat]
  BY <1>1 DEF Inv, SharedOK, LocalInv, LoopInv
<1>5. st[w].orig = u => Handles(w, u) \/ Finishing(u)
  BY <1>1, <1>3, <1>4, UserMessageIs DEF PhaseInv, Phase, Handles, Finishes
<1>6. answers'[u] = answers[u] + One(st[w].orig = u) /\ answers[u] \in Nat
  BY <1>1, <1>4 DEF One
<1> QED
  BY <1>1, <1>2, <1>3, <1>5, <1>6 DEF Part, One

LEMMA HandlePart ==
  ASSUME Inv, Inv', SectionInv, PhaseInv, NEW w \in Loop, NEW u \in User, Handle(w)
  PROVE  Part(w, u)' + faults <= Part(w, u) + faults'
<1>1. OthersStay(w)
  BY StepOfLoop
<1> QED
  BY <1>1, FailureParts, SamePart, InitFlowPart, SavePart, ClearPart, FinalPart DEF Handle

-----------------------------------------------------------------------------
(* The pull loops and the environment.                                     *)

\* An entry that is fetched is not ready any more, and it was the only one of its message.
LEMMA FetchPart ==
  ASSUME Inv, Inv', SectionInv, StreamInv, NEW w \in Loop, OthersStay(w), NEW u \in User, Fetch(w)
  PROVE  Part(w, u)' + faults <= Part(w, u) + faults'
<1> PICK e \in stream :
      /\ e.ready
      /\ stream' = (stream \ {e}) \cup {[e EXCEPT !.n = @ + 1, !.ready = FALSE]}
      /\ msg' = [msg EXCEPT ![w] = e.msg]
  BY DEF Fetch
<1>1. /\ UNCHANGED <<sent, answers, store, faults>> /\ pc[w] = "idle" /\ pc'[w] = "lock"
      /\ msg'[w] = e.msg /\ faults \in Nat
  BY FaultSteps DEF Fetch, redis, history, Go, Inv, LocalInv, LocalOK
<1>2. WaitingFor(u)' <=> WaitingFor(u)
  BY <1>1 DEF WaitingFor
<1>3. Finishing(u)' => Finishing(u)
  BY <1>1, FinishingStep
<1> DEFINE f == [e EXCEPT !.n = @ + 1, !.ready = FALSE]
<1>4. f.msg = e.msg /\ ~f.ready
  BY EntryIs, CountedEntry
<1> HIDE DEF f
<1>5. stream' = (stream \ {e}) \cup {f}
  BY DEF f
<1>6. ~Handles(w, u) /\ (Handles(w, u)' <=> e.msg = UserMessage(u))
  BY <1>1 DEF Handles
<1>7. CASE e.msg = UserMessage(u)
  <2>1. Unread(u)
    BY <1>7 DEF Unread
  <2>2. u \in sent
    BY <1>7 DEF StreamInv, UserMessage
  <2>3. ASSUME NEW g \in stream', g.ready, g.msg = UserMessage(u) PROVE FALSE
    <3>1. g \in stream /\ g # e
      BY <1>4, <1>5, <2>3
    <3> QED
      BY <1>7, <2>3, <3>1 DEF StreamInv, UserMessage
  <2>4. ~Unread(u)'
    BY <1>1, <2>2, <2>3 DEF Unread
  <2> QED
    BY <1>1, <1>2, <1>3, <1>6, <2>1, <2>4 DEF Part, One, Inv, SharedOK
<1>8. CASE e.msg # UserMessage(u)
  <2>1. Unread(u)' => Unread(u)
    BY <1>1, <1>4, <1>5, <1>8 DEF Unread
  <2> QED
    BY <1>1, <1>2, <1>3, <1>6, <1>8, <2>1 DEF Part, One, Inv, SharedOK
<1> QED
  BY <1>7, <1>8

LEMMA RedeliverUnread ==
  ASSUME Inv, NEW m, stream' = Redeliver(m), UNCHANGED sent, NEW u, m # UserMessage(u)
  PROVE  Unread(u)' => Unread(u)
BY RedeliverIs DEF Unread

\* A message that is given back was still owed an answer.
LEMMA SettlePart ==
  ASSUME Inv, Inv', SectionInv, NEW w \in Loop, OthersStay(w), NEW u \in User, Settle(w) \/ Crash(w)
  PROVE  Part(w, u)' + faults <= Part(w, u) + faults'
<1>1. /\ UNCHANGED <<sent, answers, store>> /\ pc[w] # "idle" /\ pc'[w] = "idle"
      /\ faults' \in {faults, faults + 1} /\ faults \in Nat /\ answers[u] \in Nat
  BY FaultSteps DEF Settle, Crash, Forget, redis, history, Go, Inv, LocalInv, LocalOK, SharedOK
<1>2. WaitingFor(u)' <=> WaitingFor(u)
  BY <1>1 DEF WaitingFor
<1>3. Finishing(u)' => Finishing(u)
  BY <1>1, FinishingStep
<1>4. ~Handles(w, u)'
  BY <1>1 DEF Handles
<1>5. CASE faults' = faults + 1
  BY <1>1, <1>2, <1>3, <1>4, <1>5 DEF Part, One
<1>6. CASE faults' = faults /\ stream' \subseteq stream
  <2>1. Unread(u)' => Unread(u)
    BY <1>1, <1>6 DEF Unread
  <2> QED
    BY <1>1, <1>2, <1>3, <1>4, <1>6, <2>1 DEF Part, One
<1>7. CASE pc[w] = "ack" /\ verdict[w] = "nak" /\ stream' = Redeliver(msg[w])
  <2>1. CASE msg[w] = UserMessage(u)
    <3>1. Handles(w, u)
      BY <1>7, <2>1 DEF Handles
    <3> QED
      BY <1>1, <1>2, <1>3, <1>4, <3>1 DEF Part, One
  <2>2. CASE msg[w] # UserMessage(u)
    <3>1. Unread(u)' => Unread(u)
      BY <1>1, <1>7, <2>2, RedeliverUnread
    <3> QED
      BY <1>1, <1>2, <1>3, <1>4, <3>1 DEF Part, One
  <2> QED
    BY <2>1, <2>2
<1> QED
  BY <1>5, <1>6, <1>7, FaultSteps DEF Settle, Crash

\* What happens without a loop moving: a message may come back, at the price of a failure.
LEMMA OutsidePart ==
  ASSUME Inv, Inv', AnswerInv, UNCHANGED <<pc, msg, st, verdict, store, answers>>, NEW u \in User,
         faults' \in {faults, faults + 1}, (Unread(u)' => Unread(u)) \/ faults' = faults + 1
  PROVE  /\ IsFiniteSet(Handlers(u)')
         /\ (answers[u] + One(WaitingFor(u)) + One(Finishing(u)) + One(Unread(u))
              + Cardinality(Handlers(u)))' <= 1 + faults'
<1>1. Handlers(u)' = Handlers(u) /\ IsFiniteSet(Handlers(u)) /\ Cardinality(Handlers(u)) \in Nat
  BY HandlersFrame, FS_CardinalityType DEF AnswerInv
<1>2. (Finishing(u)' <=> Finishing(u)) /\ (WaitingFor(u)' <=> WaitingFor(u))
  BY DEF Finishing, Finishes, WaitingFor
<1>3. /\ answers[u] + One(WaitingFor(u)) + One(Finishing(u)) + One(Unread(u))
           + Cardinality(Handlers(u)) <= 1 + faults
      /\ answers[u] \in Nat /\ faults \in Nat /\ UNCHANGED answers
  BY ConstantsAssumption DEF AnswerInv, Inv, SharedOK
<1>4. Cardinality(Handlers(u)') = Cardinality(Handlers(u))
  BY <1>1
<1> QED
  BY <1>1, <1>2, <1>3, <1>4 DEF One

LEMMA OutsideUnread ==
  ASSUME Inv, StreamInv, NEW u \in User,
         \/ UNCHANGED vars \/ FetchTimeout \/ LockExpires
         \/ \E x \in User : UserSends(x)
         \/ \E t \in tasks : SpokeAnswers(t) \/ SpokeFails(t)
         \/ \E w \in Loop : DeadLetter(w) \/ AckWaitExpires(w)
  PROVE  /\ UNCHANGED <<pc, msg, st, verdict, store, answers>> /\ faults' \in {faults, faults + 1}
         /\ (Unread(u)' => Unread(u)) \/ faults' = faults + 1
<1>1. /\ UNCHANGED <<pc, msg, st, verdict, store, answers>>
      /\ faults' \in {faults, faults + 1}
  BY FaultSteps DEF vars, redis, history, local, FetchTimeout, LockExpires, UserSends, SpokeAnswers, SpokeFails,
       DeadLetter, AckWaitExpires
<1>2. CASE UNCHANGED vars \/ FetchTimeout \/ LockExpires \/ \E t \in tasks : SpokeFails(t)
  BY <1>1, <1>2 DEF vars, FetchTimeout, LockExpires, SpokeFails, Unread
<1>3. ASSUME NEW x \in User, UserSends(x) PROVE Unread(u)' => Unread(u)
  <2>1. stream' = stream \cup {Published(UserMessage(x))} /\ sent' = sent \cup {x} /\ x \notin sent
    BY <1>3 DEF UserSends, UserMessage
  <2>2. Published(UserMessage(x)).msg = UserMessage(u) => x = u
    BY DEF Published, UserMessage
  <2> QED
    BY <2>1, <2>2 DEF Unread
<1>4. ASSUME NEW t \in tasks, SpokeAnswers(t) PROVE Unread(u)' => Unread(u)
  <2>1. PICK h \in Handoff \cup {None} :
          stream' = stream \cup {Published([kind |-> "resp", task |-> t, handoff |-> h])}
    BY <1>4 DEF SpokeAnswers
  <2>2. Published([kind |-> "resp", task |-> t, handoff |-> h]).msg # UserMessage(u)
    BY DEF Published, UserMessage
  <2>3. UNCHANGED sent
    BY <1>4 DEF SpokeAnswers
  <2> QED
    BY <2>1, <2>2, <2>3 DEF Unread
<1>5. ASSUME NEW w \in Loop, DeadLetter(w) PROVE (Unread(u)' => Unread(u))
  <2>1. PICK e \in stream : \/ stream' = stream \ {e}
                            \/ stream' = (stream \ {e}) \cup {[e EXCEPT !.n = @ + 1]}
    BY <1>5 DEF DeadLetter
  <2>2. [e EXCEPT !.n = @ + 1].msg = e.msg /\ [e EXCEPT !.n = @ + 1].ready = e.ready
    BY EntryIs, CountedEntry
  <2>3. UNCHANGED sent
    BY <1>5 DEF DeadLetter
  <2> QED
    BY <2>1, <2>2, <2>3 DEF Unread
<1>6. ASSUME NEW w \in Loop, AckWaitExpires(w) PROVE faults' = faults + 1
  BY <1>6, FaultSteps DEF AckWaitExpires
<1> QED
  BY <1>1, <1>2, <1>3, <1>4, <1>5, <1>6

LEMMA AnswerNext ==
  ASSUME Inv, Inv', SectionInv, PhaseInv, StreamInv, AnswerInv, [Next]_vars
  PROVE  AnswerInv'
<1> SUFFICES ASSUME NEW u \in User
             PROVE  /\ IsFiniteSet(Handlers(u)')
                    /\ (answers[u] + One(WaitingFor(u)) + One(Finishing(u)) + One(Unread(u))
                         + Cardinality(Handlers(u)))' <= 1 + faults'
  BY DEF AnswerInv
<1>1. CASE \/ UNCHANGED vars \/ FetchTimeout \/ LockExpires
           \/ \E x \in User : UserSends(x)
           \/ \E t \in tasks : SpokeAnswers(t) \/ SpokeFails(t)
           \/ \E w \in Loop : DeadLetter(w) \/ AckWaitExpires(w)
  BY <1>1, OutsideUnread, OutsidePart
<1>2. ASSUME NEW w \in Loop, Fetch(w) \/ Settle(w) \/ Crash(w) \/ Handle(w)
      PROVE  /\ IsFiniteSet(Handlers(u)')
             /\ (answers[u] + One(WaitingFor(u)) + One(Finishing(u)) + One(Unread(u))
                  + Cardinality(Handlers(u)))' <= 1 + faults'
  <2>1. OthersStay(w)
    BY <1>2, StepOfLoop
  <2>2. Part(w, u)' + faults <= Part(w, u) + faults'
    BY <1>2, <2>1, FetchPart, SettlePart, HandlePart
  <2> QED
    BY <2>1, <2>2, Balance
<1> QED
  BY <1>1, <1>2 DEF Next

\* When the work fits in the lock's TTL, every answer after the first to the same user
\* message costs a failure: with AnswerInv, one thing at most per failure can still bring
\* an answer, whatever the order of deliveries, handoffs, turns and redeliveries.
THEOREM DuplicatesNeedFailures == ASSUME ~Overrun PROVE Spec => []DuplicateNeedsFailure
<1>1. Init => AnswerInv
  <2> SUFFICES ASSUME Init, NEW u \in User
               PROVE  /\ IsFiniteSet(Handlers(u))
                      /\ answers[u] + One(WaitingFor(u)) + One(Finishing(u)) + One(Unread(u))
                           + Cardinality(Handlers(u)) <= 1 + faults
    BY DEF AnswerInv
  <2>1. Handlers(u) = {}
    BY DEF Init, Handlers, Handles
  <2>2. IsFiniteSet(Handlers(u)) /\ Cardinality(Handlers(u)) = 0
    BY <2>1, FS_EmptySet
  <2>3. ~WaitingFor(u) /\ ~Finishing(u) /\ answers[u] = 0 /\ faults = 0
    BY DEF Init, WaitingFor, Finishing, Finishes
  <2> QED
    BY <2>2, <2>3 DEF One
<1>2. AnswerInv /\ Inv => DuplicateNeedsFailure
  <2> SUFFICES ASSUME AnswerInv, Inv, NEW u \in User PROVE answers[u] <= 1 + faults
    BY DEF DuplicateNeedsFailure
  <2>1. Cardinality(Handlers(u)) \in Nat /\ answers[u] \in Nat /\ faults \in Nat
    BY FS_CardinalityType, ConstantsAssumption DEF AnswerInv, Inv, SharedOK
  <2>2. answers[u] + One(WaitingFor(u)) + One(Finishing(u)) + One(Unread(u))
          + Cardinality(Handlers(u)) <= 1 + faults
    BY DEF AnswerInv
  <2> QED
    BY <2>1, <2>2 DEF One
<1>3. Inv /\ Inv' /\ SectionInv /\ PhaseInv /\ StreamInv /\ AnswerInv /\ [Next]_vars => AnswerInv'
  BY AnswerNext
<1> QED
  BY <1>1, <1>2, <1>3, Invariance, SectionInvariance, PhaseInvariance, StreamInvariance, PTL DEF Spec

-----------------------------------------------------------------------------
(* The tasks of a thread, from the handler that numbers them to the        *)
(* responses.                                                              *)

Busy(w) == pc[w] # "idle"

Responding(w) == Busy(w) /\ msg[w].kind = "resp"

\* The tasks that w has still to publish are known to nobody else.
Fresh(w) ==
  \A k \in DOMAIN todo[w] :
    /\ todo[w][k].id < nextTask
    /\ \A t \in tasks : t.id # todo[w][k].id
    /\ \A e \in stream : e.msg.kind = "resp" => e.msg.task.id # todo[w][k].id
    /\ \A v \in Loop : Responding(v) => msg[v].task.id # todo[w][k].id
    /\ \A j \in DOMAIN todo[w] : todo[w][j].id = todo[w][k].id => j = k

\* A task is queued once, and answered once in each of its runs.
TaskInv ==
  /\ \A t \in tasks : t.id < nextTask
  /\ \A t, s \in tasks : t.id = s.id => t = s
  /\ \A e \in stream : e.msg.kind = "resp" =>
       /\ e.msg.task.id < nextTask
       /\ \A t \in tasks : e.msg.task.id = t.id => e.msg.task.copy < t.copy
  /\ \A e, f \in stream :
       e.msg.kind = "resp" /\ f.msg.kind = "resp" /\ e.msg.task = f.msg.task => e = f
  /\ \A w \in Loop : Responding(w) => msg[w].task.id < nextTask
  /\ \A w \in Loop : pc[w] \in {"save", "publish"} => Fresh(w)

\* No message has two entries, and none appears from nowhere.
UniqueInv == \A e, f \in stream : e.msg = f.msg => e = f

NoNewMessage == \A e \in stream' : \E f \in stream : e.msg = f.msg

LEMMA UniqueEntries ==
  ASSUME Inv, StreamInv, TaskInv
  PROVE  UniqueInv
<1>1. ASSUME NEW e \in stream, NEW f \in stream, e.msg = f.msg PROVE e = f
  <2>1. e.msg.kind \in {"user", "resp"}
    BY EntryIs, UserMessageIs
  <2> QED
    BY <1>1, <2>1 DEF StreamInv, TaskInv
<1> QED
  BY <1>1 DEF UniqueInv

LEMMA KeptMessages ==
  ASSUME Inv, UniqueInv,
         \/ stream' \subseteq stream
         \/ \E e \in stream : \E f : f.msg = e.msg /\ stream' = (stream \ {e}) \cup {f}
         \/ \E m : stream' = Redeliver(m)
  PROVE  UniqueInv' /\ NoNewMessage
<1>1. CASE stream' \subseteq stream
  BY <1>1 DEF UniqueInv, NoNewMessage
<1>2. CASE \E e \in stream : \E f : f.msg = e.msg /\ stream' = (stream \ {e}) \cup {f}
  <2>1. PICK e \in stream : \E f : f.msg = e.msg /\ stream' = (stream \ {e}) \cup {f}
    BY <1>2
  <2> QED
    BY <2>1 DEF UniqueInv, NoNewMessage
<1>3. CASE \E m : stream' = Redeliver(m)
  <2>1. PICK m : stream' = Redeliver(m)
    BY <1>3
  <2>2. NoNewMessage
    BY <2>1, RedeliverIs DEF NoNewMessage
  <2>3. ASSUME NEW e \in stream', NEW f \in stream', e.msg = f.msg PROVE e = f
    <3>1. CASE e.msg = m
      <4>1. PICK e0 \in stream : e0.msg = m /\ e = [e0 EXCEPT !.ready = TRUE]
        BY <2>1, <3>1, RedeliverIs
      <4>2. PICK f0 \in stream : f0.msg = m /\ f = [f0 EXCEPT !.ready = TRUE]
        BY <2>1, <2>3, <3>1, RedeliverIs
      <4>3. e0 = f0
        BY <4>1, <4>2 DEF UniqueInv
      <4> QED
        BY <4>1, <4>2, <4>3
    <3>2. CASE e.msg # m
      BY <2>1, <2>3, <3>2, RedeliverIs DEF UniqueInv
    <3> QED
      BY <3>1, <3>2
  <2> QED
    BY <2>2, <2>3 DEF UniqueInv
<1> QED
  BY <1>1, <1>2, <1>3

\* How the server's part of Fetch, DeadLetter, AckWaitExpires, Settle and Crash changes
\* the stream.
LEMMA ServerStep ==
  ASSUME Inv, UniqueInv, NEW w \in Loop,
         Fetch(w) \/ DeadLetter(w) \/ AckWaitExpires(w) \/ Settle(w) \/ Crash(w)
  PROVE  UniqueInv' /\ NoNewMessage
<1>1. CASE Fetch(w)
  <2>1. PICK e \in stream : stream' = (stream \ {e}) \cup {[e EXCEPT !.n = @ + 1, !.ready = FALSE]}
    BY <1>1 DEF Fetch
  <2> QED
    BY <2>1, EntryIs, CountedEntry, KeptMessages
<1>2. CASE DeadLetter(w)
  <2>1. PICK e \in stream : \/ stream' = stream \ {e}
                            \/ stream' = (stream \ {e}) \cup {[e EXCEPT !.n = @ + 1]}
    BY <1>2 DEF DeadLetter
  <2>2. CASE stream' = stream \ {e}
    BY <2>2, KeptMessages
  <2>3. CASE stream' = (stream \ {e}) \cup {[e EXCEPT !.n = @ + 1]}
    BY <2>3, EntryIs, CountedEntry, KeptMessages
  <2> QED
    BY <2>1, <2>2, <2>3
<1>3. CASE AckWaitExpires(w)
  <2>1. PICK e \in stream : stream' = (stream \ {e}) \cup {[e EXCEPT !.ready = TRUE]}
    BY <1>3 DEF AckWaitExpires
  <2> QED
    BY <2>1, EntryIs, ReadyEntry, KeptMessages
<1>4. CASE Settle(w) \/ Crash(w)
  <2>1. stream' = stream \ Unsettled(msg[w]) \/ stream' = Redeliver(msg[w])
    BY <1>4 DEF Settle, Crash
  <2>2. CASE stream' = stream \ Unsettled(msg[w])
    BY <2>2, KeptMessages
  <2>3. CASE stream' = Redeliver(msg[w])
    BY <2>3, KeptMessages
  <2> QED
    BY <2>1, <2>2, <2>3
<1> QED
  BY <1>1, <1>2, <1>3, <1>4

\* Steps that number no task, and after which no loop handles or publishes more.
LEMMA TaskFrame ==
  ASSUME TaskInv, UniqueInv', NoNewMessage, tasks' \subseteq tasks, UNCHANGED nextTask,
         \A v \in Loop : Responding(v)' =>
           \/ Responding(v) /\ msg'[v] = msg[v]
           \/ \E e \in stream : e.msg = msg'[v],
         \A v \in Loop : pc'[v] \in {"save", "publish"} =>
           pc[v] \in {"save", "publish"} /\ todo'[v] = todo[v]
  PROVE  TaskInv'
<1>1. ASSUME NEW v \in Loop, Responding(v)'
      PROVE  \/ Responding(v) /\ msg'[v] = msg[v]
             \/ \E e \in stream : e.msg = msg'[v] /\ e.msg.kind = "resp"
  BY <1>1 DEF Responding
<1>2. ASSUME NEW e \in stream', e.msg.kind = "resp"
      PROVE  \E f \in stream : f.msg = e.msg /\ f.msg.kind = "resp"
  BY <1>2 DEF NoNewMessage
<1>3. \A w \in Loop : Responding(w)' => msg'[w].task.id < nextTask'
  BY <1>1 DEF TaskInv
<1>4. ASSUME NEW w \in Loop, pc'[w] \in {"save", "publish"} PROVE Fresh(w)'
  <2>1. Fresh(w) /\ todo'[w] = todo[w]
    BY <1>4 DEF TaskInv
  <2> QED
    BY <1>1, <1>2, <2>1 DEF Fresh
<1>5. ASSUME NEW e \in stream', NEW f \in stream', e.msg.kind = "resp", f.msg.kind = "resp",
             e.msg.task = f.msg.task
      PROVE  e = f
  <2>1. PICK e0 \in stream : e0.msg = e.msg
    BY <1>2, <1>5
  <2>2. PICK f0 \in stream : f0.msg = f.msg
    BY <1>2, <1>5
  <2>3. e0 = f0
    BY <1>5, <2>1, <2>2 DEF TaskInv
  <2> QED
    BY <2>1, <2>2, <2>3 DEF UniqueInv
<1>6. ASSUME NEW e \in stream', e.msg.kind = "resp"
      PROVE  /\ e.msg.task.id < nextTask'
             /\ \A t \in tasks' : e.msg.task.id = t.id => e.msg.task.copy < t.copy
  BY <1>2, <1>6 DEF TaskInv
<1>7. /\ \A t \in tasks' : t.id < nextTask'
      /\ \A t, s \in tasks' : t.id = s.id => t = s
  BY DEF TaskInv
<1> QED
  BY <1>3, <1>4, <1>5, <1>6, <1>7 DEF TaskInv

LEMMA SpokeAnswersTask ==
  ASSUME Inv, TaskInv, NEW t \in tasks, SpokeAnswers(t)
  PROVE  TaskInv'
<1>1. PICK h \in Handoff \cup {None} :
        stream' = stream \cup {Published([kind |-> "resp", task |-> t, handoff |-> h])}
  BY DEF SpokeAnswers
<1> DEFINE new == Published([kind |-> "resp", task |-> t, handoff |-> h])
           again == [t EXCEPT !.copy = 2]
<1>2. new.msg.kind = "resp" /\ new.msg.task = t
  BY DEF Published
<1>3. UNCHANGED <<nextTask, pc, msg, todo>>
  BY DEF SpokeAnswers, local
<1>4. t \in Task /\ t.copy \in {1, 2} /\ again.id = t.id /\ again.copy = 2
  BY DEF Inv, SharedOK, Task
<1>5. \/ tasks' = tasks \ {t}
      \/ t.copy = 1 /\ tasks' = (tasks \ {t}) \cup {again}
  BY DEF SpokeAnswers
<1>6. ASSUME NEW s \in tasks' PROVE \/ s \in tasks /\ s # t
                                    \/ s = again /\ t.copy = 1
  BY <1>5
<1>7. ASSUME NEW e \in stream' PROVE e \in stream \/ e = new
  BY <1>1
<1> HIDE DEF new, again
<1>8. \A s \in tasks' : s.id < nextTask'
  BY <1>3, <1>4, <1>6 DEF TaskInv
<1>9. \A s, r \in tasks' : s.id = r.id => s = r
  BY <1>4, <1>6 DEF TaskInv
<1>10. ASSUME NEW e \in stream', e.msg.kind = "resp"
       PROVE  /\ e.msg.task.id < nextTask'
              /\ \A s \in tasks' : e.msg.task.id = s.id => e.msg.task.copy < s.copy
  <2>1. CASE e \in stream
    <3>1. e.msg.task.id = t.id => e.msg.task.copy < t.copy
      BY <1>10, <2>1 DEF TaskInv
    <3>2. e.msg.task \in Task /\ e.msg.task.copy \in {1, 2}
      BY <1>10, <2>1, EntryIs, UserMessageIs DEF Task
    <3> QED
      BY <1>3, <1>4, <1>6, <1>10, <2>1, <3>1, <3>2 DEF TaskInv
  <2>2. CASE e = new
    BY <1>2, <1>3, <1>4, <1>6, <2>2 DEF TaskInv
  <2> QED
    BY <1>7, <2>1, <2>2
<1>11. ASSUME NEW e \in stream', NEW f \in stream', e.msg.kind = "resp", f.msg.kind = "resp",
              e.msg.task = f.msg.task
       PROVE  e = f
  <2>1. ASSUME NEW d \in stream, d.msg.kind = "resp" PROVE d.msg.task # t
    BY <1>4, <2>1 DEF TaskInv
  <2> QED
    BY <1>2, <1>7, <1>11, <2>1 DEF TaskInv
<1>12. \A w \in Loop : Responding(w)' => msg'[w].task.id < nextTask'
  BY <1>3 DEF TaskInv, Responding, Busy
<1>13. ASSUME NEW w \in Loop, pc'[w] \in {"save", "publish"} PROVE Fresh(w)'
  <2>1. Fresh(w)
    BY <1>3, <1>13 DEF TaskInv
  <2> QED
    BY <1>2, <1>3, <1>4, <1>6, <1>7, <2>1 DEF Fresh, Responding, Busy
<1> QED
  BY <1>8, <1>9, <1>10, <1>11, <1>12, <1>13 DEF TaskInv

\* Tasks that a handler numbers are new to everybody.
LEMMA NumberTasks ==
  ASSUME Inv, TaskInv, SectionInv, NEW w \in Loop, OthersStay(w), InSection(w),
         UNCHANGED <<stream, tasks, msg>>, nextTask' \in Nat, nextTask <= nextTask',
         \A k \in DOMAIN todo'[w] : /\ todo'[w][k].id \in Nat
                                    /\ nextTask <= todo'[w][k].id /\ todo'[w][k].id < nextTask'
                                    /\ \A j \in DOMAIN todo'[w] : todo'[w][j].id = todo'[w][k].id => j = k
  PROVE  TaskInv'
<1>1. nextTask \in Nat
  BY DEF Inv, SharedOK
<1>2. /\ \A t \in tasks : t.id \in Nat
      /\ \A e \in stream : e.msg.kind = "resp" => e.msg.task.id \in Nat
      /\ \A v \in Loop : Responding(v) => msg[v].task.id \in Nat
  <2>1. ASSUME NEW e \in stream, e.msg.kind = "resp" PROVE e.msg.task.id \in Nat
    BY <2>1, EntryIs, UserMessageIs DEF Task
  <2>2. ASSUME NEW v \in Loop, Responding(v) PROVE msg[v].task.id \in Nat
    BY <2>2, UserMessageIs DEF Responding, Busy, Task, Inv, LocalInv, LoopInv
  <2>3. \A t \in tasks : t.id \in Nat
    BY DEF Inv, SharedOK, Task
  <2> QED
    BY <2>1, <2>2, <2>3
<1>3. \A v \in Loop : Responding(v)' => Responding(v)
  <2>1. pc[w] # "idle"
    BY DEF InSection, PlaceInSection
  <2> QED
    BY <2>1 DEF OthersStay, Stays, Responding, Busy
<1>4. Fresh(w)'
  BY <1>1, <1>2, <1>3 DEF Fresh, TaskInv
<1>5. ASSUME NEW v \in Loop, v # w, pc'[v] \in {"save", "publish"} PROVE FALSE
  <2>1. InSection(v)
    BY <1>5 DEF OthersStay, Stays, InSection, PlaceInSection
  <2> QED
    BY <1>5, <2>1, Alone
<1> QED
  BY <1>1, <1>2, <1>3, <1>4, <1>5 DEF TaskInv

\* A task that is published leaves the handler's list.
LEMMA PublishTask ==
  ASSUME Inv, TaskInv, SectionInv, NEW w \in Loop, OthersStay(w), pc[w] = "publish",
         UNCHANGED <<stream, nextTask, msg>>,
         tasks' \subseteq tasks \cup {Head(todo[w])},
         pc'[w] = "publish" => todo'[w] = Tail(todo[w]),
         pc'[w] \in {"publish", "unlock"}
  PROVE  TaskInv'
<1>1. todo[w] \in Seq(Task) /\ todo[w] # <<>> /\ Len(todo[w]) \in Nat /\ 1 \in DOMAIN todo[w]
      /\ Head(todo[w]) = todo[w][1]
  <2>1. todo[w] \in Seq(Task) /\ todo[w] # <<>>
    BY DEF Inv, LocalInv, LocalOK, LoopInv
  <2> QED
    BY <2>1
<1>2. Fresh(w)
  BY DEF TaskInv
<1> DEFINE t0 == todo[w][1]
<1>3. /\ t0 \in Task /\ t0.id < nextTask
      /\ \A t \in tasks : t.id # t0.id
      /\ \A e \in stream : e.msg.kind = "resp" => e.msg.task.id # t0.id
  BY <1>1, <1>2 DEF Fresh
<1>4. ASSUME NEW t \in tasks' PROVE t \in tasks \/ t = t0
  BY <1>1
<1> HIDE DEF t0
<1>5. \A v \in Loop : Responding(v)' => Responding(v)
  BY DEF OthersStay, Stays, Responding, Busy
<1>6. ASSUME NEW v \in Loop, pc'[v] \in {"save", "publish"} PROVE v = w /\ pc'[w] = "publish"
  <2>1. InSection(w)
    BY DEF InSection, PlaceInSection
  <2>2. v # w => ~InSection(v)
    BY <2>1, Alone
  <2> QED
    BY <1>6, <2>2 DEF OthersStay, Stays, InSection, PlaceInSection
<1>7. ASSUME pc'[w] = "publish" PROVE Fresh(w)'
  <2>1. /\ DOMAIN Tail(todo[w]) = 1..(Len(todo[w]) - 1)
        /\ \A k \in 1..(Len(todo[w]) - 1) : Tail(todo[w])[k] = todo[w][k + 1]
        /\ DOMAIN todo[w] = 1..Len(todo[w])
    BY <1>1
  <2>2. ASSUME NEW k \in DOMAIN todo'[w]
        PROVE  /\ k \in Nat /\ k + 1 \in DOMAIN todo[w] /\ todo'[w][k] = todo[w][k + 1] /\ k + 1 # 1
    <3>1. todo'[w] = Tail(todo[w])
      BY <1>7
    <3>2. k \in 1..(Len(todo[w]) - 1) /\ todo'[w][k] = todo[w][k + 1]
      BY <2>1, <3>1
    <3>3. k \in Nat /\ k + 1 \in 1..Len(todo[w]) /\ k + 1 # 1
      BY <1>1, <3>2
    <3> QED
      BY <2>1, <3>2, <3>3
  <2>3. ASSUME NEW k \in DOMAIN todo'[w], NEW t \in tasks' PROVE t.id # todo'[w][k].id
    <3>1. CASE t \in tasks
      BY <1>2, <2>2, <3>1 DEF Fresh
    <3>2. CASE t = t0
      BY <1>1, <1>2, <2>2, <3>2 DEF Fresh, t0
    <3> QED
      BY <1>4, <3>1, <3>2
  <2>4. ASSUME NEW k \in DOMAIN todo'[w], NEW j \in DOMAIN todo'[w], todo'[w][j].id = todo'[w][k].id
        PROVE  j = k
    <3>1. j + 1 = k + 1
      BY <1>2, <2>2, <2>4 DEF Fresh
    <3> QED
      BY <2>2, <3>1
  <2> QED
    BY <1>2, <1>5, <2>2, <2>3, <2>4 DEF Fresh
<1> QED
  BY <1>3, <1>4, <1>5, <1>6, <1>7 DEF TaskInv

LEMMA NextTaskTyped == ASSUME Inv PROVE nextTask \in Nat /\ nextTask >= 1 /\ MaxTasks \in Nat
BY ConstantsAssumption DEF Inv, SharedOK

LEMMA HandleKeepsMessage ==
  ASSUME NEW w, Handle(w)
  PROVE  UNCHANGED <<msg, stream, sent, dlq>> /\ pc[w] # "idle"
BY DEF Handle, AcquireLock, LockFails, InitFlow, RedisFails, SaveReplyLost, IgnoreResponse,
       AcceptResponse, AcceptHandoff, SaveFanIn, Finalize, Delegate, DelegateTo, BrainFails,
       SaveWaiting, Publish, PublishFails, Clear, PublishFinal, Unlock

\* What a list of delegations hands to the publisher.
LEMMA DelegatedTodo ==
  ASSUME Inv, NEW w \in Loop, NEW list \in Delegations, DelegateTo(w, list)
  PROVE  /\ list \in Seq(Spoke \cup Ghost) /\ Len(list) \in Nat /\ Len(list) > 0
         /\ DOMAIN list = 1..Len(list)
         /\ DOMAIN todo'[w] = 1..Len(list)
         /\ \A k \in 1..Len(list) : /\ todo'[w][k].id = nextTask + k - 1
                                    /\ todo'[w][k].spoke = list[k]
                                    /\ todo'[w][k].copy = 1
         /\ nextTask' = nextTask + Len(list)
<1>1. list \in Seq(Spoke \cup Ghost) /\ list # <<>>
  BY ConstantsAssumption
<1>2. Len(list) \in Nat /\ Len(list) > 0 /\ DOMAIN list = 1..Len(list)
  BY <1>1
<1>3. todo'[w] = [k \in DOMAIN list |-> TaskOf(list, k, st[w].orig)]
  BY DEF DelegateTo, Inv, LocalInv, LocalOK
<1> QED
  BY <1>1, <1>2, <1>3 DEF DelegateTo, TaskOf

\* What a handoff hands to the publisher.
LEMMA HandoffTodo ==
  ASSUME Inv, NEW w \in Loop, AcceptHandoff(w)
  PROVE  /\ DOMAIN todo'[w] = {1}
         /\ todo'[w][1].id = nextTask /\ todo'[w][1].spoke = msg[w].handoff
         /\ todo'[w][1].copy = 1
         /\ nextTask' = nextTask + 1 /\ msg[w].handoff \in Handoff
         /\ msg[w] \in Message /\ msg[w].kind = "resp"
<1>1. todo'[w] = <<[id |-> nextTask, spoke |-> msg[w].handoff, copy |-> 1, flow |-> store.orig]>>
  BY DEF AcceptHandoff, Inv, LocalInv, LocalOK
<1>2. msg[w] \in Message /\ msg[w].kind = "resp"
  BY DEF AcceptHandoff, Inv, LocalInv, LoopInv
<1> QED
  BY <1>1, <1>2 DEF AcceptHandoff, Message

\* The steps of a handler that neither number nor publish tasks.
OtherSteps(w) ==
  \/ AcquireLock(w) \/ LockFails(w) \/ InitFlow(w) \/ RedisFails(w) \/ SaveReplyLost(w)
  \/ IgnoreResponse(w) \/ AcceptResponse(w) \/ SaveFanIn(w)
  \/ Finalize(w) \/ BrainFails(w) \/ SaveWaiting(w)
  \/ (PublishFails(w) /\ pc[w] = "final")
  \/ Clear(w) \/ PublishFinal(w) \/ Unlock(w)

LEMMA OtherStep ==
  ASSUME Inv, NEW w \in Loop, OtherSteps(w)
  PROVE  /\ UNCHANGED <<tasks, nextTask>>
         /\ pc'[w] \in {"save", "publish"} => /\ pc[w] = "save" /\ pc'[w] = "publish"
                                              /\ todo'[w] = todo[w] /\ store' = st[w]
<1>0. LocalOK
  BY DEF Inv, LocalInv
<1>1. CASE \/ RedisFails(w) \/ SaveReplyLost(w) \/ IgnoreResponse(w) \/ SaveFanIn(w)
           \/ BrainFails(w) \/ (PublishFails(w) /\ pc[w] = "final") \/ PublishFinal(w)
  BY <1>0, <1>1 DEF LocalOK, RedisFails, SaveReplyLost, IgnoreResponse,
       SaveFanIn, BrainFails, PublishFails, PublishFinal, Return, Go
<1>2. CASE \/ AcquireLock(w) \/ LockFails(w) \/ Unlock(w) \/ Clear(w) \/ SaveWaiting(w)
  BY <1>0, <1>2 DEF LocalOK, AcquireLock, LockFails, Unlock, Clear, SaveWaiting, Go
<1>3. CASE InitFlow(w) \/ AcceptResponse(w) \/ Finalize(w)
  BY <1>0, <1>3 DEF LocalOK, InitFlow, AcceptResponse, Finalize, Go
<1> QED
  BY <1>1, <1>2, <1>3 DEF OtherSteps

LEMMA HandleIs ==
  ASSUME NEW w, Handle(w)
  PROVE  \/ OtherSteps(w) \/ AcceptHandoff(w) \/ Delegate(w)
         \/ Publish(w) \/ (PublishFails(w) /\ pc[w] = "publish")
BY DEF Handle, OtherSteps, PublishFails

LEMMA PublishSteps ==
  ASSUME Inv, NEW w \in Loop, Publish(w) \/ (PublishFails(w) /\ pc[w] = "publish")
  PROVE  /\ pc[w] = "publish" /\ UNCHANGED <<nextTask, store>>
         /\ tasks \subseteq tasks' /\ tasks' \subseteq tasks \cup {Head(todo[w])}
         /\ pc'[w] \in {"publish", "unlock"}
         /\ pc'[w] = "publish" => todo'[w] = Tail(todo[w]) /\ Head(todo[w]) \in tasks'
         /\ pc'[w] = "unlock" /\ verdict'[w] = "ack" => Len(todo[w]) = 1 /\ Head(todo[w]) \in tasks'
<1>0. LocalOK
  BY DEF Inv, LocalInv
<1>1. CASE Publish(w)
  BY <1>0, <1>1 DEF LocalOK, Publish, Return, Go, redis
<1>2. CASE PublishFails(w) /\ pc[w] = "publish"
  BY <1>0, <1>2 DEF LocalOK, PublishFails, Return, Go, redis
<1> QED
  BY <1>1, <1>2

LEMMA HandleTask ==
  ASSUME Inv, StreamInv, TaskInv, SectionInv, NEW w \in Loop, Handle(w)
  PROVE  TaskInv'
<1>1. UNCHANGED <<msg, stream>> /\ pc[w] # "idle" /\ OthersStay(w) /\ UniqueInv
  BY HandleKeepsMessage, StepOfLoop, UniqueEntries
<1>2. CASE OtherSteps(w)
  <2>1. UniqueInv' /\ NoNewMessage
    BY <1>1 DEF UniqueInv, NoNewMessage
  <2>2. \A v \in Loop : Responding(v)' => Responding(v) /\ msg'[v] = msg[v]
    BY <1>1 DEF OthersStay, Stays, Responding, Busy
  <2>3. \A v \in Loop : pc'[v] \in {"save", "publish"} =>
          pc[v] \in {"save", "publish"} /\ todo'[v] = todo[v]
    BY <1>1, <1>2, OtherStep DEF OthersStay, Stays
  <2> QED
    BY <1>2, <2>1, <2>2, <2>3, TaskFrame, OtherStep
<1>3. CASE AcceptHandoff(w)
  <2>1. InSection(w) /\ UNCHANGED tasks
    BY <1>3 DEF AcceptHandoff, InSection, PlaceInSection
  <2> QED
    BY <1>1, <1>3, <2>1, HandoffTodo, NextTaskTyped, NumberTasks
<1>4. CASE Delegate(w)
  <2>1. PICK list \in Delegations : DelegateTo(w, list)
    BY <1>4 DEF Delegate
  <2>2. InSection(w) /\ UNCHANGED tasks
    BY <1>4, <2>1 DEF Delegate, DelegateTo, InSection, PlaceInSection
  <2>3. Len(list) \in Nat /\ Len(list) > 0 /\ nextTask' = nextTask + Len(list) /\ nextTask \in Nat
        /\ DOMAIN todo'[w] = 1..Len(list)
        /\ \A k \in 1..Len(list) : todo'[w][k].id = nextTask + k - 1
    BY <2>1, DelegatedTodo, NextTaskTyped
  <2>4. nextTask' \in Nat /\ nextTask <= nextTask'
    BY <2>3
  <2>5. ASSUME NEW k \in DOMAIN todo'[w]
        PROVE  /\ todo'[w][k].id \in Nat
               /\ nextTask <= todo'[w][k].id /\ todo'[w][k].id < nextTask'
               /\ \A j \in DOMAIN todo'[w] : todo'[w][j].id = todo'[w][k].id => j = k
    <3>1. k \in 1..Len(list) /\ todo'[w][k].id = nextTask + k - 1
      BY <2>3
    <3>2. ASSUME NEW j \in DOMAIN todo'[w], todo'[w][j].id = todo'[w][k].id PROVE j = k
      <4>1. j \in 1..Len(list) /\ todo'[w][j].id = nextTask + j - 1
        BY <2>3
      <4> QED
        BY <2>3, <3>1, <3>2, <4>1
    <3> QED
      BY <2>3, <3>1, <3>2
  <2> QED
    BY <1>1, <2>2, <2>4, <2>5, NumberTasks
<1>5. CASE Publish(w) \/ (PublishFails(w) /\ pc[w] = "publish")
  BY <1>1, <1>5, PublishSteps, PublishTask
<1> QED
  BY <1>2, <1>3, <1>4, <1>5, HandleIs

LEMMA TaskNext ==
  ASSUME Inv, StreamInv, TaskInv, SectionInv, [Next]_vars
  PROVE  TaskInv'
<1>0. UniqueInv
  BY UniqueEntries
<1>1. CASE UNCHANGED vars \/ FetchTimeout \/ LockExpires \/ \E t \in tasks : SpokeFails(t)
  <2>1. UNCHANGED <<stream, nextTask, pc, msg, todo>> /\ tasks' \subseteq tasks
    BY <1>1 DEF vars, local, FetchTimeout, LockExpires, SpokeFails
  <2>2. UniqueInv' /\ NoNewMessage
    BY <1>0, <2>1 DEF UniqueInv, NoNewMessage
  <2> QED
    BY <2>1, <2>2, TaskFrame DEF Responding, Busy
<1>2. ASSUME NEW u \in User, UserSends(u) PROVE TaskInv'
  <2>1. /\ UNCHANGED <<tasks, nextTask, pc, msg, todo>>
        /\ stream' = stream \cup {Published(UserMessage(u))}
    BY <1>2 DEF UserSends, UserMessage, local
  <2>2. Published(UserMessage(u)).msg.kind = "user"
    BY DEF Published, UserMessage
  <2>3. ASSUME NEW e \in stream', e.msg.kind = "resp" PROVE e \in stream
    BY <2>1, <2>2, <2>3
  <2>4. \A v \in Loop : Responding(v)' <=> Responding(v)
    BY <2>1 DEF Responding, Busy
  <2>5. \A v \in Loop : Fresh(v) => Fresh(v)'
    BY <2>1, <2>3, <2>4 DEF Fresh
  <2> QED
    BY <2>1, <2>3, <2>4, <2>5 DEF TaskInv
<1>3. ASSUME NEW t \in tasks, SpokeAnswers(t) PROVE TaskInv'
  BY <1>3, SpokeAnswersTask
<1>4. ASSUME NEW w \in Loop, Fetch(w) \/ DeadLetter(w) \/ AckWaitExpires(w) \/ Settle(w) \/ Crash(w)
      PROVE  TaskInv'
  <2>1. UniqueInv' /\ NoNewMessage
    BY <1>0, <1>4, ServerStep
  <2>2. UNCHANGED <<tasks, nextTask>>
    BY <1>4 DEF Fetch, DeadLetter, AckWaitExpires, Settle, Crash
  <2>3. CASE DeadLetter(w) \/ AckWaitExpires(w)
    <3>1. UNCHANGED <<pc, msg, todo>>
      BY <2>3 DEF DeadLetter, AckWaitExpires, local
    <3> QED
      BY <2>1, <2>2, <3>1, TaskFrame DEF Responding, Busy
  <2>4. CASE Fetch(w)
    <3>1. OthersStay(w) /\ pc'[w] = "lock" /\ \E e \in stream : e.msg = msg'[w]
      BY <2>4, StepOfLoop DEF Fetch, Go, Inv, LocalInv, LocalOK
    <3> QED
      BY <2>1, <2>2, <3>1, TaskFrame DEF OthersStay, Stays, Responding, Busy
  <2>5. CASE Settle(w) \/ Crash(w)
    <3>1. OthersStay(w) /\ pc'[w] = "idle"
      BY <2>5, StepOfLoop DEF Settle, Crash, Forget, Go, Inv, LocalInv, LocalOK
    <3> QED
      BY <2>1, <2>2, <3>1, TaskFrame DEF OthersStay, Stays, Responding, Busy
  <2> QED
    BY <1>4, <2>3, <2>4, <2>5
<1>5. ASSUME NEW w \in Loop, Handle(w) PROVE TaskInv'
  BY <1>5, HandleTask
<1> QED
  BY <1>1, <1>2, <1>3, <1>4, <1>5 DEF Next

LEMMA TaskInvariance == ASSUME ~Overrun PROVE Spec => []TaskInv
<1>1. Init => TaskInv
  BY DEF Init, TaskInv, Responding, Busy
<1> QED
  BY <1>1, TaskNext, Invariance, StreamInvariance, SectionInvariance, PTL DEF Spec

-----------------------------------------------------------------------------
(* One handler for every message.                                          *)

\* Unless AckWait runs out on a handler, its message stays in the stream, out of
\* the reach of the other loops.
HandlerInv ==
  /\ \A w \in Loop : Busy(w) => \E e \in stream : e.msg = msg[w] /\ ~e.ready
  /\ \A v, w \in Loop : Busy(v) /\ Busy(w) /\ msg[v] = msg[w] => v = w

LEMMA NoSuchFault ==
  ASSUME NEW kind, kind \notin Faults
  PROVE  ~Fault(kind)
BY DEF Fault

LEMMA HandlerNext ==
  ASSUME Inv, UniqueInv, HandlerInv, "slow" \notin Faults, [Next]_vars
  PROVE  HandlerInv'
<1>1. CASE UNCHANGED <<pc, msg>> /\ stream \subseteq stream'
  BY <1>1 DEF HandlerInv, Busy
<1>2. CASE \/ UNCHANGED vars \/ FetchTimeout \/ LockExpires
           \/ \E u \in User : UserSends(u)
           \/ \E t \in tasks : SpokeAnswers(t) \/ SpokeFails(t)
  <2>1. UNCHANGED <<pc, msg>> /\ stream \subseteq stream'
    BY <1>2 DEF vars, local, FetchTimeout, LockExpires, UserSends, SpokeAnswers, SpokeFails
  <2> QED
    BY <1>1, <2>1
<1>3. ASSUME NEW w \in Loop, Fetch(w) PROVE HandlerInv'
  <2>1. PICK e \in stream : /\ e.ready /\ msg' = [msg EXCEPT ![w] = e.msg]
                            /\ stream' = (stream \ {e}) \cup {[e EXCEPT !.n = @ + 1, !.ready = FALSE]}
    BY <1>3 DEF Fetch
  <2>2. /\ [e EXCEPT !.n = @ + 1, !.ready = FALSE].msg = e.msg
        /\ ~[e EXCEPT !.n = @ + 1, !.ready = FALSE].ready
    BY EntryIs, CountedEntry
  <2>3. OthersStay(w) /\ msg'[w] = e.msg
    BY <1>3, <2>1, StepOfLoop DEF Inv, LocalInv, LocalOK
  <2>4. ASSUME NEW v \in Loop, v # w, Busy(v)'
        PROVE  /\ Busy(v) /\ msg'[v] = msg[v] /\ msg[v] # e.msg
               /\ \E f \in stream' : f.msg = msg'[v] /\ ~f.ready
    <3>1. Busy(v) /\ msg'[v] = msg[v]
      BY <2>3, <2>4 DEF OthersStay, Stays, Busy
    <3>2. PICK f \in stream : f.msg = msg[v] /\ ~f.ready
      BY <3>1 DEF HandlerInv
    <3>3. f # e
      BY <2>1, <3>2
    <3> QED
      BY <2>1, <3>1, <3>2, <3>3 DEF UniqueInv
  <2>5. \E f \in stream' : f.msg = msg'[w] /\ ~f.ready
    BY <2>1, <2>2, <2>3
  <2>6. ASSUME NEW v \in Loop, NEW x \in Loop, Busy(v)', Busy(x)', msg'[v] = msg'[x] PROVE v = x
    BY <2>3, <2>4, <2>6 DEF HandlerInv
  <2> QED
    BY <2>4, <2>5, <2>6 DEF HandlerInv
<1>4. ASSUME NEW w \in Loop, DeadLetter(w) PROVE HandlerInv'
  <2>1. PICK e \in stream : e.ready /\ stream \ {e} \subseteq stream'
    BY <1>4 DEF DeadLetter
  <2>2. UNCHANGED <<pc, msg>>
    BY <1>4 DEF DeadLetter, local
  <2> QED
    BY <2>1, <2>2 DEF HandlerInv, Busy
<1>5. ASSUME NEW w \in Loop, AckWaitExpires(w) PROVE HandlerInv'
  BY <1>5, NoSuchFault DEF AckWaitExpires
<1>6. ASSUME NEW w \in Loop, Settle(w) \/ Crash(w) PROVE HandlerInv'
  <2>1. stream' = stream \ Unsettled(msg[w]) \/ stream' = Redeliver(msg[w])
    BY <1>6 DEF Settle, Crash
  <2>2. \A e \in stream : e.msg # msg[w] => e \in stream'
    BY <2>1, RedeliverIs DEF Unsettled
  <2>3. OthersStay(w) /\ pc'[w] = "idle" /\ Busy(w)
    BY <1>6, StepOfLoop DEF Settle, Crash, Forget, Go, Inv, LocalInv, LocalOK, Busy
  <2> QED
    BY <2>2, <2>3 DEF HandlerInv, Busy, OthersStay, Stays
<1>7. ASSUME NEW w \in Loop, Handle(w) PROVE HandlerInv'
  <2>1. UNCHANGED <<msg, stream>> /\ Busy(w) /\ OthersStay(w)
    BY <1>7, HandleKeepsMessage, StepOfLoop DEF Busy
  <2>2. \A v \in Loop : Busy(v)' => Busy(v)
    BY <2>1 DEF OthersStay, Stays, Busy
  <2> QED
    BY <2>1, <2>2 DEF HandlerInv
<1> QED
  BY <1>2, <1>3, <1>4, <1>5, <1>6, <1>7 DEF Next

LEMMA HandlerInvariance ==
  ASSUME ~Overrun, "slow" \notin Faults
  PROVE  Spec => []HandlerInv
<1>1. Init => HandlerInv
  BY DEF Init, HandlerInv, Busy
<1>2. Inv /\ StreamInv /\ TaskInv /\ HandlerInv /\ [Next]_vars => HandlerInv'
  BY UniqueEntries, HandlerNext
<1> QED
  BY <1>1, <1>2, Invariance, StreamInvariance, TaskInvariance, PTL DEF Spec

-----------------------------------------------------------------------------
(* No user message is forgotten.                                           *)

\* What keeps u's flow in sight when its message is out of the stream.
Safe(u) ==
  \/ answers[u] > 0
  \/ DeadLettered(u)
  \/ current # None /\ current # u
  \/ WaitingFor(u)
  \/ Finishing(u)

\* w has done what makes its message superfluous.
Done(w) ==
  \/ pc[w] = "publish"
  \/ pc[w] \in {"unlock", "ack"} /\ verdict[w] = "ack"

SafeInv ==
  /\ \A u \in sent : ~InStream(UserMessage(u)) => Safe(u)
  /\ \A w \in Loop, u \in User : Done(w) /\ msg[w] = UserMessage(u) => Safe(u)

\* The message of u is being taken up.
Starting(u) == \E w \in Loop : pc[w] = "init" /\ msg[w] = UserMessage(u)

LEMMA HandleSafe ==
  ASSUME Inv, SectionInv, FlowInv, PhaseInv, NEW w \in Loop, Handle(w),
         "publish" \notin Faults, NEW u \in User, Safe(u), ~Starting(u)
  PROVE  Safe(u)'
<1>0. LocalOK /\ OthersStay(w) /\ UNCHANGED <<msg, dlq>> /\ (DeadLettered(u)' <=> DeadLettered(u))
  BY StepOfLoop, HandleKeepsMessage DEF Inv, LocalInv, DeadLettered
<1>1. answers \in [User -> Nat]
  BY DEF Inv, SharedOK
<1>2. CASE \/ AcquireLock(w) \/ LockFails(w) \/ Unlock(w) \/ RedisFails(w) \/ IgnoreResponse(w)
           \/ AcceptResponse(w) \/ AcceptHandoff(w) \/ Finalize(w) \/ Delegate(w) \/ BrainFails(w)
           \/ Publish(w)
  <2>1. UNCHANGED <<store, answers, current>> /\ pc[w] # "final"
    BY <1>2 DEF AcquireLock, LockFails, Unlock, RedisFails, IgnoreResponse, AcceptResponse,
       AcceptHandoff, Finalize, Delegate, DelegateTo, BrainFails, Publish, redis, history
  <2>2. Finishing(u) => Finishing(u)'
    BY <1>0, <2>1 DEF OthersStay, Stays, Finishing, Finishes
  <2> QED
    BY <1>0, <2>1, <2>2 DEF Safe, WaitingFor
<1>3. ASSUME pc[w] = "init", current' = msg[w].id PROVE Safe(u)'
  <2>1. msg[w] \in Message /\ msg[w].kind = "user"
    BY <1>3 DEF Inv, LocalInv, LoopInv
  <2>2. msg[w].id \in User /\ msg[w] = UserMessage(msg[w].id)
    BY <2>1, UserMessageIs
  <2>3. msg[w].id # u
    BY <1>3, <2>2 DEF Starting
  <2>4. current' # None /\ current' # u
    BY <1>3, <2>2, <2>3, ConstantsAssumption
  <2> QED
    BY <2>4 DEF Safe
<1>4. ASSUME pc[w] \in {"fanin", "save"}, store' = st[w], UNCHANGED <<answers, current>>
      PROVE  Safe(u)'
  <2>1. st[w] \in State /\ st[w].status = "waiting_spoke" /\ st[w].orig = current
    BY <1>4 DEF Inv, LocalInv, LoopInv, Working, PhaseInv, Phase, FlowInv
  <2>2. WaitingFor(u) => WaitingFor(u)'
    BY <1>4, <2>1, NoneAssumption DEF WaitingFor, FlowInv
  <2>3. Finishing(u) => Finishing(u)'
    BY <1>0, <1>4 DEF OthersStay, Stays, Finishing, Finishes
  <2> QED
    BY <1>0, <1>4, <2>2, <2>3 DEF Safe
<1>5. CASE InitFlow(w)
  BY <1>3, <1>5 DEF InitFlow
<1>6. CASE SaveReplyLost(w)
  BY <1>3, <1>4, <1>6 DEF SaveReplyLost
<1>7. CASE SaveFanIn(w) \/ SaveWaiting(w)
  BY <1>4, <1>7 DEF SaveFanIn, SaveWaiting, history
<1>8. CASE PublishFails(w)
  BY <1>8, NoSuchFault DEF PublishFails
<1>9. CASE Clear(w)
  <2>1. /\ UNCHANGED <<answers, current, st>> /\ pc[w] = "clear" /\ pc'[w] = "final"
        /\ store' = None \/ store' = store
    BY <1>0, <1>9 DEF Clear, Go, LocalOK, history
  <2>2. Finishing(u) => Finishing(u)'
    BY <1>0, <2>1 DEF OthersStay, Stays, Finishing, Finishes
  <2>3. ASSUME WaitingFor(u), store' = None PROVE Finishing(u)'
    <3>1. msg[w] \in Message
      BY <2>1 DEF Inv, LocalInv, LoopInv
    <3>2. msg[w].kind = "resp"
      <4>1. msg[w].kind # "user"
        BY <2>1, <2>3 DEF PhaseInv, Phase, WaitingFor
      <4> QED
        BY <3>1, <4>1, UserMessageIs
    <3>3. st[w].orig = u
      BY <2>1, <2>3, <3>2 DEF PhaseInv, Phase, WaitingFor
    <3>4. Finishes(w, u)'
      BY <1>0, <2>1, <3>2, <3>3 DEF Finishes
    <3> QED
      BY <3>4 DEF Finishing
  <2>4. WaitingFor(u) => WaitingFor(u)' \/ store' = None
    BY <2>1 DEF WaitingFor
  <2> QED
    BY <1>0, <2>1, <2>2, <2>3, <2>4 DEF Safe
<1>10. CASE PublishFinal(w)
  <2>1. /\ UNCHANGED <<store, current>> /\ pc[w] = "final" /\ st[w] \in State
        /\ answers' = [answers EXCEPT ![st[w].orig] = @ + 1]
    BY <1>10 DEF PublishFinal, redis, Inv, LocalInv, LoopInv, Working
  <2>2. st[w].orig \in User
    BY <2>1 DEF State
  <2>3. answers[u] > 0 => answers'[u] > 0
    BY <1>1, <2>1, <2>2
  <2>4. ASSUME Finishing(u) PROVE Finishing(u)' \/ answers'[u] > 0
    <3>1. PICK v \in Loop : Finishes(v, u)
      BY <2>4 DEF Finishing
    <3>2. CASE v = w
      BY <1>1, <2>1, <2>2, <3>1, <3>2 DEF Finishes
    <3>3. CASE v # w
      BY <1>0, <3>1, <3>3 DEF OthersStay, Stays, Finishing, Finishes
    <3> QED
      BY <3>2, <3>3
  <2> QED
    BY <1>0, <2>1, <2>3, <2>4 DEF Safe, WaitingFor
<1> QED
  BY <1>2, <1>5, <1>6, <1>7, <1>8, <1>9, <1>10 DEF Handle

LEMMA StepSafe ==
  ASSUME Inv, SectionInv, FlowInv, PhaseInv, [Next]_vars,
         Faults \cap {"publish", "crash"} = {}, NEW u \in User, Safe(u), ~Starting(u)
  PROVE  Safe(u)'
<1>1. CASE \/ UNCHANGED vars \/ FetchTimeout \/ LockExpires
           \/ \E x \in User : UserSends(x)
           \/ \E t \in tasks : SpokeAnswers(t) \/ SpokeFails(t)
           \/ \E w \in Loop : DeadLetter(w) \/ AckWaitExpires(w)
  <2>1. UNCHANGED <<store, answers, current, pc, msg, st>> /\ dlq \subseteq dlq'
    BY <1>1 DEF vars, redis, history, local, FetchTimeout, LockExpires, UserSends, SpokeAnswers,
                SpokeFails, DeadLetter, AckWaitExpires
  <2> QED
    BY <2>1 DEF Safe, WaitingFor, Finishing, Finishes, DeadLettered
<1>2. ASSUME NEW w \in Loop, Fetch(w) \/ Settle(w) PROVE Safe(u)'
  <2>1. UNCHANGED <<store, answers, current, dlq>> /\ pc[w] # "final"
    BY <1>2 DEF Fetch, Settle, redis, history
  <2>2. OthersStay(w)
    BY <1>2, StepOfLoop
  <2> QED
    BY <2>1, <2>2 DEF Safe, WaitingFor, Finishing, Finishes, DeadLettered, OthersStay, Stays
<1>3. ASSUME NEW w \in Loop, Crash(w) PROVE Safe(u)'
  BY <1>3, NoSuchFault DEF Crash
<1>4. ASSUME NEW w \in Loop, Handle(w) PROVE Safe(u)'
  BY <1>4, HandleSafe
<1> QED
  BY <1>1, <1>2, <1>3, <1>4 DEF Next

\* A message leaves the stream when its handler is done with it, or for the DLQ.
LEMMA LeavesStream ==
  ASSUME Inv, [Next]_vars, NEW m, InStream(m), ~InStream(m)'
  PROVE  m \in dlq' \/ \E w \in Loop : msg[w] = m /\ Done(w)
<1>1. CASE stream \subseteq stream'
  BY <1>1 DEF InStream
<1>2. CASE \/ UNCHANGED vars \/ FetchTimeout \/ LockExpires
           \/ \E x \in User : UserSends(x)
           \/ \E t \in tasks : SpokeAnswers(t) \/ SpokeFails(t)
           \/ \E w \in Loop : Handle(w)
  <2>1. stream \subseteq stream'
    BY <1>2, HandleKeepsMessage DEF vars, FetchTimeout, LockExpires, UserSends, SpokeAnswers, SpokeFails
  <2> QED
    BY <1>1, <2>1
<1>3. ASSUME NEW e \in stream, NEW f, f.msg = e.msg, stream' = (stream \ {e}) \cup {f} PROVE FALSE
  BY <1>3 DEF InStream
<1>4. ASSUME NEW w \in Loop, Fetch(w) PROVE FALSE
  <2>1. PICK e \in stream : stream' = (stream \ {e}) \cup {[e EXCEPT !.n = @ + 1, !.ready = FALSE]}
    BY <1>4 DEF Fetch
  <2> QED
    BY <1>3, <2>1, EntryIs, CountedEntry
<1>5. ASSUME NEW w \in Loop, DeadLetter(w) PROVE m \in dlq'
  <2>1. PICK e \in stream : \/ stream' = stream \ {e} /\ dlq' = dlq \cup {e.msg}
                            \/ stream' = (stream \ {e}) \cup {[e EXCEPT !.n = @ + 1]}
    BY <1>5 DEF DeadLetter
  <2>2. CASE stream' = (stream \ {e}) \cup {[e EXCEPT !.n = @ + 1]}
    BY <1>3, <2>2, EntryIs, CountedEntry
  <2>3. CASE stream' = stream \ {e} /\ dlq' = dlq \cup {e.msg}
    BY <2>3 DEF InStream
  <2> QED
    BY <2>1, <2>2, <2>3
<1>6. ASSUME NEW w \in Loop, AckWaitExpires(w) PROVE FALSE
  <2>1. PICK e \in stream : stream' = (stream \ {e}) \cup {[e EXCEPT !.ready = TRUE]}
    BY <1>6 DEF AckWaitExpires
  <2> QED
    BY <1>3, <2>1, EntryIs, ReadyEntry
<1>7. ASSUME NEW x, stream' = Redeliver(x) PROVE FALSE
  <2>1. PICK e \in stream : e.msg = m
    BY DEF InStream
  <2>2. CASE m = x
    <3>1. [e EXCEPT !.ready = TRUE] \in stream' /\ [e EXCEPT !.ready = TRUE].msg = m
      BY <1>7, <2>1, <2>2, RedeliverIs, EntryIs, ReadyEntry
    <3> QED
      BY <3>1 DEF InStream
  <2>3. CASE m # x
    BY <1>7, <2>1, <2>3, RedeliverIs DEF InStream
  <2> QED
    BY <2>2, <2>3
<1>8. ASSUME NEW w \in Loop, Crash(w) PROVE FALSE
  BY <1>7, <1>8 DEF Crash
<1>9. ASSUME NEW w \in Loop, Settle(w) PROVE msg[w] = m /\ Done(w)
  <2>1. verdict[w] = "ack" /\ pc[w] = "ack" /\ stream' = stream \ Unsettled(msg[w])
    BY <1>7, <1>9 DEF Settle
  <2> QED
    BY <2>1 DEF InStream, Unsettled, Done
<1> QED
  BY <1>2, <1>4, <1>5, <1>6, <1>8, <1>9 DEF Next

\* How the handler of a user message is done.
LEMMA BecomesDone ==
  ASSUME Inv, PhaseInv, [Next]_vars, NEW w \in Loop, Done(w)',
         msg'[w].kind = "user"
  PROVE  msg'[w] = msg[w] /\ (Done(w) \/ SaveWaiting(w) \/ PublishFinal(w))
<1>0. LocalOK
  BY DEF Inv, LocalInv
<1>1. CASE UNCHANGED local
  BY <1>1 DEF local, Done
<1>2. CASE \/ UNCHANGED vars \/ FetchTimeout \/ LockExpires
           \/ \E u \in User : UserSends(u)
           \/ \E t \in tasks : SpokeAnswers(t) \/ SpokeFails(t)
           \/ \E v \in Loop : DeadLetter(v) \/ AckWaitExpires(v)
  <2>1. UNCHANGED local
    BY <1>2 DEF vars, FetchTimeout, LockExpires, UserSends, SpokeAnswers, SpokeFails,
                DeadLetter, AckWaitExpires
  <2> QED
    BY <1>1, <2>1
<1>3. ASSUME NEW v \in Loop, v # w, OthersStay(v) PROVE msg'[w] = msg[w] /\ Done(w)
  BY <1>3 DEF OthersStay, Stays, Done
<1>4. ASSUME NEW v \in Loop, Fetch(v) \/ Settle(v) \/ Crash(v) PROVE msg'[w] = msg[w] /\ Done(w)
  <2>1. pc'[v] \in {"lock", "idle"} /\ OthersStay(v)
    BY <1>0, <1>4, StepOfLoop DEF Fetch, Settle, Crash, Forget, Go, LocalOK
  <2> QED
    BY <1>3, <2>1 DEF Done
<1>5. ASSUME NEW v \in Loop, Handle(v), v # w PROVE msg'[w] = msg[w] /\ Done(w)
  BY <1>3, <1>5, StepOfLoop
<1>6. ASSUME Handle(w)
      PROVE  msg'[w] = msg[w] /\ (Done(w) \/ SaveWaiting(w) \/ PublishFinal(w))
  <2>1. UNCHANGED msg
    BY <1>6, HandleKeepsMessage
  <2>2. pc[w] \notin {"load", "fanin"}
    BY <1>6, <2>1 DEF Inv, LocalInv, LoopInv, PhaseInv, Phase
  <2>3. CASE AcquireLock(w) \/ LockFails(w) \/ Unlock(w)
    BY <1>0, <2>3 DEF AcquireLock, LockFails, Unlock, Go, LocalOK, Done
  <2>4. CASE RedisFails(w) \/ SaveReplyLost(w) \/ BrainFails(w) \/ PublishFails(w)
    BY <1>0, <2>4 DEF RedisFails, SaveReplyLost, BrainFails, PublishFails, Return, Go, LocalOK, Done
  <2>5. CASE IgnoreResponse(w) \/ AcceptResponse(w) \/ AcceptHandoff(w) \/ SaveFanIn(w)
    BY <2>2, <2>5 DEF IgnoreResponse, AcceptResponse, AcceptHandoff, SaveFanIn
  <2>6. CASE InitFlow(w) \/ Finalize(w) \/ Delegate(w) \/ Clear(w)
    BY <1>0, <2>6 DEF InitFlow, Finalize, Delegate, DelegateTo, Clear, Go, LocalOK, Done
  <2>7. CASE Publish(w)
    BY <2>1, <2>7 DEF Publish, Done
  <2> QED
    BY <1>6, <2>1, <2>3, <2>4, <2>5, <2>6, <2>7 DEF Handle
<1> QED
  BY <1>2, <1>4, <1>5, <1>6 DEF Next

LEMMA SafeNext ==
  ASSUME Inv, SectionInv, FlowInv, PhaseInv, HandlerInv, SafeInv, [Next]_vars,
         Faults \cap {"publish", "crash"} = {}
  PROVE  SafeInv'
<1>0. sent \subseteq User /\ LocalOK /\ answers \in [User -> Nat]
  BY DEF Inv, SharedOK, LocalInv
<1>1. ASSUME NEW w \in Loop, NEW u \in User, Done(w), msg[w] = UserMessage(u) PROVE Safe(u)'
  <2>1. Safe(u)
    BY <1>1 DEF SafeInv
  <2>2. ASSUME NEW v \in Loop, pc[v] = "init", msg[v] = UserMessage(u) PROVE FALSE
    <3>1. Busy(v) /\ Busy(w) /\ msg[v] = msg[w]
      BY <1>1, <2>2 DEF Busy, Done
    <3>2. v = w
      BY <3>1 DEF HandlerInv
    <3> QED
      BY <1>1, <2>2, <3>2 DEF Done
  <2>3. ~Starting(u)
    BY <2>2 DEF Starting
  <2> QED
    BY <2>1, <2>3, StepSafe
<1>2. ASSUME NEW u \in sent', ~InStream(UserMessage(u))' PROVE Safe(u)'
  <2>1. CASE u \notin sent
    <3>1. UserSends(u)
      <4>1. sent' # sent
        BY <1>2, <2>1
      <4>2. \A w \in Loop : ~Handle(w)
        <5> SUFFICES ASSUME NEW w \in Loop PROVE ~Handle(w)
          OBVIOUS
        <5>1. ~(AcquireLock(w) \/ LockFails(w) \/ InitFlow(w) \/ RedisFails(w) \/ SaveReplyLost(w))
          BY <4>1 DEF AcquireLock, LockFails, InitFlow, RedisFails, SaveReplyLost
        <5>2. ~(IgnoreResponse(w) \/ AcceptResponse(w) \/ AcceptHandoff(w) \/ SaveFanIn(w))
          BY <4>1 DEF IgnoreResponse, AcceptResponse, AcceptHandoff, SaveFanIn
        <5>3. ~(Finalize(w) \/ Delegate(w) \/ BrainFails(w) \/ SaveWaiting(w) \/ Publish(w))
          BY <4>1 DEF Finalize, Delegate, DelegateTo, BrainFails, SaveWaiting, Publish
        <5>4. ~(PublishFails(w) \/ Clear(w) \/ PublishFinal(w) \/ Unlock(w))
          BY <4>1 DEF PublishFails, Clear, PublishFinal, Unlock
        <5> QED
          BY <5>1, <5>2, <5>3, <5>4 DEF Handle
      <4>3. \A w \in Loop : ~(Fetch(w) \/ DeadLetter(w) \/ AckWaitExpires(w) \/ Settle(w) \/ Crash(w))
        BY <4>1 DEF Fetch, DeadLetter, AckWaitExpires, Settle, Crash
      <4>4. ~(LockExpires \/ FetchTimeout) /\ \A t \in tasks : ~(SpokeAnswers(t) \/ SpokeFails(t))
        BY <4>1 DEF vars, LockExpires, FetchTimeout, SpokeAnswers, SpokeFails
      <4>5. \E v \in User : UserSends(v)
        <5>1. Next
          BY <4>1 DEF vars
        <5> QED
          BY <4>2, <4>3, <4>4, <5>1 DEF Next
      <4> QED
        BY <1>2, <2>1, <4>5 DEF UserSends
    <3>2. Published(UserMessage(u)) \in stream' /\ Published(UserMessage(u)).msg = UserMessage(u)
      BY <3>1 DEF UserSends, UserMessage, Published
    <3> QED
      BY <1>2, <3>2 DEF InStream
  <2>2. CASE u \in sent /\ ~InStream(UserMessage(u))
    <3>1. Safe(u)
      BY <2>2 DEF SafeInv
    <3>2. ~Starting(u)
      BY <2>2 DEF Starting, HandlerInv, InStream, Busy
    <3> QED
      BY <1>0, <2>2, <3>1, <3>2, StepSafe
  <2>3. CASE u \in sent /\ InStream(UserMessage(u))
    <3>1. CASE UserMessage(u) \in dlq'
      BY <3>1 DEF Safe, DeadLettered, OfFlow
    <3>2. ASSUME NEW w \in Loop, msg[w] = UserMessage(u), Done(w) PROVE Safe(u)'
      BY <1>0, <1>1, <2>3, <3>2
    <3> QED
      BY <1>2, <2>3, <3>1, <3>2, LeavesStream
  <2> QED
    BY <2>1, <2>2, <2>3
<1>3. ASSUME NEW w \in Loop, NEW u \in User, Done(w)', msg'[w] = UserMessage(u)
      PROVE  Safe(u)'
  <2>0. UserMessage(u).kind = "user" /\ UserMessage(u).id = u
    BY DEF UserMessage
  <2>1. msg'[w] = msg[w] /\ (Done(w) \/ SaveWaiting(w) \/ PublishFinal(w))
    BY <1>3, <2>0, BecomesDone
  <2>2. CASE Done(w)
    BY <1>1, <1>3, <2>1, <2>2
  <2>3. CASE SaveWaiting(w)
    <3>1. pc[w] = "save" /\ store' = st[w]
      BY <2>3 DEF SaveWaiting
    <3>2. st[w] \in State /\ st[w].status = "waiting_spoke" /\ st[w].orig = u
      BY <1>3, <2>0, <2>1, <3>1 DEF PhaseInv, Phase, Inv, LocalInv, LoopInv, Working
    <3>3. WaitingFor(u)'
      BY <3>1, <3>2, NoneAssumption DEF WaitingFor
    <3> QED
      BY <3>3 DEF Safe
  <2>4. CASE PublishFinal(w)
    <3>1. pc[w] = "final" /\ answers' = [answers EXCEPT ![st[w].orig] = @ + 1]
      BY <2>4 DEF PublishFinal
    <3>2. st[w] \in State /\ st[w].orig = u
      BY <1>3, <2>0, <2>1, <3>1 DEF PhaseInv, Phase, Inv, LocalInv, LoopInv, Working
    <3>3. answers'[u] > 0
      BY <1>0, <3>1, <3>2
    <3> QED
      BY <3>3 DEF Safe
  <2> QED
    BY <2>1, <2>2, <2>3, <2>4
<1> QED
  BY <1>2, <1>3 DEF SafeInv

\* A user message is never forgotten, whatever users write and whatever else fails, as
\* long as the hub neither crashes nor fails to publish, and answers within AckWait.
THEOREM NothingIsLost ==
  ASSUME ~Overrun, Faults \cap {"publish", "crash", "slow"} = {}
  PROVE  Spec => []NothingLost
<1>1. Init => SafeInv
  BY DEF Init, SafeInv, Done
<1>2. /\ Faults \cap {"publish", "crash"} = {}
      /\ "slow" \notin Faults
  OBVIOUS
<1>3. Inv /\ SectionInv /\ FlowInv /\ PhaseInv /\ HandlerInv /\ SafeInv /\ [Next]_vars => SafeInv'
  BY <1>2, SafeNext
<1>4. Inv /\ SafeInv => NothingLost
  <2>1. ASSUME Inv, SafeInv, NEW u \in sent
        PROVE  \/ answers[u] > 0
               \/ InFlight(u) \/ DeadLettered(u)
               \/ Serving(u) \/ WaitingFor(u)
               \/ Superseded(u)
    <3>1. CASE InStream(UserMessage(u))
      BY <3>1 DEF InStream, InFlight, OfFlow
    <3>2. CASE ~InStream(UserMessage(u))
      <4>1. Safe(u)
        BY <2>1, <3>2 DEF SafeInv
      <4>2. ASSUME NEW w \in Loop, Finishes(w, u) PROVE Serving(u)
        <5>1. InSection(w) /\ st[w] # None
          BY <2>1, <4>2, NoneAssumption DEF Finishes, InSection, PlaceInSection, Inv, LocalInv, LoopInv, Working
        <5> QED
          BY <4>2, <5>1 DEF Serving, Finishes
      <4> QED
        BY <3>2, <4>1, <4>2 DEF Safe, Superseded, Finishing
    <3> QED
      BY <3>1, <3>2
  <2> QED
    BY <2>1 DEF NothingLost
<1>5. Spec => []FlowInv
  BY FlowInvariance
<1> QED
  BY <1>1, <1>2, <1>3, <1>4, <1>5, Invariance, SectionInvariance, PhaseInvariance, HandlerInvariance,
     PTL DEF Spec

-----------------------------------------------------------------------------
(* Who the saved state waits for.                                          *)

LEMMA HeadAndTail ==
  ASSUME Inv, NEW w \in Loop, pc[w] = "publish"
  PROVE  /\ 1 \in DOMAIN todo[w] /\ Head(todo[w]) = todo[w][1]
         /\ Len(todo[w]) \in Nat /\ DOMAIN todo[w] = 1..Len(todo[w])
         /\ \A k \in DOMAIN Tail(todo[w]) :
              k \in Nat /\ k + 1 # 1 /\ k + 1 \in DOMAIN todo[w] /\ Tail(todo[w])[k] = todo[w][k + 1]
         /\ \A k \in DOMAIN todo[w] : k # 1 =>
              k - 1 \in DOMAIN Tail(todo[w]) /\ Tail(todo[w])[k - 1] = todo[w][k]
<1>1. todo[w] \in Seq(Task) /\ todo[w] # <<>>
  BY DEF Inv, LocalInv, LocalOK, LoopInv
<1>2. 1 \in DOMAIN todo[w] /\ Head(todo[w]) = todo[w][1] /\ Len(todo[w]) \in Nat /\ Len(todo[w]) > 0
      /\ DOMAIN todo[w] = 1..Len(todo[w])
  BY <1>1
<1>3. /\ DOMAIN Tail(todo[w]) = 1..(Len(todo[w]) - 1)
      /\ \A k \in 1..(Len(todo[w]) - 1) : Tail(todo[w])[k] = todo[w][k + 1]
  BY <1>1
<1>4. \A k \in 1..Len(todo[w]) : k # 1 => k - 1 \in 1..(Len(todo[w]) - 1) /\ (k - 1) + 1 = k
  BY <1>2
<1>5. \A k \in 1..(Len(todo[w]) - 1) : k \in Nat /\ k + 1 # 1 /\ k + 1 \in 1..Len(todo[w])
  BY <1>2
<1> QED
  BY <1>2, <1>3, <1>4, <1>5

\* Only SaveWaiting starts to publish.
LEMMA PublishingStep ==
  ASSUME LocalOK, NEW w \in Loop, OtherSteps(w), pc'[w] = "publish"
  PROVE  SaveWaiting(w)
BY DEF LocalOK, OtherSteps, RedisFails, SaveReplyLost, IgnoreResponse, SaveFanIn, BrainFails,
       PublishFails, PublishFinal, Return, Go, AcquireLock, LockFails, Unlock, Clear, InitFlow,
       AcceptResponse, Finalize

-----------------------------------------------------------------------------
(* The tasks and the pending map.                                          *)

\* Somebody has, or is about to have, the task number i for the name x.
Knows(i, x) ==
  \/ \E t \in tasks : t.id = i /\ t.spoke = x
  \/ \E e \in stream : e.msg.kind = "resp" /\ e.msg.task.id = i /\ e.msg.task.spoke = x
  \/ \E w \in Loop : Responding(w) /\ msg[w].task.id = i /\ msg[w].task.spoke = x
  \/ \E w \in Loop : pc[w] = "publish" /\ \E k \in DOMAIN todo[w] : todo[w][k].id = i /\ todo[w][k].spoke = x

\* The saved state waits for x, under the number i.
Expects(x, i) == store # None /\ store.pending[x] = i

\* w has the task number i for the name x to publish, when it has saved the state.
Delegates(w, i, x) ==
  pc[w] = "save" /\ \E k \in DOMAIN todo[w] : todo[w][k].id = i /\ todo[w][k].spoke = x

\* The copies of the handlers: what they wait for they have just delegated, or read from the
\* saved state.
CopyOf(w) ==
  /\ pc[w] = "fanin" => \A x \in Name : st[w].pending[x] # 0 =>
       x # From(w) /\ Expects(x, st[w].pending[x])
  /\ pc[w] = "save" => \A x \in Name : st[w].pending[x] # 0 =>
       \/ Delegates(w, st[w].pending[x], x)
       \/ msg[w].kind = "resp" /\ x # From(w) /\ Expects(x, st[w].pending[x])
  /\ \A i \in 1..MaxTasks : \A x, y \in Name : Delegates(w, i, x) => ~Expects(y, i)

\* The pending map never mistakes one spoke's task for another's.
NamesInv ==
  /\ \A x \in Name : \A i \in 1..MaxTasks : Expects(x, i) => i < nextTask
  /\ \A x, y \in Name : \A i \in 1..MaxTasks : Knows(i, x) /\ Expects(y, i) => x = y
  /\ \A w \in Loop : CopyOf(w)

LEMMA AloneAtWork ==
  ASSUME SectionInv, NEW w \in Loop, InSection(w), NEW v \in Loop, pc[v] \in PlaceInSection
  PROVE  v = w
BY DEF SectionInv, InSection

\* A task becomes known when the state that waits for it has been saved.
LEMMA KnowsNext ==
  ASSUME Inv, UniqueInv, [Next]_vars, NEW i \in 1..MaxTasks, NEW x \in Name, Knows(i, x)'
  PROVE  Knows(i, x) \/ \E w \in Loop : SaveWaiting(w) /\ Delegates(w, i, x)
<1>0. LocalOK
  BY DEF Inv, LocalInv
<1>1. CASE UNCHANGED vars \/ FetchTimeout \/ LockExpires \/ \E t \in tasks : SpokeFails(t)
  <2>1. UNCHANGED <<stream, pc, msg, todo>> /\ tasks' \subseteq tasks
    BY <1>1 DEF vars, local, FetchTimeout, LockExpires, SpokeFails
  <2> QED
    BY <2>1 DEF Knows, Responding, Busy
<1>2. ASSUME NEW u \in User, UserSends(u) PROVE Knows(i, x)
  <2>1. /\ UNCHANGED <<tasks, pc, msg, todo>>
        /\ stream' = stream \cup {Published(UserMessage(u))}
    BY <1>2 DEF UserSends, UserMessage, local
  <2>2. Published(UserMessage(u)).msg.kind = "user"
    BY DEF Published, UserMessage
  <2> QED
    BY <2>1, <2>2 DEF Knows, Responding, Busy
<1>3. ASSUME NEW t \in tasks, SpokeAnswers(t) PROVE Knows(i, x)
  <2>1. PICK h \in Handoff \cup {None} :
          stream' = stream \cup {Published([kind |-> "resp", task |-> t, handoff |-> h])}
    BY <1>3 DEF SpokeAnswers
  <2>2. Published([kind |-> "resp", task |-> t, handoff |-> h]).msg.task = t
    BY DEF Published
  <2>3. tasks' \subseteq tasks \cup {[t EXCEPT !.copy = 2]} /\ UNCHANGED <<pc, msg, todo>>
    BY <1>3 DEF SpokeAnswers, local
  <2>4. [t EXCEPT !.copy = 2].id = t.id /\ [t EXCEPT !.copy = 2].spoke = t.spoke
    BY DEF Inv, SharedOK, Task
  <2>5. \A s \in tasks' : \E r \in tasks : r.id = s.id /\ r.spoke = s.spoke
    BY <2>3, <2>4
  <2>6. \A e \in stream' : e \in stream \/ e.msg.task = t
    BY <2>1, <2>2
  <2> QED
    BY <2>3, <2>5, <2>6 DEF Knows, Responding, Busy
<1>4. ASSUME NEW w \in Loop, Fetch(w) \/ DeadLetter(w) \/ AckWaitExpires(w) \/ Settle(w) \/ Crash(w)
      PROVE  Knows(i, x)
  <2>1. NoNewMessage /\ UNCHANGED tasks
    BY <1>4, ServerStep DEF Fetch, DeadLetter, AckWaitExpires, Settle, Crash
  <2>2. CASE DeadLetter(w) \/ AckWaitExpires(w)
    <3>1. UNCHANGED <<pc, msg, todo>>
      BY <2>2 DEF DeadLetter, AckWaitExpires, local
    <3> QED
      BY <2>1, <3>1 DEF Knows, Responding, Busy, NoNewMessage
  <2>3. CASE Fetch(w)
    <3>1. OthersStay(w) /\ pc'[w] = "lock" /\ \E e \in stream : e.msg = msg'[w]
      BY <1>0, <2>3, StepOfLoop DEF Fetch, Go, LocalOK
    <3> QED
      BY <2>1, <3>1 DEF Knows, OthersStay, Stays, Responding, Busy, NoNewMessage
  <2>4. CASE Settle(w) \/ Crash(w)
    <3>1. OthersStay(w) /\ pc'[w] = "idle"
      BY <1>0, <2>4, StepOfLoop DEF Settle, Crash, Forget, Go, LocalOK
    <3> QED
      BY <2>1, <3>1 DEF Knows, OthersStay, Stays, Responding, Busy, NoNewMessage
  <2> QED
    BY <1>4, <2>2, <2>3, <2>4
<1>5. ASSUME NEW w \in Loop, Handle(w)
      PROVE  Knows(i, x) \/ (SaveWaiting(w) /\ Delegates(w, i, x))
  <2>1. UNCHANGED <<msg, stream>> /\ pc[w] # "idle" /\ OthersStay(w)
    BY <1>5, HandleKeepsMessage, StepOfLoop
  <2>2. \A v \in Loop : Responding(v)' => Responding(v)
    BY <2>1 DEF OthersStay, Stays, Responding, Busy
  <2> DEFINE Queued == \E t \in tasks' : t.id = i /\ t.spoke = x
             Listed == pc'[w] = "publish" /\ \E k \in DOMAIN todo'[w] : todo'[w][k].id = i /\ todo'[w][k].spoke = x
  <2>3. Knows(i, x) \/ Queued \/ Listed
    <3>1. \A e \in stream' : e \in stream
      BY <2>1
    <3>2. \A v \in Loop : v # w => pc'[v] = pc[v] /\ todo'[v] = todo[v]
      BY <2>1 DEF OthersStay, Stays
    <3>3. CASE \E e \in stream' : e.msg.kind = "resp" /\ e.msg.task.id = i /\ e.msg.task.spoke = x
      BY <3>1, <3>3 DEF Knows
    <3>4. CASE \E v \in Loop : Responding(v)' /\ msg'[v].task.id = i /\ msg'[v].task.spoke = x
      BY <2>1, <2>2, <3>4 DEF Knows
    <3>5. CASE \E v \in Loop : pc'[v] = "publish" /\ \E k \in DOMAIN todo'[v] : todo'[v][k].id = i /\ todo'[v][k].spoke = x
      BY <3>2, <3>5 DEF Knows
    <3> QED
      BY <3>3, <3>4, <3>5 DEF Knows
  <2>4. UNCHANGED tasks => (Queued => Knows(i, x))
    BY DEF Knows
  <2>5. CASE AcceptHandoff(w) \/ Delegate(w)
    <3>1. UNCHANGED tasks /\ pc'[w] = "save"
      BY <1>0, <2>5 DEF AcceptHandoff, Delegate, DelegateTo, Go, LocalOK
    <3>2. ~Listed
      BY <3>1
    <3> HIDE DEF Queued, Listed
    <3> QED
      BY <2>3, <2>4, <3>1, <3>2
  <2>6. CASE OtherSteps(w)
    <3>1. /\ UNCHANGED tasks
          /\ pc'[w] = "publish" => pc[w] = "save" /\ todo'[w] = todo[w] /\ SaveWaiting(w)
      BY <1>0, <2>6, OtherStep, PublishingStep
    <3>2. Listed => SaveWaiting(w) /\ Delegates(w, i, x)
      BY <3>1 DEF Delegates
    <3> HIDE DEF Queued, Listed
    <3> QED
      BY <2>3, <2>4, <3>1, <3>2
  <2>7. CASE Publish(w) \/ (PublishFails(w) /\ pc[w] = "publish")
    <3>1. pc[w] = "publish" /\ tasks' \subseteq tasks \cup {Head(todo[w])}
          /\ (pc'[w] = "publish" => todo'[w] = Tail(todo[w]))
      BY <2>7, PublishSteps
    <3>2. 1 \in DOMAIN todo[w] /\ Head(todo[w]) = todo[w][1]
      BY <3>1, HeadAndTail
    <3>3. Queued => Knows(i, x)
      <4>1. ASSUME NEW t \in tasks', t.id = i, t.spoke = x PROVE Knows(i, x)
        <5>1. t \in tasks \/ t = todo[w][1]
          BY <3>1, <3>2
        <5> QED
          BY <3>1, <3>2, <4>1, <5>1 DEF Knows
      <4> QED
        BY <4>1
    <3>4. Listed => Knows(i, x)
      <4>1. ASSUME Listed PROVE Knows(i, x)
        <5>1. todo'[w] = Tail(todo[w])
          BY <3>1, <4>1
        <5>2. PICK k \in DOMAIN Tail(todo[w]) : Tail(todo[w])[k].id = i /\ Tail(todo[w])[k].spoke = x
          BY <4>1, <5>1
        <5>3. k + 1 \in DOMAIN todo[w] /\ Tail(todo[w])[k] = todo[w][k + 1]
          BY <3>1, HeadAndTail
        <5> QED
          BY <3>1, <5>2, <5>3 DEF Knows
      <4> QED
        BY <4>1
    <3> HIDE DEF Queued, Listed
    <3> QED
      BY <2>3, <3>3, <3>4
  <2> QED
    BY <1>5, <2>5, <2>6, <2>7, HandleIs
<1> QED
  BY <1>1, <1>2, <1>3, <1>4, <1>5 DEF Next

\* How a handler changes the saved state.
LEMMA StoreStep ==
  ASSUME NEW w \in Loop, Handle(w)
  PROVE  \/ UNCHANGED store
         \/ InSection(w) /\ \/ store' = None
                            \/ \E cards \in {Cards, {}} : store' = InitState(w, cards)
                            \/ pc[w] = "fanin" /\ store' = st[w]
                            \/ /\ SaveWaiting(w) \/ SaveReplyLost(w)
                               /\ pc[w] = "save" /\ store' = st[w]
BY DEF Handle, AcquireLock, LockFails, InitFlow, RedisFails, SaveReplyLost, IgnoreResponse,
       AcceptResponse, AcceptHandoff, SaveFanIn, Finalize, Delegate, DelegateTo, BrainFails,
       SaveWaiting, Publish, PublishFails, Clear, PublishFinal, Unlock, redis, InSection, PlaceInSection

\* A number that is still to be published is known to nobody.
LEMMA FreshUnknown ==
  ASSUME TaskInv, SectionInv, NEW w \in Loop, NEW i, NEW x, Delegates(w, i, x), NEW y
  PROVE  ~Knows(i, y) /\ i < nextTask
<1>1. pc[w] = "save" /\ InSection(w) /\ Fresh(w)
  BY DEF Delegates, InSection, PlaceInSection, TaskInv
<1>2. PICK k \in DOMAIN todo[w] : todo[w][k].id = i
  BY DEF Delegates
<1>3. \A v \in Loop : pc[v] # "publish"
  BY <1>1, AloneAtWork DEF PlaceInSection
<1> QED
  BY <1>1, <1>2, <1>3 DEF Fresh, Knows

\* The saved state comes to wait for a name only when a handler saves what it delegates.
LEMMA ExpectsNext ==
  ASSUME Inv, NamesInv, [Next]_vars, NEW i \in 1..MaxTasks, NEW x \in Name, Expects(x, i)'
  PROVE  \/ Expects(x, i)
         \/ \E w \in Loop : (SaveWaiting(w) \/ SaveReplyLost(w)) /\ Delegates(w, i, x)
<1>1. CASE UNCHANGED store
  BY <1>1 DEF Expects
<1>2. CASE store' = None
  BY <1>2 DEF Expects
<1>3. ASSUME NEW w, NEW cards, store' = InitState(w, cards) PROVE FALSE
  <2>1. store'.pending[x] = 0
    BY <1>3 DEF InitState, NothingPending
  <2>2. i # 0
    BY ConstantsAssumption
  <2> QED
    BY <2>1, <2>2 DEF Expects
<1>4. ASSUME NEW w \in Loop, pc[w] \in {"fanin", "save"}, store' = st[w]
      PROVE  Expects(x, i) \/ (pc[w] = "save" /\ Delegates(w, i, x))
  <2>1. st[w].pending[x] = i /\ i # 0
    BY <1>4, ConstantsAssumption DEF Expects
  <2> QED
    BY <1>4, <2>1 DEF NamesInv, CopyOf
<1>5. CASE \/ UNCHANGED vars \/ FetchTimeout \/ LockExpires
           \/ \E u \in User : UserSends(u)
           \/ \E t \in tasks : SpokeAnswers(t) \/ SpokeFails(t)
           \/ \E w \in Loop : Fetch(w) \/ DeadLetter(w) \/ AckWaitExpires(w) \/ Settle(w) \/ Crash(w)
  <2>1. UNCHANGED store
    BY <1>5 DEF vars, redis, FetchTimeout, LockExpires, UserSends, SpokeAnswers, SpokeFails,
                Fetch, DeadLetter, AckWaitExpires, Settle, Crash
  <2> QED
    BY <1>1, <2>1
<1>6. ASSUME NEW w \in Loop, Handle(w)
      PROVE  \/ Expects(x, i)
             \/ \E v \in Loop : (SaveWaiting(v) \/ SaveReplyLost(v)) /\ Delegates(v, i, x)
  <2>1. \/ UNCHANGED store \/ store' = None
        \/ \E cards \in {Cards, {}} : store' = InitState(w, cards)
        \/ (pc[w] = "fanin" /\ store' = st[w])
        \/ (pc[w] = "save" /\ store' = st[w] /\ (SaveWaiting(w) \/ SaveReplyLost(w)))
    BY <1>6, StoreStep
  <2>2. ~\E cards \in {Cards, {}} : store' = InitState(w, cards)
    BY <1>3
  <2> QED
    BY <1>1, <1>2, <1>4, <2>1, <2>2
<1> QED
  BY <1>5, <1>6 DEF Next

LEMMA LastOfList ==
  ASSUME NEW list \in Delegations, NEW x \in Name, PendingOf(list)[x] # 0
  PROVE  \E k \in DOMAIN list : list[k] = x /\ PendingOf(list)[x] = nextTask - 1 + k
<1> DEFINE At == {k \in DOMAIN list : list[k] = x}
           last == CHOOSE k \in At : \A j \in At : j <= k
<1>1. list \in Seq(Spoke \cup Ghost)
  BY ConstantsAssumption
<1>2. Len(list) \in Nat /\ DOMAIN list = 1..Len(list)
  BY <1>1
<1>3. PendingOf(list)[x] = IF At = {} THEN 0 ELSE nextTask - 1 + last
  BY DEF PendingOf
<1>4. At # {}
  BY <1>3
<1>5. \E k \in At : \A j \in At : j <= k
  BY <1>2, <1>4, MaxExists
<1>6. last \in At
  BY <1>5
<1> QED
  BY <1>3, <1>4, <1>6

LEMMA CopyStays ==
  ASSUME NEW v \in Loop, CopyOf(v), Stays(v), UNCHANGED store
  PROVE  CopyOf(v)'
BY DEF CopyOf, Stays, Delegates, Expects, From

LEMMA AcceptResponseCopyOf ==
  ASSUME Inv, NEW w \in Loop, AcceptResponse(w)
  PROVE  CopyOf(w)'
<1>1. /\ UNCHANGED <<store, msg>> /\ st'[w] = Answered(w) /\ pc'[w] \in {"turn", "fanin"}
      /\ pc[w] = "load" /\ Awaited(w)
  BY DEF AcceptResponse, redis, Go, Inv, LocalInv, LocalOK
<1>2. store \in State /\ From(w) \in Name
  BY <1>1, AnsweredTyped
<1>3. \A x \in Name : Answered(w).pending[x] = IF x = From(w) THEN 0 ELSE store.pending[x]
  BY <1>2 DEF Answered, State, Pending
<1>4. ASSUME NEW x \in Name, st'[w].pending[x] # 0
      PROVE  x # From(w)' /\ Expects(x, st[w].pending[x])'
  <2>1. x # From(w) /\ store.pending[x] = st'[w].pending[x]
    BY <1>1, <1>3, <1>4
  <2> QED
    BY <1>1, <1>2, <2>1, NoneAssumption DEF Expects, From
<1> QED
  BY <1>1, <1>4 DEF CopyOf, Delegates

LEMMA AcceptHandoffCopyOf ==
  ASSUME Inv, NamesInv, NEW w \in Loop, AcceptHandoff(w)
  PROVE  CopyOf(w)'
<1> DEFINE h == msg[w].handoff
           s == [Answered(w) EXCEPT !.pending[h] = nextTask]
<1>1. /\ UNCHANGED <<store, msg>> /\ st'[w] = s /\ pc'[w] = "save"
      /\ pc[w] = "load" /\ Awaited(w) /\ nextTask <= MaxTasks
  BY DEF AcceptHandoff, redis, Go, Inv, LocalInv, LocalOK
<1>2. store \in State /\ From(w) \in Name /\ Answered(w) \in State
  BY <1>1, AnsweredTyped
<1>3. \A x \in Name : Answered(w).pending[x] = IF x = From(w) THEN 0 ELSE store.pending[x]
  BY <1>2 DEF Answered, State, Pending
<1>4. \A x \in Name : s.pending[x] = IF x = h THEN nextTask ELSE Answered(w).pending[x]
  BY <1>2 DEF State, Pending
<1>5. /\ DOMAIN todo'[w] = {1} /\ todo'[w][1].id = nextTask /\ todo'[w][1].spoke = h
      /\ msg[w].kind = "resp"
  BY HandoffTodo
<1> HIDE DEF s, h
<1>6. ASSUME NEW x \in Name, st'[w].pending[x] # 0
      PROVE  \/ Delegates(w, st[w].pending[x], x)'
             \/ (msg'[w].kind = "resp" /\ x # From(w)' /\ Expects(x, st[w].pending[x])')
  <2>1. CASE x = h
    BY <1>1, <1>4, <1>5, <2>1 DEF Delegates
  <2>2. CASE x # h
    <3>1. x # From(w) /\ store.pending[x] = st'[w].pending[x]
      BY <1>1, <1>3, <1>4, <1>6, <2>2
    <3> QED
      BY <1>1, <1>2, <1>5, <3>1, NoneAssumption DEF Expects, From
  <2> QED
    BY <2>1, <2>2
<1>7. ASSUME NEW i \in 1..MaxTasks, NEW x \in Name, NEW y \in Name, Delegates(w, i, x)'
      PROVE  ~Expects(y, i)'
  <2>1. i = nextTask
    BY <1>5, <1>7 DEF Delegates
  <2>2. ~(i < nextTask)
    BY <2>1, NextTaskTyped
  <2> QED
    BY <1>1, <2>2 DEF NamesInv, Expects
<1> QED
  BY <1>1, <1>6, <1>7 DEF CopyOf

LEMMA DelegateCopyOf ==
  ASSUME Inv, NamesInv, NEW w \in Loop, Delegate(w)
  PROVE  CopyOf(w)'
<1> PICK list \in Delegations : DelegateTo(w, list)
  BY DEF Delegate
<1>1. /\ UNCHANGED store /\ pc'[w] = "save" /\ pc[w] = "turn"
      /\ st'[w] = [NextLoop(w) EXCEPT !.status = "waiting_spoke", !.pending = PendingOf(list)]
  BY DEF Delegate, DelegateTo, redis, Go, Inv, LocalInv, LocalOK
<1>2. st'[w].pending = PendingOf(list)
  <2>1. NextLoop(w) \in State
    BY <1>1, NextLoopTyped
  <2> QED
    BY <1>1, <2>1 DEF State
<1>3. /\ DOMAIN list = 1..Len(list) /\ DOMAIN todo'[w] = 1..Len(list) /\ Len(list) \in Nat
      /\ \A k \in 1..Len(list) : todo'[w][k].id = nextTask + k - 1 /\ todo'[w][k].spoke = list[k]
  BY DelegatedTodo
<1>4. ASSUME NEW x \in Name, st'[w].pending[x] # 0
      PROVE  Delegates(w, st[w].pending[x], x)'
  <2>1. PICK k \in DOMAIN list : list[k] = x /\ PendingOf(list)[x] = nextTask - 1 + k
    BY <1>2, <1>4, LastOfList
  <2>2. nextTask - 1 + k = nextTask + k - 1
    BY <1>3, NextTaskTyped
  <2> QED
    BY <1>1, <1>2, <1>3, <2>1, <2>2 DEF Delegates
<1>5. ASSUME NEW i \in 1..MaxTasks, NEW x \in Name, NEW y \in Name, Delegates(w, i, x)'
      PROVE  ~Expects(y, i)'
  <2>1. PICK k \in 1..Len(list) : i = nextTask + k - 1
    BY <1>3, <1>5 DEF Delegates
  <2>2. ~(i < nextTask)
    BY <1>3, <2>1, NextTaskTyped
  <2> QED
    BY <1>1, <2>2 DEF NamesInv, Expects
<1> QED
  BY <1>1, <1>4, <1>5 DEF CopyOf

\* Only AcceptResponse joins.
LEMMA FanInStep ==
  ASSUME LocalOK, NEW w \in Loop, OtherSteps(w), ~AcceptResponse(w)
  PROVE  pc'[w] # "fanin"
BY DEF LocalOK, OtherSteps, RedisFails, SaveReplyLost, IgnoreResponse, SaveFanIn, BrainFails,
       PublishFails, PublishFinal, Return, Go, AcquireLock, LockFails, Unlock, Clear, InitFlow,
       SaveWaiting, Finalize

LEMMA CopyOfNext ==
  ASSUME Inv, SectionInv, NamesInv, [Next]_vars, NEW v \in Loop
  PROVE  CopyOf(v)'
<1>0. LocalOK /\ CopyOf(v)
  BY DEF Inv, LocalInv, NamesInv
<1>1. CASE \/ UNCHANGED vars \/ FetchTimeout \/ LockExpires
           \/ \E u \in User : UserSends(u)
           \/ \E t \in tasks : SpokeAnswers(t) \/ SpokeFails(t)
           \/ \E w \in Loop : DeadLetter(w) \/ AckWaitExpires(w)
  <2>1. UNCHANGED <<store, local>>
    BY <1>1 DEF vars, redis, FetchTimeout, LockExpires, UserSends, SpokeAnswers, SpokeFails,
                DeadLetter, AckWaitExpires
  <2> QED
    BY <1>0, <2>1, CopyStays DEF Stays, local
<1>2. ASSUME NEW w \in Loop, Fetch(w) \/ Settle(w) \/ Crash(w) PROVE CopyOf(v)'
  <2>1. UNCHANGED store /\ pc'[w] \in {"lock", "idle"} /\ OthersStay(w)
    BY <1>0, <1>2, StepOfLoop DEF Fetch, Settle, Crash, Forget, Go, redis, LocalOK
  <2>2. CASE v = w
    BY <2>1, <2>2 DEF CopyOf, Delegates
  <2>3. CASE v # w
    BY <1>0, <2>1, <2>3, CopyStays DEF OthersStay
  <2> QED
    BY <2>2, <2>3
<1>3. ASSUME NEW w \in Loop, Handle(w), v # w PROVE CopyOf(v)'
  <2>1. Stays(v)
    BY <1>3, StepOfLoop DEF OthersStay
  <2>2. CASE UNCHANGED store
    BY <1>0, <2>1, <2>2, CopyStays
  <2>3. CASE InSection(w)
    <3>1. pc'[v] \notin {"fanin", "save"}
      BY <1>3, <2>1, <2>3, AloneAtWork DEF Stays, PlaceInSection
    <3> QED
      BY <3>1 DEF CopyOf, Delegates
  <2> QED
    BY <1>3, <2>2, <2>3, StoreStep
<1>4. ASSUME Handle(v) PROVE CopyOf(v)'
  <2>1. CASE OtherSteps(v) /\ ~AcceptResponse(v)
    <3>1. pc'[v] \notin {"fanin", "save"}
      BY <1>0, <2>1, OtherStep, FanInStep
    <3> QED
      BY <3>1 DEF CopyOf, Delegates
  <2>2. CASE Publish(v) \/ (PublishFails(v) /\ pc[v] = "publish")
    <3>1. pc'[v] \notin {"fanin", "save"}
      BY <2>2, PublishSteps
    <3> QED
      BY <3>1 DEF CopyOf, Delegates
  <2> QED
    BY <1>4, <2>1, <2>2, HandleIs, AcceptResponseCopyOf, AcceptHandoffCopyOf, DelegateCopyOf
<1> QED
  BY <1>1, <1>2, <1>3, <1>4 DEF Next

LEMMA NamesNext ==
  ASSUME Inv, StreamInv, TaskInv, SectionInv, NamesInv, [Next]_vars
  PROVE  NamesInv'
<1>1. nextTask <= nextTask' /\ nextTask \in Nat /\ nextTask' \in Nat
  <2>1. nextTask \in Nat
    BY NextTaskTyped
  <2>2. ASSUME NEW w \in Loop, Delegate(w) PROVE nextTask' \in Nat /\ nextTask <= nextTask'
    <3>1. PICK list \in Delegations : DelegateTo(w, list)
      BY <2>2 DEF Delegate
    <3>2. Len(list) \in Nat /\ nextTask' = nextTask + Len(list)
      BY <3>1, DelegatedTodo
    <3> QED
      BY <2>1, <3>2
  <2>3. ASSUME NEW w \in Loop, Handle(w) PROVE nextTask' \in Nat /\ nextTask <= nextTask'
    BY <2>1, <2>2, <2>3, HandleIs, OtherStep, PublishSteps, HandoffTodo
  <2>4. ASSUME \A w \in Loop : ~Handle(w) PROVE nextTask' = nextTask
    BY <2>4 DEF Next, vars, FetchTimeout, LockExpires, UserSends, SpokeAnswers, SpokeFails,
                Fetch, DeadLetter, AckWaitExpires, Settle, Crash
  <2> QED
    BY <2>1, <2>3, <2>4
<1>2. ASSUME NEW i \in 1..MaxTasks, NEW x \in Name, Expects(x, i)' PROVE i < nextTask'
  <2>1. i < nextTask
    BY <1>2, ExpectsNext, FreshUnknown DEF NamesInv
  <2> QED
    BY <1>1, <2>1, ConstantsAssumption
<1>3. ASSUME NEW i \in 1..MaxTasks, NEW x \in Name, NEW y \in Name, Knows(i, x)', Expects(y, i)'
      PROVE  x = y
  <2>1. Knows(i, x) \/ \E w \in Loop : SaveWaiting(w) /\ Delegates(w, i, x)
    BY <1>3, KnowsNext, UniqueEntries
  <2>2. Expects(y, i) \/ \E w \in Loop : (SaveWaiting(w) \/ SaveReplyLost(w)) /\ Delegates(w, i, y)
    BY <1>3, ExpectsNext
  <2>3. CASE Knows(i, x) /\ Expects(y, i)
    BY <2>3 DEF NamesInv
  <2>4. ASSUME NEW w \in Loop, Delegates(w, i, y), Knows(i, x) PROVE FALSE
    BY <2>4, FreshUnknown
  <2>5. ASSUME NEW w \in Loop, Delegates(w, i, x), Expects(y, i) PROVE FALSE
    BY <2>5 DEF NamesInv, CopyOf
  <2>6. ASSUME NEW w \in Loop, Delegates(w, i, x), NEW v \in Loop, Delegates(v, i, y) PROVE x = y
    <3>1. v = w
      BY <2>6, AloneAtWork DEF Delegates, InSection, PlaceInSection
    <3>2. Fresh(w)
      BY <2>6 DEF Delegates, TaskInv
    <3> QED
      BY <2>6, <3>1, <3>2 DEF Delegates, Fresh
  <2> QED
    BY <2>1, <2>2, <2>3, <2>4, <2>5, <2>6
<1> QED
  BY <1>2, <1>3, CopyOfNext DEF NamesInv

LEMMA NamesInvariance == ASSUME ~Overrun PROVE Spec => []NamesInv
<1>1. Init => NamesInv
  BY DEF Init, NamesInv, CopyOf, Delegates, Expects
<1> QED
  BY <1>1, NamesNext, Invariance, StreamInvariance, TaskInvariance, SectionInvariance, PTL DEF Spec

-----------------------------------------------------------------------------
(* Whoever the saved state waits for can answer.                           *)

\* Every task is addressed to a spoke that exists.
AddressInv ==
  /\ \A t \in tasks : t.spoke \in Spoke
  /\ \A w \in Loop : pc[w] \in {"save", "publish"} => \A k \in DOMAIN todo[w] : todo[w][k].spoke \in Spoke

WaitsFor(x, i) == store # None /\ store.status = "waiting_spoke" /\ Expects(x, i)

\* The response has been taken into account: what follows no longer depends on it.
Finished(w) == (pc[w] = "final" \/ Done(w)) /\ msg[w].kind = "resp"

FinishedInv ==
  \A w \in Loop : Finished(w) => \A x \in Name : ~WaitsFor(x, msg[w].task.id)

\* The task is queued, or is being published, or its response is queued or dead-lettered.
Reachable(i) ==
  \/ \E t \in tasks : t.id = i
  \/ \E w \in Loop : pc[w] = "publish" /\ \E k \in DOMAIN todo[w] : todo[w][k].id = i
  \/ \E m \in Message : m.kind = "resp" /\ m.task.id = i /\ (InStream(m) \/ m \in dlq)

ReachInv == \A x \in Name : \A i \in 1..MaxTasks : WaitsFor(x, i) => Reachable(i)

LEMMA AddressNext ==
  ASSUME Inv, SectionInv, AddressInv, [Next]_vars, Ghost = {}, Handoff \subseteq Spoke
  PROVE  AddressInv'
<1>0. LocalOK
  BY DEF Inv, LocalInv
<1>1. CASE \/ UNCHANGED vars \/ FetchTimeout \/ LockExpires
           \/ \E u \in User : UserSends(u)
           \/ \E t \in tasks : SpokeFails(t)
           \/ \E w \in Loop : DeadLetter(w) \/ AckWaitExpires(w)
  <2>1. UNCHANGED <<pc, todo>> /\ tasks' \subseteq tasks
    BY <1>1 DEF vars, local, FetchTimeout, LockExpires, UserSends, SpokeFails, DeadLetter, AckWaitExpires
  <2> QED
    BY <2>1 DEF AddressInv
<1>2. ASSUME NEW t \in tasks, SpokeAnswers(t) PROVE AddressInv'
  <2>1. UNCHANGED <<pc, todo>> /\ tasks' \subseteq tasks \cup {[t EXCEPT !.copy = 2]}
    BY <1>2 DEF SpokeAnswers, local
  <2>2. [t EXCEPT !.copy = 2].spoke = t.spoke
    BY DEF Inv, SharedOK, Task
  <2> QED
    BY <2>1, <2>2 DEF AddressInv
<1>3. ASSUME NEW w \in Loop, OthersStay(w), tasks' \subseteq tasks, pc'[w] \notin {"save", "publish"}
      PROVE  AddressInv'
  BY <1>3 DEF AddressInv, OthersStay, Stays
<1>4. ASSUME NEW w \in Loop, Fetch(w) \/ Settle(w) \/ Crash(w) PROVE AddressInv'
  <2>1. pc'[w] \in {"lock", "idle"} /\ UNCHANGED tasks
    BY <1>0, <1>4 DEF Fetch, Settle, Crash, Forget, Go, LocalOK
  <2> QED
    BY <1>3, <1>4, <2>1, StepOfLoop
<1>5. ASSUME NEW w \in Loop, OtherSteps(w) PROVE AddressInv'
  <2>1. OthersStay(w) /\ UNCHANGED tasks
    BY <1>5, OtherStep, StepOfLoop DEF OtherSteps, Handle
  <2>2. pc'[w] \in {"save", "publish"} => pc[w] = "save" /\ todo'[w] = todo[w]
    BY <1>5, OtherStep
  <2> QED
    BY <2>1, <2>2 DEF AddressInv, OthersStay, Stays
<1>6. ASSUME NEW w \in Loop, AcceptHandoff(w) PROVE AddressInv'
  <2>1. OthersStay(w) /\ UNCHANGED tasks
    BY <1>6, StepOfLoop DEF Handle, AcceptHandoff
  <2>2. \A k \in DOMAIN todo'[w] : todo'[w][k].spoke \in Spoke
    BY <1>6, HandoffTodo
  <2> QED
    BY <2>1, <2>2 DEF AddressInv, OthersStay, Stays
<1>7. ASSUME NEW w \in Loop, Delegate(w) PROVE AddressInv'
  <2>1. PICK list \in Delegations : DelegateTo(w, list)
    BY <1>7 DEF Delegate
  <2>2. OthersStay(w) /\ UNCHANGED tasks
    BY <1>7, <2>1, StepOfLoop DEF Handle, DelegateTo
  <2>3. \A k \in DOMAIN todo'[w] : todo'[w][k].spoke \in Spoke
    <3>1. /\ list \in Seq(Spoke \cup Ghost) /\ DOMAIN list = 1..Len(list)
          /\ DOMAIN todo'[w] = 1..Len(list)
          /\ \A k \in 1..Len(list) : todo'[w][k].spoke = list[k]
      BY <2>1, DelegatedTodo
    <3>2. \A k \in 1..Len(list) : list[k] \in Spoke
      BY <3>1
    <3> QED
      BY <3>1, <3>2
  <2> QED
    BY <2>2, <2>3 DEF AddressInv, OthersStay, Stays
<1>8. ASSUME NEW w \in Loop, Publish(w) \/ (PublishFails(w) /\ pc[w] = "publish") PROVE AddressInv'
  <2>1. OthersStay(w) /\ pc[w] = "publish" /\ tasks' \subseteq tasks \cup {Head(todo[w])}
        /\ pc'[w] \in {"publish", "unlock"}
        /\ (pc'[w] = "publish" => todo'[w] = Tail(todo[w]))
    BY <1>8, PublishSteps, StepOfLoop DEF Handle
  <2>2. \A k \in DOMAIN todo[w] : todo[w][k].spoke \in Spoke
    BY <2>1 DEF AddressInv
  <2>3. Head(todo[w]).spoke \in Spoke /\ \A k \in DOMAIN Tail(todo[w]) : Tail(todo[w])[k].spoke \in Spoke
    BY <2>1, <2>2, HeadAndTail
  <2>4. \A t \in tasks' : t.spoke \in Spoke
    BY <2>1, <2>3 DEF AddressInv
  <2>5. pc'[w] = "publish" => \A k \in DOMAIN todo'[w] : todo'[w][k].spoke \in Spoke
    BY <2>1, <2>3
  <2> QED
    BY <2>1, <2>4, <2>5 DEF AddressInv, OthersStay, Stays
<1> QED
  BY <1>1, <1>2, <1>4, <1>5, <1>6, <1>7, <1>8, HandleIs DEF Next

LEMMA WaitsNext ==
  ASSUME Inv, PhaseInv, NamesInv, [Next]_vars, NEW i \in 1..MaxTasks, NEW x \in Name, WaitsFor(x, i)'
  PROVE  \/ WaitsFor(x, i)
         \/ \E w \in Loop : (SaveWaiting(w) \/ SaveReplyLost(w)) /\ Delegates(w, i, x)
<1>1. CASE UNCHANGED store
  BY <1>1 DEF WaitsFor, Expects
<1>2. ASSUME NEW w, NEW cards, store' = InitState(w, cards) PROVE FALSE
  <2>1. store'.status = "idle"
    BY <1>2 DEF InitState
  <2> QED
    BY <2>1 DEF WaitsFor
<1>3. ASSUME NEW w \in Loop, pc[w] \in {"fanin", "save"}, store' = st[w]
      PROVE  WaitsFor(x, i) \/ (pc[w] = "save" /\ Delegates(w, i, x))
  <2>1. st[w].pending[x] = i /\ i # 0
    BY <1>3, ConstantsAssumption DEF WaitsFor, Expects
  <2>2. \/ pc[w] = "save" /\ Delegates(w, i, x)
        \/ msg[w].kind = "resp" /\ Expects(x, i)
    BY <1>3, <2>1 DEF NamesInv, CopyOf, PhaseInv, Phase
  <2> QED
    BY <1>3, <2>2 DEF PhaseInv, Phase, WaitsFor
<1>4. CASE \/ UNCHANGED vars \/ FetchTimeout \/ LockExpires
           \/ \E u \in User : UserSends(u)
           \/ \E t \in tasks : SpokeAnswers(t) \/ SpokeFails(t)
           \/ \E w \in Loop : Fetch(w) \/ DeadLetter(w) \/ AckWaitExpires(w) \/ Settle(w) \/ Crash(w)
  <2>1. UNCHANGED store
    BY <1>4 DEF vars, redis, FetchTimeout, LockExpires, UserSends, SpokeAnswers, SpokeFails,
                Fetch, DeadLetter, AckWaitExpires, Settle, Crash
  <2> QED
    BY <1>1, <2>1
<1>5. ASSUME NEW w \in Loop, Handle(w)
      PROVE  \/ WaitsFor(x, i)
             \/ \E v \in Loop : (SaveWaiting(v) \/ SaveReplyLost(v)) /\ Delegates(v, i, x)
  <2>1. \/ UNCHANGED store \/ store' = None
        \/ \E cards \in {Cards, {}} : store' = InitState(w, cards)
        \/ (pc[w] = "fanin" /\ store' = st[w])
        \/ (pc[w] = "save" /\ store' = st[w] /\ (SaveWaiting(w) \/ SaveReplyLost(w)))
    BY <1>5, StoreStep
  <2>2. ~\E cards \in {Cards, {}} : store' = InitState(w, cards)
    BY <1>2
  <2>3. store' # None
    BY DEF WaitsFor
  <2> QED
    BY <1>1, <1>3, <2>1, <2>2, <2>3
<1> QED
  BY <1>4, <1>5 DEF Next

\* How the handler of a response finishes with it.
LEMMA BecomesFinished ==
  ASSUME Inv, [Next]_vars, NEW w \in Loop, Finished(w)'
  PROVE  /\ msg'[w] = msg[w] /\ Responding(w)
         /\ Finished(w) \/ IgnoreResponse(w) \/ SaveFanIn(w) \/ SaveWaiting(w) \/ Clear(w)
<1>0. LocalOK
  BY DEF Inv, LocalInv
<1>1. CASE \/ UNCHANGED vars \/ FetchTimeout \/ LockExpires
           \/ \E u \in User : UserSends(u)
           \/ \E t \in tasks : SpokeAnswers(t) \/ SpokeFails(t)
           \/ \E v \in Loop : DeadLetter(v) \/ AckWaitExpires(v)
  <2>1. UNCHANGED local
    BY <1>1 DEF vars, FetchTimeout, LockExpires, UserSends, SpokeAnswers, SpokeFails,
                DeadLetter, AckWaitExpires
  <2> QED
    BY <2>1 DEF local, Finished, Done, Responding, Busy
<1>2. ASSUME NEW v \in Loop, v # w, OthersStay(v) PROVE msg'[w] = msg[w] /\ Finished(w) /\ Responding(w)
  BY <1>2 DEF OthersStay, Stays, Finished, Done, Responding, Busy
<1>3. ASSUME NEW v \in Loop, Fetch(v) \/ Settle(v) \/ Crash(v)
      PROVE  msg'[w] = msg[w] /\ Finished(w) /\ Responding(w)
  <2>1. pc'[v] \in {"lock", "idle"} /\ OthersStay(v)
    BY <1>0, <1>3, StepOfLoop DEF Fetch, Settle, Crash, Forget, Go, LocalOK
  <2> QED
    BY <1>2, <2>1 DEF Finished, Done
<1>4. ASSUME NEW v \in Loop, Handle(v), v # w PROVE msg'[w] = msg[w] /\ Finished(w) /\ Responding(w)
  BY <1>2, <1>4, StepOfLoop
<1>5. ASSUME Handle(w)
      PROVE  /\ msg'[w] = msg[w] /\ Responding(w)
             /\ Finished(w) \/ IgnoreResponse(w) \/ SaveFanIn(w) \/ SaveWaiting(w) \/ Clear(w)
  <2>1. UNCHANGED msg /\ pc[w] # "idle"
    BY <1>5, HandleKeepsMessage
  <2>2. msg[w].kind = "resp" /\ Responding(w)
    BY <2>1 DEF Finished, Responding, Busy
  <2>3. CASE AcquireLock(w) \/ LockFails(w) \/ Unlock(w)
    BY <1>0, <2>1, <2>2, <2>3 DEF AcquireLock, LockFails, Unlock, Go, LocalOK, Finished, Done
  <2>4. CASE RedisFails(w) \/ SaveReplyLost(w) \/ BrainFails(w) \/ PublishFails(w)
    BY <1>0, <2>4 DEF RedisFails, SaveReplyLost, BrainFails, PublishFails, Return, Go, LocalOK, Finished, Done
  <2>5. CASE InitFlow(w) \/ Finalize(w) \/ Delegate(w) \/ AcceptResponse(w) \/ AcceptHandoff(w)
    BY <1>0, <2>5 DEF InitFlow, Finalize, Delegate, DelegateTo, AcceptResponse, AcceptHandoff, Go, LocalOK,
       Finished, Done
  <2>6. CASE Publish(w) \/ PublishFinal(w)
    BY <2>2, <2>6 DEF Publish, PublishFinal, Finished, Done
  <2> QED
    BY <1>5, <2>1, <2>2, <2>3, <2>4, <2>5, <2>6 DEF Handle
<1> QED
  BY <1>1, <1>3, <1>4, <1>5 DEF Next

LEMMA RespondingTyped ==
  ASSUME Inv, NEW w \in Loop, Responding(w)
  PROVE  /\ msg[w] \in Message /\ msg[w].task \in Task
         /\ msg[w].task.id \in 1..MaxTasks /\ msg[w].task.id # 0
         /\ msg[w].task.spoke \in Name /\ From(w) = msg[w].task.spoke
         /\ Knows(msg[w].task.id, From(w))
<1>1. msg[w] \in Message /\ msg[w].kind = "resp"
  BY DEF Responding, Busy, Inv, LocalInv, LoopInv
<1>2. msg[w].task \in Task
  BY <1>1, UserMessageIs
<1> QED
  BY <1>1, <1>2, ConstantsAssumption DEF Task, From, Knows

LEMMA FinishedNext ==
  ASSUME Inv, SectionInv, PhaseInv, TaskInv, NamesInv, FinishedInv, [Next]_vars, "clear" \notin Faults
  PROVE  FinishedInv'
<1>1. ASSUME NEW w \in Loop, Finished(w)', NEW x \in Name, NEW i, i = msg'[w].task.id, WaitsFor(x, i)'
      PROVE  FALSE
  <2>1. /\ msg'[w] = msg[w] /\ Responding(w) /\ i = msg[w].task.id
        /\ Finished(w) \/ IgnoreResponse(w) \/ SaveFanIn(w) \/ SaveWaiting(w) \/ Clear(w)
    BY <1>1, BecomesFinished
  <2>2. i \in 1..MaxTasks /\ i # 0 /\ From(w) \in Name /\ Knows(i, From(w))
    BY <2>1, RespondingTyped
  <2>3. ASSUME NEW v \in Loop PROVE ~Delegates(v, i, x)
    BY <2>2, <2>3, FreshUnknown
  <2>4. WaitsFor(x, i)
    BY <1>1, <2>2, <2>3, WaitsNext
  <2>5. x = From(w)
    BY <2>2, <2>4 DEF NamesInv, WaitsFor
  <2>6. CASE Finished(w)
    BY <2>1, <2>4, <2>6 DEF FinishedInv
  <2>7. CASE IgnoreResponse(w)
    BY <2>2, <2>4, <2>5, <2>7 DEF IgnoreResponse, Awaited, WaitsFor, Expects
  <2>8. CASE SaveFanIn(w)
    <3>1. pc[w] = "fanin" /\ store' = st[w]
      BY <2>8 DEF SaveFanIn
    <3>2. st[w].pending[x] # 0
      BY <1>1, <2>2, <3>1 DEF WaitsFor, Expects
    <3> QED
      BY <2>5, <3>1, <3>2 DEF NamesInv, CopyOf
  <2>9. CASE SaveWaiting(w)
    <3>1. pc[w] = "save" /\ store' = st[w]
      BY <2>9 DEF SaveWaiting
    <3>2. st[w].pending[x] = i
      BY <1>1, <3>1 DEF WaitsFor, Expects
    <3> QED
      BY <2>2, <2>3, <2>5, <3>1, <3>2 DEF NamesInv, CopyOf
  <2>10. CASE Clear(w)
    <3>1. store' = None
      BY <2>10, NoSuchFault DEF Clear
    <3> QED
      BY <1>1, <3>1 DEF WaitsFor
  <2> QED
    BY <2>1, <2>6, <2>7, <2>8, <2>9, <2>10
<1> QED
  BY <1>1 DEF FinishedInv

LEMMA StaysReachable ==
  ASSUME Inv, FinishedInv, [Next]_vars, NEW i \in 1..MaxTasks, NEW x \in Name, WaitsFor(x, i), Reachable(i),
         Faults \cap {"publish", "crash", "spoke"} = {}
  PROVE  Reachable(i)'
<1>0. LocalOK
  BY DEF Inv, LocalInv
<1>1. ASSUME NEW t \in tasks, t.id = i PROVE Reachable(i)'
  <2>1. CASE t \in tasks'
    BY <1>1, <2>1 DEF Reachable
  <2>2. CASE t \notin tasks'
    <3>1. SpokeAnswers(t)
      <4>1. ASSUME NEW w \in Loop, Handle(w) PROVE FALSE
        BY <2>2, <4>1, HandleIs, OtherStep, PublishSteps DEF AcceptHandoff, Delegate, DelegateTo
      <4>2. ASSUME NEW s \in tasks, SpokeFails(s) PROVE FALSE
        BY <4>2, NoSuchFault DEF SpokeFails
      <4>3. ASSUME NEW s \in tasks, SpokeAnswers(s) PROVE s = t
        BY <2>2, <4>3 DEF SpokeAnswers
      <4> QED
        BY <2>2, <4>1, <4>2, <4>3 DEF Next, vars, FetchTimeout, LockExpires, UserSends,
           Fetch, DeadLetter, AckWaitExpires, Settle, Crash
    <3>2. PICK h \in Handoff \cup {None} :
            stream' = stream \cup {Published([kind |-> "resp", task |-> t, handoff |-> h])}
      BY <3>1 DEF SpokeAnswers
    <3> DEFINE m == [kind |-> "resp", task |-> t, handoff |-> h]
    <3>3. t \in Task
      BY DEF Inv, SharedOK
    <3>4. m \in Message /\ m.kind = "resp" /\ m.task.id = i
      BY <1>1, <3>3 DEF Message
    <3>5. Published(m).msg = m /\ Published(m) \in stream'
      BY <3>2 DEF Published
    <3> HIDE DEF m
    <3> QED
      BY <3>4, <3>5 DEF Reachable, InStream
  <2> QED
    BY <2>1, <2>2
<1>2. ASSUME NEW w \in Loop, pc[w] = "publish", NEW k \in DOMAIN todo[w], todo[w][k].id = i
      PROVE  Reachable(i)'
  <2>1. CASE pc'[w] = pc[w] /\ todo'[w] = todo[w]
    BY <1>2, <2>1 DEF Reachable
  <2>2. CASE ~(pc'[w] = pc[w] /\ todo'[w] = todo[w])
    <3>1. Handle(w)
      <4>1. ASSUME NEW v \in Loop, v # w, Fetch(v) \/ Settle(v) \/ Crash(v) \/ Handle(v) PROVE FALSE
        BY <2>2, <4>1, StepOfLoop DEF OthersStay, Stays
      <4>2. ASSUME Fetch(w) \/ Settle(w) \/ Crash(w) PROVE FALSE
        BY <1>2, <4>2, NoSuchFault DEF Fetch, Settle, Crash
      <4> QED
        BY <2>2, <4>1, <4>2 DEF Next, vars, local, FetchTimeout, LockExpires, UserSends, SpokeAnswers,
           SpokeFails, DeadLetter, AckWaitExpires
    <3>2. Publish(w)
      BY <1>2, <3>1, NoSuchFault DEF Handle, AcquireLock, LockFails, InitFlow, RedisFails, SaveReplyLost,
         IgnoreResponse, AcceptResponse, AcceptHandoff, SaveFanIn, Finalize, Delegate, DelegateTo, BrainFails,
         SaveWaiting, PublishFails, Clear, PublishFinal, Unlock
    <3>3. Head(todo[w]) \in tasks' /\ Head(todo[w]) = todo[w][1]
      BY <1>2, <3>2, HeadAndTail DEF Publish
    <3>4. CASE k = 1
      BY <1>2, <3>3, <3>4 DEF Reachable
    <3>5. CASE k # 1
      <4>1. Len(todo[w]) # 1
        BY <1>2, <3>5, HeadAndTail
      <4>2. todo'[w] = Tail(todo[w]) /\ pc'[w] = "publish"
        BY <1>0, <1>2, <3>2, <4>1 DEF Publish, LocalOK
      <4>3. k - 1 \in DOMAIN todo'[w] /\ todo'[w][k - 1].id = i
        BY <1>2, <3>5, <4>2, HeadAndTail
      <4> QED
        BY <4>2, <4>3 DEF Reachable
    <3> QED
      BY <3>4, <3>5
  <2> QED
    BY <2>1, <2>2
<1>3. ASSUME NEW m \in Message, m.kind = "resp", m.task.id = i, InStream(m) \/ m \in dlq
      PROVE  Reachable(i)'
  <2>1. dlq \subseteq dlq'
    <3>1. ASSUME NEW w \in Loop, Handle(w) PROVE dlq' = dlq
      BY <3>1, HandleKeepsMessage
    <3> QED
      BY <3>1 DEF Next, vars, FetchTimeout, LockExpires, UserSends, SpokeAnswers, SpokeFails,
         Fetch, DeadLetter, AckWaitExpires, Settle, Crash
  <2>2. ASSUME NEW w \in Loop, msg[w] = m, Done(w) PROVE FALSE
    BY <1>3, <2>2 DEF FinishedInv, Finished
  <2>3. InStream(m)' \/ m \in dlq'
    BY <1>3, <2>1, <2>2, LeavesStream
  <2> QED
    BY <1>3, <2>3 DEF Reachable
<1> QED
  BY <1>1, <1>2, <1>3 DEF Reachable

LEMMA ReachNext ==
  ASSUME Inv, SectionInv, PhaseInv, NamesInv, FinishedInv, ReachInv, [Next]_vars,
         Faults \cap {"publish", "crash", "reply", "spoke"} = {}
  PROVE  ReachInv'
<1>1. ASSUME NEW x \in Name, NEW i \in 1..MaxTasks, WaitsFor(x, i)' PROVE Reachable(i)'
  <2>1. CASE WaitsFor(x, i)
    <3>1. Reachable(i)
      BY <2>1 DEF ReachInv
    <3> QED
      BY <2>1, <3>1, StaysReachable
  <2>2. ASSUME NEW w \in Loop, SaveWaiting(w) \/ SaveReplyLost(w), Delegates(w, i, x)
        PROVE  Reachable(i)'
    <3>1. SaveWaiting(w)
      BY <2>2, NoSuchFault DEF SaveReplyLost
    <3>2. pc'[w] = "publish" /\ todo'[w] = todo[w]
      BY <3>1 DEF SaveWaiting, Go, Inv, LocalInv, LocalOK
    <3> QED
      BY <2>2, <3>2 DEF Reachable, Delegates
  <2> QED
    BY <1>1, <2>1, <2>2, WaitsNext
<1> QED
  BY <1>1 DEF ReachInv

\* Whoever the saved state waits for is still to answer, and a spoke that exists: whatever
\* users write, and however the deliveries interleave, the thread hangs only when a failure
\* loses a publish, a reply of Redis, a replica or a spoke's turn, or leaves the state
\* uncleared, or when the brain or a spoke names somebody who does not exist.
THEOREM TheAwaitedAreServed ==
  ASSUME ~Overrun, Ghost = {}, Handoff \subseteq Spoke,
         Faults \cap {"publish", "crash", "reply", "clear", "spoke"} = {}
  PROVE  Spec => []WaitingIsServed
<1>1. Init => AddressInv /\ FinishedInv /\ ReachInv
  BY DEF Init, AddressInv, FinishedInv, Finished, Done, ReachInv, WaitsFor
<1>2. "clear" \notin Faults /\ Faults \cap {"publish", "crash", "reply", "spoke"} = {}
  OBVIOUS
<1>3. Inv /\ SectionInv /\ AddressInv /\ [Next]_vars => AddressInv'
  BY AddressNext
<1>4. Inv /\ SectionInv /\ PhaseInv /\ TaskInv /\ NamesInv /\ FinishedInv /\ [Next]_vars => FinishedInv'
  BY <1>2, FinishedNext
<1>5. Inv /\ SectionInv /\ PhaseInv /\ NamesInv /\ FinishedInv /\ ReachInv /\ [Next]_vars => ReachInv'
  BY <1>2, ReachNext
<1>6. Inv /\ AddressInv /\ FinishedInv /\ ReachInv => WaitingIsServed
  <2>1. ASSUME Inv, AddressInv, FinishedInv, ReachInv,
               store # None, store.status = "waiting_spoke", NEW x \in Name, store.pending[x] # 0
        PROVE  Served(store.pending[x])
    <3> DEFINE i == store.pending[x]
    <3>1. store \in State /\ i \in 1..MaxTasks
      <4>1. store \in State /\ i \in 0..MaxTasks
        BY <2>1 DEF Inv, SharedOK, State, Pending
      <4> QED
        BY <2>1, <4>1, ConstantsAssumption
    <3>2. WaitsFor(x, i)
      BY <2>1 DEF WaitsFor, Expects
    <3> HIDE DEF i
    <3>3. Reachable(i)
      BY <2>1, <3>1, <3>2 DEF ReachInv
    <3>4. ASSUME \E t \in tasks : t.id = i
          PROVE  Served(i)
      BY <2>1, <3>4 DEF Served, AddressInv
    <3>5. ASSUME \E w \in Loop : pc[w] = "publish" /\ \E k \in DOMAIN todo[w] : todo[w][k].id = i
          PROVE  Served(i)
      BY <3>5 DEF Served
    <3>6. ASSUME NEW m \in Message, m.kind = "resp", m.task.id = i, InStream(m) PROVE Served(i)
      <4>1. PICK e \in stream : e.msg = m
        BY <3>6 DEF InStream
      <4>2. AwaitsHandling(e)
        BY <2>1, <3>2, <3>6, <4>1 DEF AwaitsHandling, FinishedInv, Finished, Done
      <4> QED
        BY <3>6, <4>1, <4>2 DEF Served
    <3>7. ASSUME \E m \in Message : m.kind = "resp" /\ m.task.id = i /\ m \in dlq
          PROVE  Served(i)
      BY <3>7 DEF Served
    <3>8. Served(i)
      BY <3>3, <3>4, <3>5, <3>6, <3>7 DEF Reachable
    <3> QED
      BY <3>8 DEF i
  <2> QED
    BY <2>1 DEF WaitingIsServed
<1> QED
  BY <1>1, <1>3, <1>4, <1>5, <1>6, Invariance, SectionInvariance, PhaseInvariance, TaskInvariance,
     NamesInvariance, PTL DEF Spec

-----------------------------------------------------------------------------
(* The join waits for all spokes.                                          *)

\* w no longer needs its message.
Past(w) == pc[w] = "final" \/ Done(w)

\* A message that still has to be taken into account.
Open(m) == InStream(m) /\ \A w \in Loop : msg[w] = m => ~Past(w)

\* A task that has still to be answered, or whose answer has still to be taken into account.
OpenTask(t) ==
  \/ t \in tasks
  \/ \E m \in Message : m.kind = "resp" /\ m.task = t /\ Open(m)
  \/ \E w \in Loop : pc[w] = "publish" /\ \E k \in DOMAIN todo[w] : todo[w][k] = t

\* The copies of the handlers leave out nobody who is awaited but the spoke that answers.
JoinOf(w) ==
  /\ pc[w] = "fanin" => \A x \in Name : x # From(w) => st[w].pending[x] = store.pending[x]
  /\ pc[w] \in {"turn", "save", "clear"} /\ msg[w].kind = "resp" =>
       \A x \in Name : store.pending[x] # 0 => x = From(w)
  /\ pc[w] = "save" => \A k \in DOMAIN todo[w] : st[w].pending[todo[w][k].spoke] = todo[w][k].id
  /\ pc[w] \in {"save", "publish"} => \A k \in DOMAIN todo[w] : todo[w][k].copy = 1

\* The saved state waits for every open task, and a flow starts without any.
JoinInv ==
  /\ \A t \in Task : OpenTask(t) => WaitsFor(t.spoke, t.id) /\ t.copy = 1
  /\ \A u \in User : u \notin sent \/ Open(UserMessage(u)) => \A t \in Task : ~OpenTask(t)
  /\ \A w \in Loop : JoinOf(w)

\* One conversation, whose spokes suggest no handoffs, and lists without repetition.
OneFlow ==
  /\ \A u, v \in User : u = v
  /\ Handoff = {}
  /\ \A list \in Delegations : \A j, k \in DOMAIN list : list[j] = list[k] => j = k

\* Until it settles its message, a handler that is past it stays past it.
LEMMA PastStays ==
  ASSUME Inv, [Next]_vars, Faults \cap {"publish", "crash", "ack"} = {},
         NEW w \in Loop, Past(w), NEW m, msg[w] = m
  PROVE  (Past(w)' /\ msg'[w] = m) \/ ~InStream(m)'
<1>0. LocalOK
  BY DEF Inv, LocalInv
<1>1. CASE UNCHANGED <<pc, msg, verdict>>
  BY <1>1 DEF Past, Done
<1>2. CASE \/ UNCHANGED vars \/ FetchTimeout \/ LockExpires
           \/ \E u \in User : UserSends(u)
           \/ \E t \in tasks : SpokeAnswers(t) \/ SpokeFails(t)
           \/ \E v \in Loop : DeadLetter(v) \/ AckWaitExpires(v)
  <2>1. UNCHANGED <<pc, msg, verdict>>
    BY <1>2 DEF vars, local, FetchTimeout, LockExpires, UserSends, SpokeAnswers, SpokeFails,
                DeadLetter, AckWaitExpires
  <2> QED
    BY <1>1, <2>1
<1>3. ASSUME NEW v \in Loop, v # w, Fetch(v) \/ Settle(v) \/ Crash(v) \/ Handle(v)
      PROVE  Past(w)' /\ msg'[w] = m
  <2>1. OthersStay(v)
    BY <1>3, StepOfLoop
  <2> QED
    BY <1>3, <2>1 DEF OthersStay, Stays, Past, Done
<1>4. CASE Fetch(w) \/ Crash(w)
  BY <1>4, NoSuchFault DEF Fetch, Crash, Past, Done
<1>5. CASE Settle(w)
  <2>1. verdict[w] = "ack"
    BY <1>5 DEF Settle, Past, Done
  <2>2. stream' = stream \ Unsettled(m)
    BY <1>5, <2>1, NoSuchFault DEF Settle
  <2> QED
    BY <2>2 DEF InStream, Unsettled
<1>6. CASE Handle(w)
  <2>1. UNCHANGED msg
    BY <1>6, HandleKeepsMessage
  <2>2. CASE Publish(w) \/ PublishFinal(w) \/ Unlock(w)
    BY <1>0, <2>1, <2>2 DEF Publish, PublishFinal, Unlock, Return, Go, LocalOK, Past, Done
  <2>3. CASE ~(Publish(w) \/ PublishFinal(w) \/ Unlock(w))
    BY <1>6, <2>3, NoSuchFault DEF Past, Done, Handle, AcquireLock, LockFails, InitFlow, RedisFails,
       SaveReplyLost, IgnoreResponse, AcceptResponse, AcceptHandoff, SaveFanIn, Finalize, Delegate, BrainFails,
       SaveWaiting, PublishFails, Clear
  <2> QED
    BY <2>1, <2>2, <2>3
<1> QED
  BY <1>2, <1>3, <1>4, <1>5, <1>6 DEF Next

\* Where messages come from.
LEMMA NewMessages ==
  ASSUME Inv, UniqueInv, [Next]_vars, NEW m, InStream(m)'
  PROVE  \/ InStream(m)
         \/ \E u \in User : UserSends(u) /\ m = UserMessage(u)
         \/ \E t \in tasks : SpokeAnswers(t) /\ m.kind = "resp" /\ m.task = t
<1>1. ASSUME NEW u \in User, UserSends(u) PROVE InStream(m) \/ m = UserMessage(u)
  <2>1. stream' = stream \cup {Published(UserMessage(u))} /\ Published(UserMessage(u)).msg = UserMessage(u)
    BY <1>1 DEF UserSends, UserMessage, Published
  <2> QED
    BY <2>1 DEF InStream
<1>2. ASSUME NEW t \in tasks, SpokeAnswers(t) PROVE InStream(m) \/ (m.kind = "resp" /\ m.task = t)
  <2>1. PICK h \in Handoff \cup {None} :
          stream' = stream \cup {Published([kind |-> "resp", task |-> t, handoff |-> h])}
    BY <1>2 DEF SpokeAnswers
  <2>2. Published([kind |-> "resp", task |-> t, handoff |-> h]).msg
          = [kind |-> "resp", task |-> t, handoff |-> h]
    BY DEF Published
  <2> QED
    BY <2>1, <2>2 DEF InStream
<1>3. CASE NoNewMessage
  BY <1>3 DEF NoNewMessage, InStream
<1>4. ASSUME NEW w \in Loop, Fetch(w) \/ DeadLetter(w) \/ AckWaitExpires(w) \/ Settle(w) \/ Crash(w)
      PROVE  InStream(m)
  BY <1>3, <1>4, ServerStep DEF NoNewMessage, InStream
<1>5. CASE \/ UNCHANGED vars \/ FetchTimeout \/ LockExpires
           \/ \E t \in tasks : SpokeFails(t)
           \/ \E w \in Loop : Handle(w)
  <2>1. UNCHANGED stream
    BY <1>5, HandleKeepsMessage DEF vars, FetchTimeout, LockExpires, SpokeFails
  <2> QED
    BY <2>1 DEF InStream
<1> QED
  BY <1>1, <1>2, <1>4, <1>5 DEF Next

LEMMA OpenNext ==
  ASSUME Inv, UniqueInv, [Next]_vars, Faults \cap {"publish", "crash", "ack"} = {},
         NEW m, Open(m)'
  PROVE  \/ Open(m)
         \/ \E u \in User : UserSends(u) /\ m = UserMessage(u)
         \/ \E t \in tasks : SpokeAnswers(t) /\ m.kind = "resp" /\ m.task = t
<1>1. ASSUME NEW w \in Loop, msg[w] = m, Past(w) PROVE FALSE
  <2>1. (Past(w)' /\ msg'[w] = m) \/ ~InStream(m)'
    BY <1>1, PastStays
  <2> QED
    BY <2>1 DEF Open
<1>2. InStream(m)'
  BY DEF Open
<1> QED
  BY <1>1, <1>2, NewMessages DEF Open

Quiet == Faults \cap {"ack", "slow", "publish", "crash", "reply"} = {}

\* Only the save of a state that waits for a task opens the task.
LEMMA OpenTaskNext ==
  ASSUME Inv, UniqueInv, [Next]_vars, Quiet, NEW t \in Task, OpenTask(t)'
  PROVE  OpenTask(t) \/ \E w \in Loop : SaveWaiting(w) /\ \E k \in DOMAIN todo[w] : todo[w][k] = t
<1>0. LocalOK /\ Faults \cap {"publish", "crash", "ack"} = {}
  BY DEF Inv, LocalInv, Quiet
<1>1. ASSUME t \in tasks' PROVE OpenTask(t)
  <2>1. ASSUME NEW w \in Loop, Handle(w) PROVE OpenTask(t)
    <3>1. CASE OtherSteps(w)
      BY <1>1, <3>1, OtherStep DEF OpenTask
    <3>2. CASE AcceptHandoff(w) \/ Delegate(w)
      BY <1>1, <3>2 DEF AcceptHandoff, Delegate, DelegateTo, OpenTask
    <3>3. CASE Publish(w) \/ (PublishFails(w) /\ pc[w] = "publish")
      <4>1. pc[w] = "publish" /\ tasks' \subseteq tasks \cup {Head(todo[w])}
        BY <3>3, PublishSteps
      <4>2. 1 \in DOMAIN todo[w] /\ Head(todo[w]) = todo[w][1]
        BY <4>1, HeadAndTail
      <4> QED
        BY <1>1, <4>1, <4>2 DEF OpenTask
    <3> QED
      BY <2>1, <3>1, <3>2, <3>3, HandleIs
  <2>2. ASSUME NEW s \in tasks, SpokeAnswers(s) \/ SpokeFails(s) PROVE OpenTask(t)
    <3>1. tasks' \subseteq tasks
      BY <2>2, NoSuchFault DEF SpokeAnswers, SpokeFails, Quiet
    <3> QED
      BY <1>1, <3>1 DEF OpenTask
  <2>3. ASSUME UNCHANGED tasks PROVE OpenTask(t)
    BY <1>1, <2>3 DEF OpenTask
  <2> QED
    BY <2>1, <2>2, <2>3 DEF Next, vars, UserSends, LockExpires, FetchTimeout, Fetch, DeadLetter,
       AckWaitExpires, Settle, Crash
<1>2. ASSUME NEW m \in Message, m.kind = "resp", m.task = t, Open(m)' PROVE OpenTask(t)
  <2>1. CASE Open(m)
    BY <1>2, <2>1 DEF OpenTask
  <2>2. CASE \E u \in User : UserSends(u) /\ m = UserMessage(u)
    BY <1>2, <2>2 DEF UserMessage
  <2>3. CASE \E s \in tasks : SpokeAnswers(s) /\ m.kind = "resp" /\ m.task = s
    BY <1>2, <2>3 DEF OpenTask
  <2> QED
    BY <1>0, <1>2, <2>1, <2>2, <2>3, OpenNext
<1>3. ASSUME NEW w \in Loop, pc'[w] = "publish", NEW k \in DOMAIN todo'[w], todo'[w][k] = t
      PROVE  OpenTask(t) \/ \E v \in Loop : SaveWaiting(v) /\ \E j \in DOMAIN todo[v] : todo[v][j] = t
  <2>1. CASE Stays(w)
    BY <1>3, <2>1 DEF Stays, OpenTask
  <2>2. CASE Fetch(w) \/ Settle(w) \/ Crash(w)
    BY <1>0, <1>3, <2>2 DEF Fetch, Settle, Crash, Go, Forget, LocalOK
  <2>3. CASE OtherSteps(w)
    <3>1. SaveWaiting(w)
      BY <1>0, <1>3, <2>3, PublishingStep
    <3>2. todo'[w] = todo[w]
      BY <3>1 DEF SaveWaiting
    <3> QED
      BY <1>3, <3>1, <3>2
  <2>4. CASE AcceptHandoff(w) \/ Delegate(w)
    BY <1>0, <1>3, <2>4 DEF AcceptHandoff, Delegate, DelegateTo, Go, LocalOK
  <2>5. CASE Publish(w) \/ (PublishFails(w) /\ pc[w] = "publish")
    <3>1. pc[w] = "publish" /\ todo'[w] = Tail(todo[w])
      BY <1>3, <2>5, PublishSteps
    <3>2. k + 1 \in DOMAIN todo[w] /\ Tail(todo[w])[k] = todo[w][k + 1]
      BY <1>3, <3>1, HeadAndTail
    <3> QED
      BY <1>3, <3>1, <3>2 DEF OpenTask
  <2>6. ASSUME NEW v \in Loop, v # w, Fetch(v) \/ Settle(v) \/ Crash(v) \/ Handle(v) PROVE Stays(w)
    BY <2>6, StepOfLoop DEF OthersStay
  <2>7. CASE \/ UNCHANGED vars \/ FetchTimeout \/ LockExpires
             \/ \E u \in User : UserSends(u)
             \/ \E s \in tasks : SpokeAnswers(s) \/ SpokeFails(s)
             \/ \E v \in Loop : DeadLetter(v) \/ AckWaitExpires(v)
    BY <2>1, <2>7 DEF vars, local, FetchTimeout, LockExpires, UserSends, SpokeAnswers, SpokeFails,
       DeadLetter, AckWaitExpires, Stays
  <2> QED
    BY <2>1, <2>2, <2>3, <2>4, <2>5, <2>6, <2>7, HandleIs DEF Next
<1> QED
  BY <1>1, <1>2, <1>3 DEF OpenTask

\* A response that is being handled closes the one task that its spoke may have open.
LEMMA SameTask ==
  ASSUME Inv, TaskInv, HandlerInv, JoinInv, OneFlow, NEW w \in Loop, Responding(w), ~Past(w)
  PROVE  /\ msg[w].task \in Task /\ OpenTask(msg[w].task) /\ msg[w].task \notin tasks
         /\ \A t \in Task : OpenTask(t) /\ t.spoke = From(w) => t = msg[w].task
         /\ \A m \in Message : Open(m) /\ m.kind = "resp" /\ m.task = msg[w].task => m = msg[w]
         /\ \A v \in Loop : pc[v] \in {"save", "publish"} =>
              \A k \in DOMAIN todo[v] : todo[v][k] # msg[w].task
<1>1. /\ msg[w] \in Message /\ msg[w].kind = "resp" /\ msg[w].task \in Task
      /\ msg[w].handoff = None
  BY UserMessageIs DEF Inv, LocalInv, LoopInv, Responding, Busy, OneFlow
<1>2. PICK e \in stream : e.msg = msg[w]
  BY DEF HandlerInv, Responding
<1>3. Open(msg[w])
  <2>1. InStream(msg[w])
    BY <1>2 DEF InStream
  <2>2. \A v \in Loop : msg[v] = msg[w] /\ Past(v) => v = w
    BY DEF HandlerInv, Responding, Busy, Past, Done
  <2> QED
    BY <2>1, <2>2 DEF Open
<1>4. OpenTask(msg[w].task)
  BY <1>1, <1>3 DEF OpenTask
<1>5. ASSUME NEW t \in Task, OpenTask(t), t.spoke = From(w) PROVE t = msg[w].task
  <2>1. store.pending[t.spoke] = t.id /\ t.copy = 1
    BY <1>5 DEF JoinInv, WaitsFor, Expects
  <2>2. store.pending[From(w)] = msg[w].task.id /\ msg[w].task.copy = 1
    BY <1>1, <1>4 DEF JoinInv, WaitsFor, Expects, From
  <2>3. t.id = msg[w].task.id /\ t.spoke = msg[w].task.spoke /\ t.copy = msg[w].task.copy
    BY <1>5, <2>1, <2>2 DEF From
  <2>4. t.flow = msg[w].task.flow
    BY <1>1 DEF OneFlow, Task
  <2> QED
    BY <1>1, <2>3, <2>4 DEF Task
<1>6. ASSUME NEW m \in Message, Open(m), m.kind = "resp", m.task = msg[w].task PROVE m = msg[w]
  <2>1. m.handoff = None
    BY <1>6, UserMessageIs DEF OneFlow
  <2> QED
    BY <1>1, <1>6, <2>1 DEF Message
<1>7. msg[w].task \notin tasks
  <2>1. msg[w].task.copy \in Nat
    BY <1>1 DEF Task
  <2>2. \A t \in tasks : e.msg.task.id = t.id => e.msg.task.copy < t.copy
    BY <1>1, <1>2 DEF TaskInv
  <2> QED
    BY <1>2, <2>1, <2>2
<1>8. ASSUME NEW v \in Loop, pc[v] \in {"save", "publish"}, NEW k \in DOMAIN todo[v]
      PROVE  todo[v][k] # msg[w].task
  BY <1>8 DEF TaskInv, Fresh
<1> QED
  BY <1>1, <1>4, <1>5, <1>6, <1>7, <1>8

\* A handler that got past a response leaves no task of the spoke open.
LEMMA AnsweredCloses ==
  ASSUME Inv, SectionInv, TaskInv, UniqueInv, HandlerInv, JoinInv, OneFlow, Quiet, [Next]_vars,
         NEW w \in Loop, Handle(w), Responding(w), ~Past(w), Past(w)', InSection(w), UNCHANGED tasks,
         NEW t \in Task, OpenTask(t), OpenTask(t)'
  PROVE  t.spoke # From(w)
<1> SUFFICES ASSUME t.spoke = From(w) PROVE FALSE
  OBVIOUS
<1>0. LocalOK /\ Faults \cap {"publish", "crash", "ack"} = {} /\ UNCHANGED msg
  BY HandleKeepsMessage DEF Inv, LocalInv, Quiet
<1>1. t = msg[w].task /\ t \notin tasks
  BY SameTask
<1>2. t \notin tasks'
  BY <1>1
<1>3. ASSUME NEW m \in Message, m.kind = "resp", m.task = t, Open(m)' PROVE FALSE
  <2>1. Open(m)
    <3>1. CASE \E u \in User : UserSends(u) /\ m = UserMessage(u)
      BY <1>3, <3>1 DEF UserMessage
    <3>2. CASE \E s \in tasks : SpokeAnswers(s) /\ m.kind = "resp" /\ m.task = s
      BY <1>1, <1>3, <3>2
    <3> QED
      BY <1>0, <1>3, <3>1, <3>2, OpenNext
  <2>2. m = msg[w]
    BY <1>1, <1>3, <2>1, SameTask
  <2>3. msg'[w] = m
    BY <1>0, <2>2
  <2> QED
    BY <1>3, <2>3 DEF Open
<1>4. ASSUME NEW v \in Loop, pc'[v] = "publish", NEW k \in DOMAIN todo'[v], todo'[v][k] = t PROVE FALSE
  <2>1. CASE v # w
    <3>1. Stays(v)
      BY <2>1, StepOfLoop DEF OthersStay
    <3>2. pc[v] = "publish"
      BY <1>4, <3>1 DEF Stays
    <3> QED
      BY <2>1, <3>2, AloneAtWork DEF PlaceInSection
  <2>2. CASE v = w
    <3>1. CASE OtherSteps(w)
      <4>1. pc[w] = "save" /\ todo'[w] = todo[w]
        BY <1>4, <2>2, <3>1, OtherStep
      <4> QED
        BY <1>1, <1>4, <2>2, <4>1, SameTask
    <3>2. CASE AcceptHandoff(w) \/ Delegate(w)
      BY <1>0, <1>4, <2>2, <3>2 DEF AcceptHandoff, Delegate, DelegateTo, Go, LocalOK
    <3>3. CASE Publish(w) \/ (PublishFails(w) /\ pc[w] = "publish")
      BY <3>3, PublishSteps DEF Past, Done
    <3> QED
      BY <3>1, <3>2, <3>3, HandleIs
  <2> QED
    BY <2>1, <2>2
<1> QED
  BY <1>2, <1>3, <1>4 DEF OpenTask

\* A handler of the flow's user message finds no task open.
LEMMA NothingOpenYet ==
  ASSUME Inv, HandlerInv, JoinInv, NEW w \in Loop, Busy(w), ~Past(w), msg[w].kind = "user",
         NEW t \in Task
  PROVE  ~OpenTask(t)
<1>1. msg[w] = UserMessage(msg[w].id) /\ msg[w].id \in User
  BY UserMessageIs DEF Inv, LocalInv, LoopInv, Busy
<1>2. InStream(msg[w])
  BY DEF HandlerInv, InStream
<1>3. \A v \in Loop : msg[v] = msg[w] /\ Past(v) => v = w
  BY DEF HandlerInv, Busy, Past, Done
<1>4. Open(msg[w])
  BY <1>2, <1>3 DEF Open
<1>5. Open(UserMessage(msg[w].id))
  BY <1>1, <1>4
<1> QED
  BY <1>1, <1>5 DEF JoinInv

\* The steps that change the saved state, without a lost reply.
LEMMA StoreStepIs ==
  ASSUME [Next]_vars, Quiet
  PROVE  \/ UNCHANGED store
         \/ \E w \in Loop : /\ InitFlow(w) \/ SaveFanIn(w) \/ SaveWaiting(w) \/ Clear(w)
                            /\ Handle(w)
<1>1. ASSUME NEW w \in Loop, Handle(w)
      PROVE  UNCHANGED store \/ InitFlow(w) \/ SaveFanIn(w) \/ SaveWaiting(w) \/ Clear(w)
  BY <1>1, NoSuchFault DEF Handle, AcquireLock, LockFails, RedisFails, SaveReplyLost, IgnoreResponse,
       AcceptResponse, AcceptHandoff, Finalize, Delegate, DelegateTo, BrainFails,
       Publish, PublishFails, PublishFinal, Unlock, redis, Quiet
<1> QED
  BY <1>1 DEF Next, vars, redis, UserSends, SpokeAnswers, SpokeFails, LockExpires, FetchTimeout, Fetch,
     DeadLetter, AckWaitExpires, Settle, Crash

\* Whom the saved state waits for is awaited until the answer counts.
LEMMA OpenTaskAwaited ==
  ASSUME Inv, SectionInv, PhaseInv, TaskInv, UniqueInv, HandlerInv, JoinInv, OneFlow, Quiet, [Next]_vars,
         NEW t \in Task, OpenTask(t), OpenTask(t)'
  PROVE  WaitsFor(t.spoke, t.id)'
<1>0. LocalOK
  BY DEF Inv, LocalInv
<1>1. WaitsFor(t.spoke, t.id) /\ t.spoke \in Name /\ t.id \in 1..MaxTasks /\ t.id # 0
  BY DEF JoinInv, Task
<1>2. CASE UNCHANGED store
  BY <1>1, <1>2 DEF WaitsFor, Expects
<1>3. ASSUME NEW w \in Loop, InitFlow(w) \/ SaveFanIn(w) \/ SaveWaiting(w) \/ Clear(w), Handle(w)
      PROVE  WaitsFor(t.spoke, t.id)'
  <2>1. Busy(w) /\ ~Past(w) /\ InSection(w) /\ UNCHANGED tasks
    BY <1>3 DEF InitFlow, SaveFanIn, SaveWaiting, Clear, Busy, Past, Done, InSection, PlaceInSection
  <2>2. Responding(w)
    <3>1. msg[w].kind # "user"
      BY <2>1, NothingOpenYet
    <3>2. msg[w] \in Message
      BY <2>1 DEF Inv, LocalInv, LoopInv, Busy
    <3>3. msg[w].kind \in {"user", "resp"}
      BY <3>2, UserMessageIs
    <3> QED
      BY <2>1, <3>1, <3>3 DEF Responding
  <2>3. ~InitFlow(w)
    BY <2>2 DEF InitFlow, Responding, Inv, LocalInv, LoopInv
  <2>4. Past(w)'
    BY <1>0, <1>3, <2>3 DEF SaveFanIn, SaveWaiting, Clear, Return, Go, LocalOK, Past, Done
  <2>5. t.spoke # From(w)
    BY <1>3, <2>1, <2>2, <2>4, AnsweredCloses
  <2>6. store.pending[t.spoke] # 0
    BY <1>1 DEF WaitsFor, Expects
  <2>7. SaveFanIn(w)
    <3>1. pc[w] \in {"turn", "save", "clear"} /\ msg[w].kind = "resp" =>
            \A x \in Name : store.pending[x] # 0 => x = From(w)
      BY DEF JoinInv, JoinOf
    <3>2. pc[w] \notin {"save", "clear"}
      BY <1>1, <2>2, <2>5, <2>6, <3>1 DEF Responding
    <3> QED
      BY <1>3, <2>3, <3>2 DEF SaveWaiting, Clear
  <2>8. store' = st[w] /\ pc[w] = "fanin"
    BY <2>7 DEF SaveFanIn
  <2>9. st[w].pending[t.spoke] = t.id
    BY <1>1, <2>5, <2>8 DEF JoinInv, JoinOf, WaitsFor, Expects
  <2>10. st[w].status = "waiting_spoke" /\ st[w] \in State
    BY <2>8 DEF PhaseInv, Phase, Inv, LocalInv, LoopInv, Working
  <2> QED
    BY <2>8, <2>9, <2>10, NoneAssumption DEF WaitsFor, Expects
<1> QED
  BY <1>2, <1>3, StoreStepIs

\* A task that a save opens is awaited by the saved state.
LEMMA OpenedTaskAwaited ==
  ASSUME Inv, PhaseInv, JoinInv, NEW w \in Loop, SaveWaiting(w),
         NEW k \in DOMAIN todo[w], NEW t, todo[w][k] = t
  PROVE  WaitsFor(t.spoke, t.id)' /\ t.copy = 1
<1>1. pc[w] = "save" /\ store' = st[w]
  BY DEF SaveWaiting
<1>2. st[w].pending[t.spoke] = t.id /\ t.copy = 1
  BY <1>1 DEF JoinInv, JoinOf
<1>3. st[w].status = "waiting_spoke" /\ st[w] \in State
  BY <1>1 DEF PhaseInv, Phase, Inv, LocalInv, LoopInv, Working
<1> QED
  BY <1>1, <1>2, <1>3, NoneAssumption DEF WaitsFor, Expects

\* A user message that is not sent, or not dealt with, has no open task.
LEMMA FlowStartsAlone ==
  ASSUME Inv, SectionInv, StreamInv, TaskInv, UniqueInv, HandlerInv, JoinInv, OneFlow, Quiet, [Next]_vars,
         NEW u \in User, u \notin sent' \/ Open(UserMessage(u))',
         NEW t \in Task, OpenTask(t)'
  PROVE  FALSE
<1>0. Faults \cap {"publish", "crash", "ack"} = {} /\ LocalOK
  BY DEF Quiet, Inv, LocalInv
<1>1. UserMessage(u) \in Message /\ UserMessage(u).kind = "user" /\ UserMessage(u).id = u
  BY DEF UserMessage, Message
<1>2. sent \subseteq sent'
  BY HandleKeepsMessage DEF Next, vars, UserSends, SpokeAnswers, SpokeFails, LockExpires, FetchTimeout,
     Fetch, DeadLetter, AckWaitExpires, Settle, Crash
<1>3. ASSUME NEW s \in Task, OpenTask(s) PROVE FALSE
  <2>1. u \in sent /\ ~Open(UserMessage(u))
    BY <1>3 DEF JoinInv
  <2>2. Open(UserMessage(u))'
    BY <1>2, <2>1
  <2>3. ASSUME NEW v \in User, UserSends(v), UserMessage(u) = UserMessage(v) PROVE FALSE
    BY <2>1, <2>3, <1>1 DEF UserSends, OneFlow
  <2>4. ASSUME NEW m, m = UserMessage(u) PROVE Open(m)'
    BY <2>2, <2>4 DEF UserMessage
  <2>5. ASSUME NEW m, m = UserMessage(u) PROVE FALSE
    <3>1. Open(m)'
      BY <2>4, <2>5
    <3> QED
      BY <1>0, <1>1, <2>1, <2>3, <2>5, <3>1, OpenNext
  <2> QED
    BY <2>5
<1>4. ASSUME NEW w \in Loop, SaveWaiting(w), NEW k \in DOMAIN todo[w], todo[w][k] = t PROVE FALSE
  <2>1. pc[w] = "save" /\ UNCHANGED msg /\ msg[w] \in Message /\ pc'[w] = "publish"
    BY <1>0, <1>4 DEF SaveWaiting, Go, Inv, LocalInv, LoopInv, LocalOK
  <2>2. CASE msg[w].kind = "resp"
    <3>1. Responding(w) /\ ~Past(w)
      BY <2>1, <2>2 DEF Responding, Busy, Past, Done
    <3> QED
      BY <1>3, <3>1, SameTask
  <2>3. CASE msg[w].kind = "user"
    <3>1. msg[w] = UserMessage(u)
      <4>1. msg[w].id \in User /\ msg[w] = UserMessage(msg[w].id)
        BY <2>1, <2>3, UserMessageIs
      <4> QED
        BY <4>1 DEF OneFlow
    <3>2. u \in sent
      <4>1. PICK e \in stream : e.msg = msg[w]
        BY <2>1 DEF HandlerInv, Busy
      <4> QED
        BY <1>1, <3>1, <4>1 DEF StreamInv
    <3>3. Past(w)' /\ msg'[w] = UserMessage(u)
      BY <2>1, <3>1 DEF Past, Done
    <3>4. ~Open(UserMessage(u))'
      BY <3>3 DEF Open, UserMessage
    <3> QED
      BY <1>2, <3>2, <3>4
  <2> QED
    BY <2>1, <2>2, <2>3, UserMessageIs
<1> QED
  BY <1>3, <1>4, OpenTaskNext

\* What a handler knows of the saved state stays true while others work.
LEMMA JoinStays ==
  ASSUME NEW v \in Loop, JoinOf(v), Stays(v), UNCHANGED store \/ pc[v] = "publish" \/ pc[v] \notin PlaceInSection
  PROVE  JoinOf(v)'
BY DEF JoinOf, Stays, From, PlaceInSection

\* In a list without repetition every name has the number of its own task.
LEMMA PendingOfOnce ==
  ASSUME OneFlow, NEW list \in Delegations, NEW k \in DOMAIN list, list[k] \in Name
  PROVE  PendingOf(list)[list[k]] = nextTask - 1 + k
<1> DEFINE at == {j \in DOMAIN list : list[j] = list[k]}
<1>1. at = {k}
  BY DEF OneFlow
<1>2. PendingOf(list)[list[k]] = IF at = {} THEN 0 ELSE nextTask - 1 + CHOOSE i \in at : \A j \in at : j <= i
  BY DEF PendingOf
<1>3. k \in Int
  BY ConstantsAssumption
<1>4. (CHOOSE i \in at : \A j \in at : j <= i) = k
  BY <1>1, <1>3
<1> QED
  BY <1>1, <1>2, <1>4

LEMMA DelegateJoinOf ==
  ASSUME Inv, JoinInv, OneFlow, NEW w \in Loop, Delegate(w)
  PROVE  JoinOf(w)'
<1>0. LocalOK /\ JoinOf(w) /\ nextTask \in Nat
  BY NextTaskTyped DEF Inv, LocalInv, JoinInv
<1>1. PICK list \in Delegations : DelegateTo(w, list)
  BY DEF Delegate
<1>2. /\ list \in Seq(Spoke \cup Ghost) /\ DOMAIN list = 1..Len(list) /\ Len(list) \in Nat
      /\ DOMAIN todo'[w] = 1..Len(list)
      /\ \A k \in 1..Len(list) : /\ todo'[w][k].id = nextTask + k - 1
                                 /\ todo'[w][k].spoke = list[k]
                                 /\ todo'[w][k].copy = 1
  BY <1>1, DelegatedTodo
<1>3. pc[w] = "turn" /\ pc'[w] = "save" /\ UNCHANGED <<store, msg>>
  BY <1>0, <1>1 DEF Delegate, DelegateTo, Go, LocalOK, redis
<1>4. st'[w].pending = PendingOf(list)
  <2>1. st[w] \in State /\ NextLoop(w) \in State
    BY <1>3, NextLoopTyped
  <2>2. st'[w] = [NextLoop(w) EXCEPT !.status = "waiting_spoke", !.pending = PendingOf(list)]
    BY <1>0, <1>1 DEF DelegateTo, LocalOK
  <2> QED
    BY <2>1, <2>2 DEF State
<1>5. ASSUME NEW k \in DOMAIN todo'[w]
      PROVE  st'[w].pending[todo'[w][k].spoke] = todo'[w][k].id /\ todo'[w][k].copy = 1
  <2>1. list[k] \in Name
    BY <1>2, <1>5 DEF Name
  <2>2. PendingOf(list)[list[k]] = nextTask - 1 + k
    BY <1>2, <1>5, <2>1, PendingOfOnce
  <2>3. nextTask - 1 + k = nextTask + k - 1
    BY <1>0, <1>2, <1>5
  <2> QED
    BY <1>2, <1>4, <1>5, <2>2, <2>3
<1> QED
  BY <1>0, <1>3, <1>5 DEF JoinOf, From

LEMMA AcceptResponseJoinOf ==
  ASSUME Inv, JoinInv, NEW w \in Loop, AcceptResponse(w)
  PROVE  JoinOf(w)'
<1>0. LocalOK
  BY DEF Inv, LocalInv
<1>1. pc[w] = "load" /\ UNCHANGED <<store, msg>> /\ st'[w] = Answered(w)
  BY <1>0 DEF AcceptResponse, redis, LocalOK
<1>2. pc'[w] = IF Answered(w).pending = NothingPending THEN "turn" ELSE "fanin"
  BY <1>0 DEF AcceptResponse, Go, LocalOK
<1>3. store \in State /\ From(w) \in Name
  BY <1>1, AnsweredTyped DEF AcceptResponse
<1>4. Answered(w).pending = [store.pending EXCEPT ![From(w)] = 0]
  BY <1>3 DEF Answered, State
<1>5. \A x \in Name : x # From(w) => Answered(w).pending[x] = store.pending[x]
  BY <1>3, <1>4 DEF State, Pending
<1>6. Answered(w).pending = NothingPending => \A x \in Name : store.pending[x] # 0 => x = From(w)
  BY <1>5 DEF NothingPending
<1>7. From(w)' = From(w)
  BY <1>1 DEF From
<1> QED
  BY <1>1, <1>2, <1>5, <1>6, <1>7 DEF JoinOf

LEMMA JoinOfNext ==
  ASSUME Inv, SectionInv, PhaseInv, JoinInv, OneFlow, Quiet, [Next]_vars, NEW v \in Loop
  PROVE  JoinOf(v)'
<1>0. LocalOK /\ JoinOf(v)
  BY DEF Inv, LocalInv, JoinInv
<1>1. CASE \/ UNCHANGED vars \/ FetchTimeout \/ LockExpires
           \/ \E u \in User : UserSends(u)
           \/ \E t \in tasks : SpokeAnswers(t) \/ SpokeFails(t)
           \/ \E w \in Loop : DeadLetter(w) \/ AckWaitExpires(w)
  <2>1. Stays(v) /\ UNCHANGED store
    BY <1>1 DEF vars, local, redis, FetchTimeout, LockExpires, UserSends, SpokeAnswers, SpokeFails,
                DeadLetter, AckWaitExpires, Stays
  <2> QED
    BY <1>0, <2>1, JoinStays
<1>2. ASSUME NEW w \in Loop, w # v, Fetch(w) \/ Settle(w) \/ Crash(w) \/ Handle(w) PROVE JoinOf(v)'
  <2>1. Stays(v)
    BY <1>2, StepOfLoop DEF OthersStay
  <2>2. UNCHANGED store \/ InSection(w)
    BY <1>2, StoreStep DEF Fetch, Settle, Crash, redis
  <2>3. UNCHANGED store \/ pc[v] \notin PlaceInSection
    BY <1>2, <2>2, AloneAtWork
  <2> QED
    BY <1>0, <2>1, <2>3, JoinStays
<1>3. CASE Fetch(v) \/ Settle(v) \/ Crash(v)
  BY <1>0, <1>3 DEF Fetch, Settle, Crash, Forget, Go, LocalOK, JoinOf
<1>4. CASE Handle(v)
  <2>1. CASE AcceptResponse(v)
    BY <2>1, AcceptResponseJoinOf
  <2>2. CASE Delegate(v)
    BY <2>2, DelegateJoinOf
  <2>3. CASE AcceptHandoff(v)
    <3>1. msg[v].handoff \in Handoff
      BY <2>3, HandoffTodo
    <3> QED
      BY <3>1 DEF OneFlow
  <2>4. CASE Finalize(v)
    <3>1. pc[v] = "turn" /\ pc'[v] = "clear" /\ UNCHANGED <<msg, store>>
      BY <1>0, <2>4 DEF Finalize, Go, LocalOK, redis
    <3> QED
      BY <1>0, <3>1 DEF JoinOf, From
  <2>5. CASE SaveWaiting(v)
    BY <1>0, <2>5 DEF SaveWaiting, Go, LocalOK, JoinOf
  <2>6. CASE InitFlow(v)
    BY <1>0, <2>6 DEF InitFlow, Go, LocalOK, JoinOf, Inv, LocalInv, LoopInv
  <2>7. CASE Publish(v)
    <3>1. pc[v] = "publish" /\ pc'[v] \in {"publish", "unlock"}
          /\ (pc'[v] = "publish" => todo'[v] = Tail(todo[v]))
      BY <2>7, PublishSteps
    <3>2. \A k \in DOMAIN Tail(todo[v]) : Tail(todo[v])[k].copy = 1
      BY <1>0, <3>1, HeadAndTail DEF JoinOf
    <3> QED
      BY <3>1, <3>2 DEF JoinOf
  <2>8. CASE \/ AcquireLock(v) \/ LockFails(v) \/ RedisFails(v) \/ SaveReplyLost(v)
             \/ IgnoreResponse(v) \/ SaveFanIn(v) \/ BrainFails(v) \/ PublishFails(v)
             \/ Clear(v) \/ PublishFinal(v) \/ Unlock(v)
    <3>1. pc'[v] \notin {"fanin", "turn", "save", "clear", "publish"}
      BY <1>0, <2>8 DEF AcquireLock, LockFails, RedisFails, SaveReplyLost, IgnoreResponse, SaveFanIn,
         BrainFails, PublishFails, Clear, PublishFinal, Unlock, Return, Go, LocalOK
    <3> QED
      BY <3>1 DEF JoinOf
  <2> QED
    BY <1>4, <2>1, <2>2, <2>3, <2>4, <2>5, <2>6, <2>7, <2>8 DEF Handle
<1> QED
  BY <1>1, <1>2, <1>3, <1>4 DEF Next

LEMMA JoinNext ==
  ASSUME Inv, SectionInv, PhaseInv, StreamInv, TaskInv, UniqueInv, HandlerInv, JoinInv,
         OneFlow, Quiet, [Next]_vars
  PROVE  JoinInv'
<1>1. ASSUME NEW t \in Task, OpenTask(t)' PROVE WaitsFor(t.spoke, t.id)' /\ t.copy = 1
  <2>1. CASE OpenTask(t)
    BY <1>1, <2>1, OpenTaskAwaited DEF JoinInv
  <2>2. CASE \E w \in Loop : SaveWaiting(w) /\ \E k \in DOMAIN todo[w] : todo[w][k] = t
    BY <2>2, OpenedTaskAwaited
  <2> QED
    BY <1>1, <2>1, <2>2, OpenTaskNext
<1>2. ASSUME NEW u \in User, (u \notin sent \/ Open(UserMessage(u)))', NEW t \in Task, OpenTask(t)'
      PROVE  FALSE
  BY <1>2, FlowStartsAlone
<1>3. \A w \in Loop : JoinOf(w)'
  BY JoinOfNext
<1> QED
  BY <1>1, <1>2, <1>3 DEF JoinInv

LEMMA JoinInit == Init => JoinInv
BY DEF Init, JoinInv, JoinOf, OpenTask, Open, InStream

\* The response that starts a turn is the last of its flow.
LEMMA JoinIsComplete ==
  ASSUME Inv, SectionInv, TaskInv, HandlerInv, JoinInv, OneFlow
  PROVE  FanInComplete
<1> SUFFICES ASSUME NEW w \in Loop, pc[w] = "turn", msg[w].kind = "resp"
             PROVE  /\ tasks = {}
                    /\ \A e \in stream : e.msg.kind = "resp" /\ e.msg # msg[w] => ~AwaitsHandling(e)
  BY DEF FanInComplete
<1>1. Responding(w) /\ ~Past(w) /\ InSection(w)
  BY DEF Responding, Busy, Past, Done, InSection, PlaceInSection
<1>2. ASSUME NEW t \in Task, OpenTask(t) PROVE t = msg[w].task
  <2>1. store.pending[t.spoke] # 0 /\ t.spoke \in Name
    BY <1>2 DEF JoinInv, WaitsFor, Expects, Task
  <2>2. t.spoke = From(w)
    BY <2>1 DEF JoinInv, JoinOf
  <2> QED
    BY <1>1, <1>2, <2>2, SameTask
<1>3. tasks = {}
  <2>1. \A t \in tasks : t \in Task /\ OpenTask(t)
    BY DEF Inv, SharedOK, OpenTask
  <2>2. msg[w].task \notin tasks
    BY <1>1, SameTask
  <2> QED
    BY <1>2, <2>1, <2>2
<1>4. ASSUME NEW e \in stream, e.msg.kind = "resp", e.msg # msg[w], AwaitsHandling(e) PROVE FALSE
  <2>1. e.msg \in Message /\ e.msg.task \in Task
    BY <1>4, EntryIs, UserMessageIs
  <2>2. ASSUME NEW v \in Loop, msg[v] = e.msg, Past(v) PROVE FALSE
    <3>1. pc[v] \in {"final", "publish"}
      BY <1>4, <2>2 DEF Past, Done, AwaitsHandling
    <3>2. v = w
      BY <1>1, <3>1, AloneAtWork DEF PlaceInSection
    <3> QED
      BY <1>4, <2>2, <3>2
  <2>3. Open(e.msg)
    BY <2>2 DEF Open, InStream
  <2>4. OpenTask(e.msg.task)
    BY <1>4, <2>1, <2>3 DEF OpenTask
  <2>5. e.msg.task = msg[w].task
    BY <1>2, <2>1, <2>4
  <2> QED
    BY <1>1, <1>4, <2>1, <2>3, <2>5, SameTask
<1> QED
  BY <1>3, <1>4

\* In a conversation of one user message, whose spokes suggest no handoffs, and whose brain names
\* nobody twice in a list, the join of ProcessSpokeResponse waits for all delegated spokes: when
\* a response starts a turn, no task is unanswered and no other response is unread.  Failures of
\* Redis before a write, of the brain, of the card cache and of the spokes do not change that.
THEOREM TheJoinIsComplete ==
  ASSUME ~Overrun, OneFlow, Quiet
  PROVE  Spec => []FanInComplete
<1>1. Init => JoinInv
  BY JoinInit
<1>2. Inv /\ SectionInv /\ PhaseInv /\ StreamInv /\ TaskInv /\ HandlerInv /\ JoinInv /\ [Next]_vars => JoinInv'
  BY UniqueEntries, JoinNext
<1>3. Inv /\ SectionInv /\ TaskInv /\ HandlerInv /\ JoinInv => FanInComplete
  BY JoinIsComplete
<1>4. "slow" \notin Faults
  BY DEF Quiet
<1>5. Spec => []Inv /\ []SectionInv /\ []PhaseInv /\ []StreamInv /\ []TaskInv /\ []HandlerInv
  BY <1>4, Invariance, SectionInvariance, PhaseInvariance, StreamInvariance, TaskInvariance,
     HandlerInvariance
<1> QED
  BY <1>1, <1>2, <1>3, <1>5, PTL DEF Spec
===============================================================================
