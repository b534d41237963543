---------------------------- MODULE RegistryProofs ----------------------------
(***************************************************************************)
(* Proofs about Registry, for any agents, hubs, ages and kinds of failure. *)
(***************************************************************************)
EXTENDS Registry, TLAPS

\* How old a registration may be, and what the history counts.
AgeInv ==
  /\ skipped <= events
  /\ \A a \in Agent : reg[a] # None =>
       reg[a] <= Threshold + skipped + (IF pruneDue THEN 1 ELSE 0)

Inv == TypeOK /\ AgeInv

LEMMA InitInv == Init => Inv
BY ConstantsAssumption DEF Init, Inv, AgeInv, TypeOK, Never, LongDown, Status

LEMMA UpToIsNext ==
  ASSUME NEW limit \in Nat, NEW n \in 0..limit
  PROVE  UpTo(n, limit) \in 0..limit /\ UpTo(n, limit) <= n + 1
BY DEF UpTo

LEMMA DeathAges ==
  ASSUME Inv, NEW a \in Agent
  PROVE  /\ UpTo(downFor[a], LongDown) \in 0..LongDown
         /\ UpTo(downFor[a], LongDown) <= downFor[a] + 1
<1>1. LongDown \in Nat
  BY ConstantsAssumption DEF LongDown
<1>2. downFor[a] \in 0..LongDown
  BY DEF Inv, TypeOK
<1> QED
  BY <1>1, <1>2, UpToIsNext

\* The actions of the agents' processes.
LEMMA AgentInv ==
  ASSUME Inv, NEW a \in Agent, StopAgent(a) \/ StartAgent(a) \/ Heartbeat(a)
  PROVE  Inv'
<1> USE ConstantsAssumption
    DEF Inv, TypeOK, AgeInv, agentVars, database, keeperVars, hubVars, history, Event, NoEvent
<1>1. UpTo(missed[a], Threshold) \in 0..Threshold
  BY UpToIsNext
<1>2. CASE StopAgent(a)
  BY <1>1, <1>2 DEF StopAgent, Missed
<1>3. CASE StartAgent(a)
  BY <1>3 DEF StartAgent, LongDown
<1>4. CASE Heartbeat(a)
  BY <1>1, <1>4 DEF Heartbeat, Missed
<1> QED
  BY <1>2, <1>3, <1>4

\* The subscriber and the pruner.
LEMMA SubscriberInv ==
  ASSUME Inv, NEW a \in Agent, Register(a) \/ UpdateStatus
  PROVE  Inv'
<1> USE ConstantsAssumption
    DEF Inv, TypeOK, AgeInv, agentVars, database, keeperVars, hubVars, history, Event, NoEvent
<1>1. UpTo(missed[a], Threshold) \in 0..Threshold
  BY UpToIsNext
<1>2. CASE Register(a)
  BY <1>1, <1>2 DEF Register, Missed
<1>3. CASE UpdateStatus
  BY <1>3 DEF UpdateStatus, Status
<1> QED
  BY <1>2, <1>3

\* The old copies of pruned agents are rows still.
LEMMA RowsStayRows ==
  ASSUME row \in [Client -> Row \cup {None}], NEW gone, Outdate(gone)
  PROVE  row' \in [Client -> Row \cup {None}]
<1> SUFFICES ASSUME NEW c \in Client
             PROVE  (IF row[c] # None /\ row[c].agent \in gone
                       THEN [row[c] EXCEPT !.old = TRUE] ELSE row[c]) \in Row \cup {None}
  BY DEF Outdate
<1>1. ASSUME row[c] # None PROVE [row[c] EXCEPT !.old = TRUE] \in Row
  BY <1>1 DEF Row
<1> QED
  BY <1>1

LEMMA PrunerInv == ASSUME Inv, Prune \/ PruneFails PROVE Inv'
<1> USE ConstantsAssumption
    DEF Inv, TypeOK, AgeInv, agentVars, database, keeperVars, hubVars, history, Event, NoEvent
<1>1. CASE Prune
  <2>1. PICK gone \in SUBSET Agent :
          /\ MustPrune \subseteq gone
          /\ reg' = [a \in Agent |-> IF a \in gone THEN None ELSE reg[a]]
          /\ status' = [a \in Agent |-> IF a \in gone THEN "stopped" ELSE status[a]]
          /\ pruned' = pruned \cup gone
          /\ Outdate(gone)
    BY <1>1 DEF Prune, MayPrune
  <2>2. \A a \in Agent : reg'[a] # None => reg'[a] = reg[a] /\ reg[a] <= Threshold
    BY <2>1 DEF MustPrune
  <2>3. AgeInv'
    BY <1>1, <2>2 DEF Prune
  <2>4. row' \in [Client -> Row \cup {None}]
    BY <2>1, RowsStayRows
  <2>5. status' \in [Agent -> Status]
    BY <2>1 DEF Status
  <2>6. TypeOK'
    BY <1>1, <2>1, <2>4, <2>5 DEF Prune, Outdate
  <2> QED
    BY <2>3, <2>6
<1>2. CASE PruneFails
  <2>1. AgeInv'
    BY <1>2 DEF PruneFails
  <2>2. events' \in 0..MaxEvents /\ skipped' \in 0..MaxEvents
    BY <1>2, <2>1 DEF PruneFails
  <2>3. TypeOK'
    BY <1>2, <2>2 DEF PruneFails
  <2> QED
    BY <2>1, <2>3
<1> QED
  BY <1>1, <1>2

LEMMA EvictInv == ASSUME Inv, NEW a \in Agent, Evict(a) PROVE Inv'
BY ConstantsAssumption
   DEF Evict, Invalidate, Inv, TypeOK, AgeInv, agentVars, database, keeperVars, hubVars, history, Event, NoEvent

\* The API.
LEMMA ServiceInv ==
  ASSUME Inv, NEW a \in Movable,
         Assign(a) \/ UnassignAgent(a) \/ DeleteRegistration(a) \/ InvalidateList(a)
  PROVE  Inv'
<1> USE ConstantsAssumption
    DEF Inv, TypeOK, AgeInv, agentVars, database, keeperVars, hubVars, history, Event, NoEvent
<1>1. CASE Assign(a)
  BY <1>1 DEF Assign, Status
<1>2. CASE UnassignAgent(a)
  BY <1>2 DEF UnassignAgent, Status
<1>3. CASE DeleteRegistration(a)
  <2>1. /\ reg' = [reg EXCEPT ![a] = None] \/ reg' = reg
        /\ unassign' \in [Agent -> {"idle", "delete", "invalidate"}]
        /\ events' \in 0..MaxEvents /\ events <= events'
    BY <1>3 DEF DeleteRegistration
  <2>2. \A b \in Agent : reg'[b] # None => reg'[b] = reg[b]
    BY <2>1
  <2>3. AgeInv'
    BY <1>3, <2>1, <2>2 DEF DeleteRegistration
  <2>4. reg' \in [Agent -> 0..Threshold + 1 + MaxEvents \cup {None}]
    BY <2>1
  <2> QED
    BY <1>3, <2>1, <2>3, <2>4 DEF DeleteRegistration
<1>4. CASE InvalidateList(a)
  BY <1>4 DEF InvalidateList, Invalidate
<1> QED
  BY <1>1, <1>2, <1>3, <1>4

\* The requests that write a whole row.
LEMMA RowInv ==
  ASSUME Inv, NEW c \in Client, (\E a \in Agent : ReadRow(c, a)) \/ WriteRow(c)
  PROVE  Inv'
<1> USE ConstantsAssumption
    DEF Inv, TypeOK, AgeInv, agentVars, database, keeperVars, hubVars, history, Event, NoEvent
<1>1. ASSUME NEW a \in Agent, ReadRow(c, a) PROVE Inv'
  <2>1. [agent |-> a, status |-> status[a], assigned |-> assigned[a], old |-> a \in restored] \in Row
    BY DEF Row
  <2> QED
    BY <1>1, <2>1 DEF ReadRow
<1>2. CASE WriteRow(c)
  <2>1. row[c] \in Row /\ row' \in [Client -> Row \cup {None}]
    BY <1>2 DEF WriteRow
  <2>2. row[c].agent \in Agent /\ row[c].status \in Status /\ row[c].assigned \in BOOLEAN
    BY <2>1 DEF Row
  <2>3. {row[c].status, "pending", "running", "stopped", "error"} \subseteq Status
    BY <2>2 DEF Status
  <2>4. /\ status' \in [Agent -> Status]
        /\ assigned' \in [Agent -> BOOLEAN]
        /\ restored' \subseteq Agent
    BY <1>2, <2>2, <2>3 DEF WriteRow
  <2> QED
    BY <1>2, <2>1, <2>4 DEF WriteRow
<1> QED
  BY <1>1, <1>2

\* The request handler and the hubs.
LEMMA HubInv ==
  ASSUME Inv, NEW h \in Hub, Refresh(h) \/ Handler(h) \/ HearHeartbeat(h)
  PROVE  Inv'
<1> USE ConstantsAssumption
    DEF Inv, TypeOK, AgeInv, agentVars, database, keeperVars, hubVars, history, Event, NoEvent
<1>1. CASE Refresh(h)
  BY <1>1 DEF Refresh
<1>2. CASE AnswerFromCache(h)
  BY <1>2 DEF AnswerFromCache
<1>3. CASE ReadRegistrations(h)
  BY <1>3 DEF ReadRegistrations, Registered
<1>4. CASE FillCache(h)
  BY <1>4 DEF FillCache
<1>5. CASE NoReply(h) \/ NoResponder(h)
  <2>1. /\ request' \in [Hub -> {"idle", "sent", "read", "answered", "lost"}]
        /\ events' \in 0..MaxEvents /\ events <= events'
    BY <1>5 DEF NoReply, NoResponder
  <2>2. UNCHANGED <<agentVars, beats, database, keeperVars, list, reply, cards, fetched, heard, history>>
    BY <1>5 DEF NoReply, NoResponder
  <2> QED
    BY <2>1, <2>2
<1>6. CASE Refreshed(h)
  BY <1>6 DEF Refreshed, Never
<1>7. CASE HearHeartbeat(h)
  BY <1>7 DEF HearHeartbeat
<1> QED
  BY <1>1, <1>2, <1>3, <1>4, <1>5, <1>6, <1>7 DEF Handler

LEMMA TimeInv == ASSUME Inv, Tick \/ ListExpires PROVE Inv'
<1> USE ConstantsAssumption
    DEF Inv, TypeOK, AgeInv, agentVars, database, keeperVars, hubVars, history, NoEvent
<1>1. CASE Tick
  <2>1. \A a \in Agent : UpTo(missed[a], Threshold) \in 0..Threshold
    BY UpToIsNext
  <2>2. \A a \in Agent : UpTo(downFor[a], LongDown) \in 0..LongDown
    BY DeathAges
  <2>3. \A h \in Hub : UpTo(fetched[h], Never) \in 0..Never
    BY UpToIsNext DEF Never
  <2>4. list' \in [cards : SUBSET Agent, age : 0..CacheTTL] \cup {None}
    <3>1. CASE list = None \/ list.age = CacheTTL
      BY <1>1, <3>1 DEF Tick
    <3>2. CASE ~(list = None \/ list.age = CacheTTL)
      <4>1. list \in [cards : SUBSET Agent, age : 0..CacheTTL] /\ list.age + 1 \in 0..CacheTTL
        BY <3>2
      <4>2. list' = [list EXCEPT !.age = list.age + 1]
        BY <1>1, <3>2 DEF Tick
      <4> QED
        BY <4>1, <4>2
    <3> QED
      BY <3>1, <3>2
  <2> QED
    BY <1>1, <2>1, <2>2, <2>3, <2>4 DEF Tick, Settled, LongDown
<1>2. CASE ListExpires
  BY <1>2 DEF ListExpires
<1> QED
  BY <1>1, <1>2

LEMMA NextInv == Inv /\ [Next]_vars => Inv'
<1> SUFFICES ASSUME Inv, [Next]_vars PROVE Inv'
  OBVIOUS
<1>1. CASE UNCHANGED vars
  BY <1>1 DEF Inv, TypeOK, AgeInv, vars, agentVars, database, keeperVars, hubVars, history
<1>2. CASE UpdateStatus
  <2>1. sub \in Agent
    BY <1>2 DEF UpdateStatus, Inv, TypeOK
  <2> QED
    BY <1>2, <2>1, SubscriberInv
<1> QED
  BY <1>1, <1>2, TimeInv, PrunerInv, AgentInv, SubscriberInv, EvictInv, ServiceInv, RowInv, HubInv DEF Next

LEMMA Invariance == Spec => []Inv
BY InitInv, NextInv, PTL DEF Spec

\* The registry's variables stay in their types.
THEOREM TypeCorrect == Spec => []TypeOK
BY Invariance, PTL DEF Inv

-----------------------------------------------------------------------------
(* A registration is not older than the silence of its agent.              *)

\* The heartbeat of this tick may still be sent or taken.
Pending(a) == IF due[a] \/ a \in beats THEN 1 ELSE 0

SilenceInv ==
  \A a \in Agent : reg[a] # None /\ missed[a] < Threshold => reg[a] <= missed[a] + Pending(a)

LEMMA NextSilence == Inv /\ SilenceInv /\ [Next]_vars => SilenceInv'
<1> SUFFICES ASSUME Inv, SilenceInv, [Next]_vars, NEW a \in Agent,
                    reg'[a] # None, missed'[a] < Threshold
             PROVE  reg'[a] <= missed'[a] + Pending(a)'
  BY DEF SilenceInv
<1> USE ConstantsAssumption
    DEF Inv, TypeOK, SilenceInv, Pending, agentVars, database, history
<1>1. CASE Tick
  BY <1>1 DEF Tick, Settled, UpTo
<1>2. ASSUME NEW b \in Agent, StopAgent(b) PROVE reg'[a] <= missed'[a] + Pending(a)'
  BY <1>2 DEF StopAgent, Missed, UpTo
<1>3. ASSUME NEW b \in Agent, StartAgent(b) PROVE reg'[a] <= missed'[a] + Pending(a)'
  BY <1>3 DEF StartAgent
<1>4. ASSUME NEW b \in Agent, Heartbeat(b) PROVE reg'[a] <= missed'[a] + Pending(a)'
  BY <1>4 DEF Heartbeat, Missed, UpTo
<1>5. ASSUME NEW b \in Agent, Register(b) PROVE reg'[a] <= missed'[a] + Pending(a)'
  BY <1>5 DEF Register, Missed, UpTo
<1>6. CASE Prune
  BY <1>6 DEF Prune
<1>7. ASSUME NEW b \in Movable, DeleteRegistration(b) PROVE reg'[a] <= missed'[a] + Pending(a)'
  BY <1>7 DEF DeleteRegistration
<1>8. CASE UNCHANGED <<due, beats, reg, missed>>
  BY <1>8
<1>9. ASSUME NEW b \in Agent, Evict(b) PROVE UNCHANGED <<due, beats, reg, missed>>
  BY <1>9 DEF Evict
<1>10. ASSUME NEW b \in Movable, Assign(b) \/ UnassignAgent(b) \/ InvalidateList(b)
       PROVE  UNCHANGED <<due, beats, reg, missed>>
  BY <1>10 DEF Assign, UnassignAgent, InvalidateList
<1>11. ASSUME NEW h \in Hub, Refresh(h) \/ Handler(h) \/ HearHeartbeat(h)
       PROVE  UNCHANGED <<due, beats, reg, missed>>
  BY <1>11 DEF Refresh, Handler, HearHeartbeat, AnswerFromCache, ReadRegistrations, FillCache,
               NoReply, NoResponder, Refreshed
<1>12. ListExpires \/ PruneFails \/ UpdateStatus \/ UNCHANGED vars
       => UNCHANGED <<due, beats, reg, missed>>
  BY DEF ListExpires, PruneFails, UpdateStatus, vars
<1>13. ASSUME NEW c \in Client, (\E b \in Agent : ReadRow(c, b)) \/ WriteRow(c)
       PROVE  UNCHANGED <<due, beats, reg, missed>>
  BY <1>13 DEF ReadRow, WriteRow
<1> QED
  BY <1>1, <1>2, <1>3, <1>4, <1>5, <1>6, <1>7, <1>8, <1>9, <1>10, <1>11, <1>12, <1>13 DEF Next

\* Only Prune marks agents as pruned.
LEMMA OnlyPrune == [Next]_vars /\ ~(pruned' \subseteq pruned) => Prune
<1> SUFFICES ASSUME [Next]_vars, ~Prune PROVE pruned' \subseteq pruned
  OBVIOUS
<1> USE DEF keeperVars
<1>1. ASSUME NEW b \in Agent, StopAgent(b) \/ StartAgent(b) \/ Heartbeat(b) \/ Register(b) \/ Evict(b)
      PROVE  pruned' \subseteq pruned
  BY <1>1 DEF StopAgent, StartAgent, Heartbeat, Register, Evict
<1>2. ASSUME NEW b \in Movable,
             Assign(b) \/ UnassignAgent(b) \/ DeleteRegistration(b) \/ InvalidateList(b)
      PROVE  pruned' \subseteq pruned
  BY <1>2 DEF Assign, UnassignAgent, DeleteRegistration, InvalidateList
<1>3. ASSUME NEW h \in Hub, Refresh(h) \/ Handler(h) \/ HearHeartbeat(h)
      PROVE  pruned' \subseteq pruned
  BY <1>3 DEF Refresh, Handler, HearHeartbeat, AnswerFromCache, ReadRegistrations, FillCache,
              NoReply, NoResponder, Refreshed
<1>4. Tick \/ ListExpires \/ PruneFails \/ UpdateStatus \/ UNCHANGED vars => pruned' \subseteq pruned
  BY DEF Tick, ListExpires, PruneFails, UpdateStatus, vars
<1>5. ASSUME NEW c \in Client, (\E b \in Agent : ReadRow(c, b)) \/ WriteRow(c)
      PROVE  pruned' \subseteq pruned
  BY <1>5 DEF ReadRow, WriteRow
<1> QED
  BY <1>1, <1>2, <1>3, <1>4, <1>5 DEF Next

LEMMA SilenceInvariance == Spec => [](Inv /\ SilenceInv)
<1>1. Init => SilenceInv
  BY DEF Init, SilenceInv
<1> QED
  BY <1>1, InitInv, NextInv, NextSilence, PTL DEF Spec

\* A live agent is deregistered only when a threshold of its heartbeats, but
\* for the one of the tick, have failed to register.
THEOREM PruningNeedsSilence == Spec => PruneNeedsSilence
<1>1. Inv /\ SilenceInv /\ [Next]_vars
      => [\A a \in Agent : a \in pruned' \ pruned => missed[a] >= Threshold - 1]_vars
  <2> SUFFICES ASSUME Inv, SilenceInv, [Next]_vars, NEW a \in Agent, a \in pruned' \ pruned
               PROVE  missed[a] >= Threshold - 1
    OBVIOUS
  <2>1. Prune
    BY OnlyPrune
  <2>2. a \in MayPrune
    BY <2>1 DEF Prune
  <2> QED
    BY <2>2, ConstantsAssumption DEF MayPrune, Inv, TypeOK, SilenceInv, Pending
<1> QED
  BY <1>1, SilenceInvariance, PTL DEF Spec, PruneNeedsSilence

-----------------------------------------------------------------------------
(* Whoever is heard was alive in this tick, and a registration is not      *)
(* younger than the death of its agent.                                    *)

AliveInv ==
  /\ \A a \in Agent : /\ up[a] \/ a \in beats => downFor[a] = 0
                      /\ due[a] => up[a]
                      /\ reg[a] # None => downFor[a] <= reg[a]
  /\ \A h \in Hub : request[h] # "lost" => \A a \in heard[h] : downFor[a] = 0

\* An agent that is not moved is running, and was read as running, only while it
\* is registered, but for what is from before its pruning.
StatusInv ==
  /\ \A a \in Agent \ Movable :
       /\ sub = a => reg[a] = 0
       /\ status[a] = "running" /\ a \notin restored => reg[a] # None
  /\ \A c \in Client :
       row[c] # None /\ row[c].agent \notin Movable /\ row[c].status = "running" /\ ~row[c].old
         => reg[row[c].agent] # None

LEMMA NextAlive == Inv /\ AliveInv /\ [Next]_vars => AliveInv'
<1> SUFFICES ASSUME Inv, AliveInv, [Next]_vars PROVE AliveInv'
  OBVIOUS
<1> USE ConstantsAssumption
    DEF Inv, TypeOK, AliveInv, agentVars, database, keeperVars, hubVars, history
<1>1. CASE Tick
  <2>1. \A a \in Agent : /\ UpTo(downFor[a], LongDown) \in 0..LongDown
                         /\ UpTo(downFor[a], LongDown) <= downFor[a] + 1
    BY DeathAges
  <2>2. \A h \in Hub : request'[h] # "lost" => heard'[h] = {}
    BY <1>1 DEF Tick, Settled
  <2>3. ASSUME NEW a \in Agent, reg'[a] # None PROVE downFor'[a] <= reg'[a]
    BY <1>1, <2>1, <2>3 DEF Tick
  <2>4. \A a \in Agent : (up'[a] \/ a \in beats' => downFor'[a] = 0) /\ (due'[a] => up'[a])
    BY <1>1 DEF Tick, Settled
  <2> QED
    BY <2>2, <2>3, <2>4
<1>2. ASSUME NEW b \in Agent, StopAgent(b) PROVE AliveInv'
  BY <1>2 DEF StopAgent
<1>3. ASSUME NEW b \in Agent, StartAgent(b) PROVE AliveInv'
  BY <1>3 DEF StartAgent
<1>4. ASSUME NEW b \in Agent, Heartbeat(b) PROVE AliveInv'
  BY <1>4 DEF Heartbeat
<1>5. ASSUME NEW b \in Agent, Register(b) PROVE AliveInv'
  BY <1>5 DEF Register
<1>6. CASE Prune
  BY <1>6 DEF Prune
<1>7. ASSUME NEW b \in Movable, DeleteRegistration(b) PROVE AliveInv'
  BY <1>7 DEF DeleteRegistration
<1>8. ASSUME NEW h \in Hub, Refresh(h) \/ HearHeartbeat(h) PROVE AliveInv'
  BY <1>8 DEF Refresh, HearHeartbeat
<1>9. ASSUME NEW h \in Hub, Handler(h) PROVE AliveInv'
  BY <1>9 DEF Handler, AnswerFromCache, ReadRegistrations, FillCache, NoReply, NoResponder, Refreshed
<1>10. CASE UNCHANGED <<agentVars, beats, reg, request, heard, downFor>>
  BY <1>10
<1>11. ASSUME NEW b \in Agent, Evict(b)
       PROVE  UNCHANGED <<agentVars, beats, reg, request, heard, downFor>>
  BY <1>11 DEF Evict
<1>12. ASSUME NEW b \in Movable, Assign(b) \/ UnassignAgent(b) \/ InvalidateList(b)
       PROVE  UNCHANGED <<agentVars, beats, reg, request, heard, downFor>>
  BY <1>12 DEF Assign, UnassignAgent, InvalidateList
<1>13. ListExpires \/ PruneFails \/ UpdateStatus \/ UNCHANGED vars
       => UNCHANGED <<agentVars, beats, reg, request, heard, downFor>>
  BY DEF ListExpires, PruneFails, UpdateStatus, vars
<1>14. ASSUME NEW c \in Client, (\E b \in Agent : ReadRow(c, b)) \/ WriteRow(c)
       PROVE  UNCHANGED <<agentVars, beats, reg, request, heard, downFor>>
  BY <1>14 DEF ReadRow, WriteRow
<1> QED
  BY <1>1, <1>2, <1>3, <1>4, <1>5, <1>6, <1>7, <1>8, <1>9, <1>10, <1>11, <1>12, <1>13, <1>14 DEF Next

LEMMA RowsAgents ==
  ASSUME Inv
  PROVE  \A c \in Client : row[c] # None => row[c].agent \in Agent
BY DEF Inv, TypeOK, Row

LEMMA NextStatus == Inv /\ StatusInv /\ [Next]_vars => StatusInv'
<1> SUFFICES ASSUME Inv, StatusInv, [Next]_vars PROVE StatusInv'
  OBVIOUS
<1> USE ConstantsAssumption DEF Inv, TypeOK, StatusInv, database, keeperVars, history
<1>1. CASE Tick
  <2>1. \A a \in Agent : reg[a] # None => reg'[a] # None
    BY <1>1 DEF Tick
  <2>2. UNCHANGED <<sub, status, row, restored>> /\ sub = None
    BY <1>1 DEF Tick, Settled
  <2> QED
    BY <2>1, <2>2, RowsAgents
<1>2. ASSUME NEW b \in Agent, Register(b) PROVE StatusInv'
  <2>1. \A a \in Agent : reg[a] # None => reg'[a] # None
    BY <1>2 DEF Register
  <2>2. UNCHANGED <<status, row, restored>>
    BY <1>2 DEF Register
  <2>3. \A a \in Agent : sub' = a => reg'[a] = 0
    BY <1>2 DEF Register
  <2> QED
    BY <2>1, <2>2, <2>3, RowsAgents
<1>3. CASE UpdateStatus
  BY <1>3 DEF UpdateStatus
<1>4. CASE Prune
  <2>1. PICK gone \in SUBSET Agent :
          /\ reg' = [a \in Agent |-> IF a \in gone THEN None ELSE reg[a]]
          /\ status' = [a \in Agent |-> IF a \in gone THEN "stopped" ELSE status[a]]
          /\ gone \subseteq MayPrune
          /\ Outdate(gone)
    BY <1>4 DEF Prune, MayPrune
  <2>2. \A a \in Agent \ Movable :
          /\ sub' = a => reg'[a] = 0
          /\ status'[a] = "running" /\ a \notin restored' => reg'[a] # None
    BY <1>4, <2>1 DEF Prune, MayPrune, Outdate
  <2>3. ASSUME NEW c \in Client, row'[c] # None, row'[c].agent \notin Movable,
               row'[c].status = "running", ~row'[c].old
        PROVE  reg'[row'[c].agent] # None
    <3>1. row[c] \in Row \cup {None}
      OBVIOUS
    <3>2. row'[c] = IF row[c] # None /\ row[c].agent \in gone
                      THEN [row[c] EXCEPT !.old = TRUE] ELSE row[c]
      BY <2>1 DEF Outdate
    <3>3. ~(row[c] # None /\ row[c].agent \in gone)
      BY <2>3, <3>1, <3>2 DEF Row
    <3> QED
      BY <2>1, <2>3, <3>1, <3>2, <3>3 DEF Row
  <2> QED
    BY <2>2, <2>3
<1>5. ASSUME NEW b \in Movable, Assign(b) \/ UnassignAgent(b) \/ DeleteRegistration(b)
      PROVE  StatusInv'
  <2>1. \A a \in Agent \ Movable : status'[a] = status[a] /\ reg'[a] = reg[a]
    BY <1>5 DEF Assign, UnassignAgent, DeleteRegistration
  <2>2. UNCHANGED <<sub, row, restored>>
    BY <1>5 DEF Assign, UnassignAgent, DeleteRegistration
  <2> QED
    BY <2>1, <2>2, RowsAgents
<1>6. CASE UNCHANGED <<sub, status, reg, row, restored>>
  BY <1>6
<1>7. ASSUME NEW b \in Agent, StopAgent(b) \/ StartAgent(b) \/ Heartbeat(b) \/ Evict(b)
      PROVE  UNCHANGED <<sub, status, reg, row, restored>>
  BY <1>7 DEF StopAgent, StartAgent, Heartbeat, Evict
<1>8. ASSUME NEW b \in Movable, InvalidateList(b) PROVE UNCHANGED <<sub, status, reg, row, restored>>
  BY <1>8 DEF InvalidateList
<1>9. ASSUME NEW h \in Hub, Refresh(h) \/ Handler(h) \/ HearHeartbeat(h)
      PROVE  UNCHANGED <<sub, status, reg, row, restored>>
  BY <1>9 DEF Refresh, Handler, HearHeartbeat, AnswerFromCache, ReadRegistrations, FillCache,
              NoReply, NoResponder, Refreshed
<1>10. ListExpires \/ PruneFails \/ UNCHANGED vars => UNCHANGED <<sub, status, reg, row, restored>>
  BY DEF ListExpires, PruneFails, vars
<1>11. ASSUME NEW c \in Client, NEW b \in Agent, ReadRow(c, b) PROVE StatusInv'
  <2>1. row'[c] = [agent |-> b, status |-> status[b], assigned |-> assigned[b], old |-> b \in restored]
    BY <1>11 DEF ReadRow
  <2>2. \A d \in Client : d # c => row'[d] = row[d]
    BY <1>11 DEF ReadRow
  <2> QED
    BY <1>11, <2>1, <2>2 DEF ReadRow
<1>12. ASSUME NEW c \in Client, WriteRow(c) PROVE StatusInv'
  <2>1. row[c] \in Row /\ row[c] # None
    BY <1>12 DEF WriteRow
  <2>2. row[c].agent \in Agent
    BY <2>1 DEF Row
  <2>3. \A d \in Client : row'[d] # None => row'[d] = row[d]
    BY <1>12 DEF WriteRow
  <2>4. ASSUME NEW a \in Agent \ Movable, status'[a] = "running", a \notin restored'
        PROVE  reg'[a] # None
    BY <1>12, <2>1, <2>2, <2>4 DEF WriteRow
  <2> QED
    BY <1>12, <2>3, <2>4 DEF WriteRow
<1> QED
  BY <1>1, <1>2, <1>3, <1>4, <1>5, <1>6, <1>7, <1>8, <1>9, <1>10, <1>11, <1>12 DEF Next

LEMMA AliveInvariance == Spec => [](Inv /\ AliveInv /\ StatusInv)
<1>1. Init => AliveInv /\ StatusInv
  BY ConstantsAssumption DEF Init, AliveInv, StatusInv
<1> QED
  BY <1>1, InitInv, NextInv, NextAlive, NextStatus, PTL DEF Spec

\* The keeper reports an agent that died as running for no longer than it takes
\* to prune it, however many requests write copies of its row, but for the copies
\* from before the pruning and the phase of the cluster.
THEOREM DeadAreNotRunning == Spec => []DeadIsNotRunning
<1>1. Inv /\ AliveInv /\ StatusInv => DeadIsNotRunning
  BY ConstantsAssumption
     DEF Inv, TypeOK, AgeInv, AliveInv, StatusInv, DeadIsNotRunning, PruneBound
<1> QED
  BY <1>1, AliveInvariance, PTL

-----------------------------------------------------------------------------
(* Each cache adds its age to the age of what it was filled with.          *)

CacheInv ==
  /\ list # None => \A a \in list.cards : downFor[a] <= PruneBound + list.age
  /\ \A h \in Hub :
       /\ request[h] = "read" => \A a \in reply[h] : downFor[a] <= PruneBound
       /\ request[h] = "answered" => \A a \in reply[h] : downFor[a] <= PruneBound + CacheTTL
       /\ request[h] # "lost" /\ fetched[h] <= Freshness =>
            \A a \in cards[h] : downFor[a] <= PruneBound + CacheTTL + fetched[h]

LEMMA NextCache == Inv /\ AliveInv /\ CacheInv /\ [Next]_vars => CacheInv'
<1> SUFFICES ASSUME Inv, AliveInv, CacheInv, [Next]_vars PROVE CacheInv'
  OBVIOUS
<1> USE ConstantsAssumption
    DEF Inv, TypeOK, CacheInv, PruneBound, agentVars, database, keeperVars, hubVars, history
<1>1. CASE Tick
  <2>1. \A a \in Agent : downFor'[a] \in Nat /\ downFor'[a] <= downFor[a] + 1
    <3>1. \A a \in Agent : /\ UpTo(downFor[a], LongDown) \in 0..LongDown
                           /\ UpTo(downFor[a], LongDown) <= downFor[a] + 1
      BY DeathAges
    <3> QED
      BY <1>1, <3>1 DEF Tick
  <2>2. list' # None => \A a \in list'.cards : downFor'[a] <= PruneBound' + list'.age
    <3> SUFFICES ASSUME list' # None, NEW a \in list'.cards
                 PROVE  downFor'[a] <= PruneBound' + list'.age
      OBVIOUS
    <3>1. list # None /\ list' = [list EXCEPT !.age = list.age + 1]
      BY <1>1 DEF Tick
    <3>2. list \in [cards : SUBSET Agent, age : 0..CacheTTL]
      BY <3>1
    <3>3. a \in list.cards /\ list'.age = list.age + 1
      BY <3>1, <3>2
    <3> QED
      BY <1>1, <2>1, <3>1, <3>2, <3>3 DEF Tick
  <2>3. ASSUME NEW h \in Hub, request'[h] # "lost", fetched'[h] <= Freshness
        PROVE  \A a \in cards'[h] : downFor'[a] <= PruneBound' + CacheTTL + fetched'[h]
    <3>1. fetched'[h] = fetched[h] + 1
      BY <1>1, <2>3 DEF Tick, UpTo, Never
    <3> QED
      BY <1>1, <2>1, <2>3, <3>1 DEF Tick
  <2>4. \A h \in Hub : request'[h] \notin {"read", "answered"}
    BY <1>1 DEF Tick, Settled
  <2> QED
    BY <2>2, <2>3, <2>4
<1>2. ASSUME NEW b \in Agent, StartAgent(b) PROVE CacheInv'
  BY <1>2 DEF StartAgent
<1>3. CASE PruneFails
  BY <1>3 DEF PruneFails
<1>4. ASSUME NEW b \in Agent, Evict(b) PROVE CacheInv'
  BY <1>4 DEF Evict, Invalidate
<1>5. ASSUME NEW b \in Movable, InvalidateList(b) PROVE CacheInv'
  BY <1>5 DEF InvalidateList, Invalidate
<1>6. CASE ListExpires
  BY <1>6 DEF ListExpires
<1>7. ASSUME NEW h \in Hub, Refresh(h) \/ HearHeartbeat(h) PROVE CacheInv'
  BY <1>7 DEF Refresh, HearHeartbeat, AliveInv
<1>8. ASSUME NEW h \in Hub, AnswerFromCache(h) PROVE CacheInv'
  BY <1>8 DEF AnswerFromCache
<1>9. ASSUME NEW h \in Hub, ReadRegistrations(h) PROVE CacheInv'
  <2>1. \A a \in Registered : downFor[a] <= PruneBound
    BY DEF Registered, AgeInv, AliveInv
  <2> QED
    BY <1>9, <2>1 DEF ReadRegistrations
<1>10. ASSUME NEW h \in Hub, FillCache(h) PROVE CacheInv'
  BY <1>10 DEF FillCache
<1>11. ASSUME NEW h \in Hub, NoReply(h) \/ NoResponder(h) PROVE CacheInv'
  BY <1>11 DEF NoReply, NoResponder
<1>12. ASSUME NEW h \in Hub, Refreshed(h) PROVE CacheInv'
  BY <1>12 DEF Refreshed
<1>13. CASE UNCHANGED <<list, hubVars, skipped, downFor>>
  BY <1>13
<1>14. ASSUME NEW b \in Agent, StopAgent(b) \/ Heartbeat(b) \/ Register(b)
       PROVE  UNCHANGED <<list, hubVars, skipped, downFor>>
  BY <1>14 DEF StopAgent, Heartbeat, Register
<1>15. ASSUME NEW b \in Movable, Assign(b) \/ UnassignAgent(b) \/ DeleteRegistration(b)
       PROVE  UNCHANGED <<list, hubVars, skipped, downFor>>
  BY <1>15 DEF Assign, UnassignAgent, DeleteRegistration
<1>16. Prune \/ UpdateStatus \/ UNCHANGED vars => UNCHANGED <<list, hubVars, skipped, downFor>>
  BY DEF Prune, UpdateStatus, vars
<1>17. ASSUME NEW c \in Client, (\E b \in Agent : ReadRow(c, b)) \/ WriteRow(c)
       PROVE  UNCHANGED <<list, hubVars, skipped, downFor>>
  BY <1>17 DEF ReadRow, WriteRow
<1> QED
  BY <1>1, <1>2, <1>3, <1>4, <1>5, <1>6, <1>7, <1>8, <1>9, <1>10, <1>11, <1>12, <1>13, <1>14,
     <1>15, <1>16, <1>17 DEF Next, Handler

LEMMA CacheInvariance == Spec => [](Inv /\ CacheInv)
<1>1. Init => CacheInv
  BY ConstantsAssumption DEF Init, CacheInv
<1> QED
  BY <1>1, NextCache, InitInv, NextInv, AliveInvariance, PTL DEF Spec

\* No hub uses the card of an agent that died longer ago than the threshold,
\* the failed runs of the pruner and the two caches account for.
THEOREM StalenessIsBounded == Spec => []StalenessBounded
<1>1. Inv /\ CacheInv => StalenessBounded
  BY ConstantsAssumption
     DEF Inv, TypeOK, CacheInv, StalenessBounded, Serves, StaleBound, PruneBound, Never
<1> QED
  BY <1>1, CacheInvariance, PTL
=============================================================================
