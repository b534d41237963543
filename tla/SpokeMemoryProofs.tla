--------------------------- MODULE SpokeMemoryProofs ---------------------------
(***************************************************************************)
(* What TLAPS proves of SpokeMemory, for all agents, threads, limits and   *)
(* failures: type correctness, that a question is followed by its answer,  *)
(* that the brain is shown every turn no consolidation has seen, and that  *)
(* no turn disappears that none has seen.                                  *)
(***************************************************************************)
EXTENDS SpokeMemory, SequenceTheorems, TLAPS

-----------------------------------------------------------------------------
(* Types                                                                   *)

\* The local variables of a handler.
Sound(h) ==
  /\ h \in Handler
  /\ h.pc # "idle" => h.event \in Events /\ delivered[h.event] >= 1
  /\ h.pc = "clear" /\ Schema[h.event] = "agent-delegation" => Context[h.event] > 0
  /\ h.pc = "context" => h.left > 0 /\ h.left <= Context[h.event]
  /\ h.pc = "append" => Len(h.copy) <= Limit
  /\ h.pc = "reason" => h.left <= MaxSteps
  /\ h.pc \in {"history", "consolidate"} => Schema[h.event] = "end-thread"

SharedOK ==
  /\ memory \in Seq(Turn)
  /\ stream \in [Events -> {"ready", "taken", "done", "dead"}]
  /\ delivered \in [Events -> 0..MaxDeliver]
  /\ faults \in 0..MaxFaults
  /\ blank \subseteq Delegations
  /\ handed \subseteq Turn /\ missing \subseteq Turn
  /\ disturbed \in BOOLEAN

LocalOK ==
  /\ loop \in [Loops -> Handler]
  /\ \A l \in Loops : Sound(loop[l])

Inv == SharedOK /\ LocalOK

LEMMA HandlerMoves ==
  ASSUME LocalOK, NEW l \in Loops, NEW h, Sound(h)', loop' = [loop EXCEPT ![l] = h], UNCHANGED delivered
  PROVE  LocalOK'
<1>1. h \in Handler
  BY DEF Sound
<1>2. \A k \in Loops : loop'[k] = IF k = l THEN h ELSE loop[k]
  BY DEF LocalOK
<1>3. \A k \in Loops : Sound(loop[k])'
  BY <1>2 DEF LocalOK, Sound
<1> QED
  BY <1>1, <1>3 DEF LocalOK

\* The turn that a handler appends.
LEMMA TurnTyped ==
  ASSUME Inv, NEW l \in Loops, pc(l) # "idle", NEW role \in {"user", "assistant", "context"}
  PROVE  TurnOf(l, role) \in Turn
<1>1. event(l) \in Events /\ delivered[event(l)] >= 1 /\ delivered[event(l)] \in 0..MaxDeliver
  BY DEF Inv, SharedOK, LocalOK, Sound, pc, event
<1>2. delivered[event(l)] \in 1..MaxDeliver
  BY <1>1, ConstantsAssumption
<1> QED
  BY <1>1, <1>2 DEF TurnOf, Turn

\* Parts of the memory.
LEMMA MemoryParts ==
  ASSUME memory \in Seq(Turn)
  PROVE  /\ Window \in Seq(Turn) /\ Len(Window) <= Limit
         /\ RolledBack \in Seq(Turn)
         /\ Range(memory) \subseteq Turn
         /\ Range(Evicted) \subseteq Turn
<1>1. Len(memory) \in Nat /\ Limit \in Nat /\ Limit > 0
  BY ConstantsAssumption
<1>2. Range(memory) \subseteq Turn
  BY DEF Range
<1>3. Range(Evicted) \subseteq Turn
  <2>1. Evicted = [k \in 1..Len(memory) - Limit |-> memory[k]]
    BY <1>1 DEF Evicted
  <2>2. \A k \in 1..Len(memory) - Limit : memory[k] \in Turn
    BY <1>1
  <2> QED
    BY <2>1, <2>2 DEF Range
<1>4. Window \in Seq(Turn) /\ Len(Window) <= Limit
  <2>1. CASE Len(memory) <= Limit
    BY <2>1 DEF Window
  <2>2. CASE ~(Len(memory) <= Limit)
    <3>1. Window = SubSeq(memory, Len(memory) - Limit + 1, Len(memory))
      BY <2>2 DEF Window
    <3>2. Len(memory) - Limit + 1 \in 1..Len(memory) + 1 /\ Len(memory) \in 0..Len(memory)
      BY <1>1, <2>2
    <3>3. Window \in Seq(Turn) /\ Len(Window) = Limit
      BY <1>1, <3>1, <3>2, SubSeqProperties
    <3> QED
      BY <1>1, <3>3
  <2> QED
    BY <2>1, <2>2
<1>5. RolledBack \in Seq(Turn)
  <2>1. CASE memory = <<>>
    BY <2>1 DEF RolledBack
  <2>2. CASE memory # <<>>
    <3>1. Len(memory) > 0
      BY <2>2, <1>1
    <3>2. RolledBack = SubSeq(memory, 1, Len(memory) - 1)
      BY <2>2 DEF RolledBack, Front
    <3> QED
      BY <1>1, <3>1, <3>2, SubSeqProperties
  <2> QED
    BY <2>1, <2>2
<1> QED
  BY <1>2, <1>3, <1>4, <1>5

LEMMA FaultTyped == ASSUME Inv, Fault \/ UNCHANGED faults PROVE faults' \in 0..MaxFaults
BY ConstantsAssumption DEF Inv, SharedOK, Fault

LEMMA Parameters ==
  /\ Limit \in Nat /\ Limit > 0 /\ MaxSteps \in Nat /\ MaxSteps > 0 /\ MaxDeliver \in Nat
  /\ \A e \in Events : Context[e] \in Nat
  /\ None \notin Events
BY ConstantsAssumption

\* A handler of loop l that goes to a place where nothing more is required of it.
LEMMA HandlerGoes ==
  ASSUME Inv, NEW l \in Loops, pc(l) # "idle",
         NEW place \in {"read", "rollback", "answer", "check", "publish", "ack", "nak"},
         NEW copy \in Seq(Turn), NEW left \in Nat,
         loop' = [loop EXCEPT ![l] = [loop[l] EXCEPT !.pc = place, !.copy = copy, !.left = left]],
         UNCHANGED delivered
  PROVE  LocalOK'
<1> DEFINE h == [loop[l] EXCEPT !.pc = place, !.copy = copy, !.left = left]
<1>1. loop[l] \in Handler /\ event(l) \in Events /\ delivered[event(l)] >= 1
  BY DEF Inv, LocalOK, Sound, pc, event
<1>2. h \in Handler /\ h.pc = place /\ h.event = event(l)
  BY <1>1 DEF Handler, event
<1>3. \A x : x = h => Sound(x)'
  BY <1>1, <1>2 DEF Sound
<1>4. \A x : x = h => loop' = [loop EXCEPT ![l] = x]
  OBVIOUS
<1> HIDE DEF h
<1>5. PICK x : x = h
  OBVIOUS
<1> QED
  BY <1>3, <1>4, <1>5, HandlerMoves DEF Inv

LEMMA ClearInv == ASSUME Inv, NEW l \in Loops, Clear(l) PROVE Inv'
<1>0. /\ loop[l] \in Handler /\ event(l) \in Events /\ delivered[event(l)] >= 1
      /\ Context[event(l)] \in Nat /\ pc(l) # "idle"
      /\ Schema[event(l)] = "agent-delegation" => Context[event(l)] > 0
  BY Parameters DEF Inv, LocalOK, Sound, pc, event, Clear
<1>1. /\ memory' \in Seq(Turn) /\ disturbed' \in BOOLEAN /\ faults' \in 0..MaxFaults
      /\ handed' \subseteq Turn /\ missing' \subseteq Turn
  <2>1. memory' = memory \/ memory' = <<>>
    BY DEF Clear
  <2>2. memory \in Seq(Turn) /\ <<>> \in Seq(Turn)
    BY EmptySeq DEF Inv, SharedOK
  <2>3. faults' \in 0..MaxFaults
    BY FaultTyped DEF Clear
  <2>4. disturbed' \in BOOLEAN /\ handed' \subseteq Turn /\ missing' \subseteq Turn
    BY DEF Clear, Inv, SharedOK, Other, history
  <2> QED
    BY <2>1, <2>2, <2>3, <2>4
<1>2. SharedOK'
  BY <1>1 DEF Clear, Inv, SharedOK
<1>3. ASSUME Goes(l, "nak") PROVE LocalOK'
  <2>1. loop' = [loop EXCEPT ![l] = [loop[l] EXCEPT !.pc = "nak", !.copy = loop[l].copy, !.left = loop[l].left]]
    BY <1>0, <1>3 DEF Goes, Handler
  <2>2. loop[l].copy \in Seq(Turn) /\ loop[l].left \in Nat
    BY <1>0 DEF Handler
  <2> QED
    BY <1>0, <2>1, <2>2, HandlerGoes DEF Clear
<1>4. ASSUME NEW h, h = [loop[l] EXCEPT !.pc = IF Schema[event(l)] = "agent-delegation" THEN "context" ELSE "ack",
                                        !.left = Context[event(l)]],
             loop' = [loop EXCEPT ![l] = h]
      PROVE  LocalOK'
  <2>1. /\ h \in Handler /\ h.event = event(l) /\ h.left = Context[event(l)]
        /\ h.pc = IF Schema[event(l)] = "agent-delegation" THEN "context" ELSE "ack"
    BY <1>0, <1>4 DEF Handler, event
  <2>2. UNCHANGED delivered
    BY DEF Clear
  <2>3. Sound(h)'
    BY <1>0, <2>1, <2>2 DEF Sound
  <2> QED
    BY <1>4, <2>2, <2>3, HandlerMoves DEF Inv
<1>5. ASSUME loop' = [loop EXCEPT ![l].pc = IF Schema[event(l)] = "agent-delegation" THEN "context" ELSE "ack",
                                   ![l].left = Context[event(l)]]
      PROVE  LocalOK'
  <2>1. loop' = [loop EXCEPT ![l] = [loop[l] EXCEPT !.pc = IF Schema[event(l)] = "agent-delegation" THEN "context" ELSE "ack",
                                        !.left = Context[event(l)]]]
    BY <1>0, <1>5 DEF Inv, LocalOK, Handler
  <2> QED
    BY <2>1, <1>4
<1> QED
  BY <1>2, <1>3, <1>5 DEF Clear, Inv

LEMMA AppendContextInv == ASSUME Inv, NEW l \in Loops, AppendContext(l) PROVE Inv'
<1>0. /\ loop[l] \in Handler /\ event(l) \in Events /\ delivered[event(l)] >= 1
      /\ Context[event(l)] \in Nat /\ pc(l) # "idle" /\ loop[l].pc = "context"
      /\ loop[l].left \in Nat /\ loop[l].left > 0 /\ loop[l].left <= Context[event(l)]
      /\ loop[l].copy \in Seq(Turn)
  BY Parameters DEF Inv, LocalOK, Sound, pc, event, AppendContext, Handler
<1>1. memory' \in Seq(Turn)
  <2>1. memory \in Seq(Turn) /\ TurnOf(l, "context") \in Turn
    BY <1>0, TurnTyped DEF Inv, SharedOK
  <2>2. memory' = memory \/ memory' = Append(memory, TurnOf(l, "context"))
    BY DEF AppendContext
  <2> QED
    BY <2>1, <2>2, AppendProperties
<1>2. faults' \in 0..MaxFaults
  BY FaultTyped DEF AppendContext
<1>3. SharedOK'
  BY <1>1, <1>2 DEF AppendContext, Inv, SharedOK, history
<1>4. ASSUME Goes(l, "nak") PROVE LocalOK'
  <2>1. loop' = [loop EXCEPT ![l] = [loop[l] EXCEPT !.pc = "nak", !.copy = loop[l].copy, !.left = loop[l].left]]
    BY <1>0, <1>4 DEF Goes, Handler
  <2> QED
    BY <1>0, <2>1, HandlerGoes DEF AppendContext
<1>5. ASSUME loop' = [loop EXCEPT ![l].pc = IF loop[l].left = 1 THEN "read" ELSE "context", ![l].left = @ - 1]
      PROVE  LocalOK'
  <2>1. CASE loop[l].left = 1
    <3>1. loop' = [loop EXCEPT ![l] = [loop[l] EXCEPT !.pc = "read", !.copy = loop[l].copy, !.left = 0]]
      BY <1>0, <1>5, <2>1 DEF Handler, Inv, LocalOK
    <3> QED
      BY <1>0, <3>1, HandlerGoes DEF AppendContext
  <2>2. CASE loop[l].left # 1
    <3>1. PICK h : h = [loop[l] EXCEPT !.left = loop[l].left - 1]
      OBVIOUS
    <3>2. h \in Handler /\ h.event = event(l) /\ h.left = loop[l].left - 1 /\ h.pc = "context"
      BY <1>0, <2>2, <3>1 DEF Handler, event
    <3>3. loop' = [loop EXCEPT ![l] = h]
      BY <1>0, <1>5, <2>2, <3>1 DEF Handler, Inv, LocalOK
    <3>4. UNCHANGED delivered
      BY DEF AppendContext
    <3>5. Sound(h)'
      BY <1>0, <2>2, <3>2, <3>4 DEF Sound
    <3> QED
      BY <3>3, <3>4, <3>5, HandlerMoves DEF Inv
  <2> QED
    BY <2>1, <2>2
<1> QED
  BY <1>3, <1>4, <1>5 DEF AppendContext, Inv

LEMMA GetInv == ASSUME Inv, NEW l \in Loops, Get(l) PROVE Inv'
<1>0. /\ loop[l] \in Handler /\ event(l) \in Events /\ delivered[event(l)] >= 1
      /\ memory \in Seq(Turn) /\ Limit \in Nat
  BY Parameters DEF Inv, SharedOK, LocalOK, Sound, pc, event, Get, Handler
<1>1. SharedOK'
  BY FaultTyped DEF Get, Inv, SharedOK, history
<1>2. PICK copy \in {Window, <<>>} : loop' = [loop EXCEPT ![l].pc = "append", ![l].copy = copy]
  BY DEF Get
<1>3. copy \in Seq(Turn) /\ Len(copy) <= Limit
  <2>1. Window \in Seq(Turn) /\ Len(Window) <= Limit
    BY <1>0, MemoryParts
  <2>2. <<>> \in Seq(Turn) /\ Len(<<>>) <= Limit
    BY <1>0
  <2> QED
    BY <1>2, <2>1, <2>2
<1>4. PICK h : h = [loop[l] EXCEPT !.pc = "append", !.copy = copy]
  OBVIOUS
<1>5. h \in Handler /\ h.event = event(l) /\ h.pc = "append" /\ h.copy = copy
  BY <1>0, <1>3, <1>4 DEF Handler, event
<1>6. UNCHANGED delivered
  BY DEF Get
<1>7. Sound(h)'
  BY <1>0, <1>3, <1>5, <1>6 DEF Sound
<1>8. loop' = [loop EXCEPT ![l] = h]
  BY <1>0, <1>2, <1>4 DEF Handler, Inv, LocalOK
<1> QED
  BY <1>1, <1>6, <1>7, <1>8, HandlerMoves DEF Inv

\* The effect of appending a turn and of taking it back on the types.
LEMMA AppendsTyped ==
  ASSUME Inv, NEW l \in Loops, pc(l) # "idle", NEW role \in {"user", "assistant"}, NEW next,
         Appends(l, role, next)
  PROVE  SharedOK'
<1>1. memory \in Seq(Turn) /\ TurnOf(l, role) \in Turn
  BY TurnTyped DEF Inv, SharedOK
<1>2. memory' \in Seq(Turn)
  <2>1. memory' = memory \/ memory' = Append(memory, TurnOf(l, role))
    BY DEF Appends
  <2> QED
    BY <1>1, <2>1, AppendProperties
<1>3. faults' \in 0..MaxFaults
  BY FaultTyped DEF Appends
<1>4. missing' \subseteq Turn /\ disturbed' \in BOOLEAN
  BY <1>1 DEF Appends, Inv, SharedOK
<1> QED
  BY <1>2, <1>3, <1>4 DEF Appends, Inv, SharedOK

LEMMA AppendUserInv == ASSUME Inv, NEW l \in Loops, AppendUser(l) PROVE Inv'
<1>0. /\ loop[l] \in Handler /\ event(l) \in Events /\ delivered[event(l)] >= 1 /\ pc(l) # "idle"
      /\ MaxSteps \in Nat /\ MaxSteps > 0
  BY Parameters DEF Inv, LocalOK, Sound, pc, event, AppendUser
<1>1. SharedOK'
  BY <1>0, AppendsTyped DEF AppendUser
<1>2. PICK h : h = [loop[l] EXCEPT !.pc = "reason", !.copy = <<>>, !.left = 1]
  OBVIOUS
<1>3. h \in Handler /\ h.event = event(l) /\ h.pc = "reason" /\ h.left = 1
  BY <1>0, <1>2, EmptySeq DEF Handler, event
<1>4. UNCHANGED delivered
  BY DEF AppendUser, Appends
<1>5. Sound(h)'
  BY <1>0, <1>3, <1>4 DEF Sound
<1>6. loop' = [loop EXCEPT ![l] = h]
  BY <1>0, <1>2 DEF AppendUser, Appends, Handler, Inv, LocalOK
<1> QED
  BY <1>1, <1>4, <1>5, <1>6, HandlerMoves DEF Inv

LEMMA AppendAssistantInv == ASSUME Inv, NEW l \in Loops, AppendAssistant(l) PROVE Inv'
<1>0. loop[l] \in Handler /\ pc(l) # "idle" /\ <<>> \in Seq(Turn) /\ 1 \in Nat
  BY EmptySeq DEF Inv, LocalOK, pc, AppendAssistant
<1>1. SharedOK'
  BY <1>0, AppendsTyped DEF AppendAssistant
<1>2. loop' = [loop EXCEPT ![l] = [loop[l] EXCEPT !.pc = "check", !.copy = <<>>, !.left = 1]]
  BY <1>0 DEF AppendAssistant, Appends, Handler, Inv, LocalOK
<1>3. UNCHANGED delivered
  BY DEF AppendAssistant, Appends
<1>4. LocalOK'
  BY <1>0, <1>2, <1>3, HandlerGoes
<1> QED
  BY <1>1, <1>4 DEF Inv

LEMMA ReasonInv == ASSUME Inv, NEW l \in Loops, ExecuteStep(l) \/ BrainFails(l) PROVE Inv'
<1>0. /\ loop[l] \in Handler /\ event(l) \in Events /\ delivered[event(l)] >= 1 /\ pc(l) # "idle"
      /\ loop[l].copy \in Seq(Turn) /\ loop[l].left \in Nat /\ loop[l].pc = "reason" /\ MaxSteps \in Nat
  BY Parameters DEF Inv, LocalOK, Sound, pc, event, ExecuteStep, BrainFails, Handler
<1>1. SharedOK' /\ UNCHANGED delivered
  BY FaultTyped DEF ExecuteStep, BrainFails, Inv, SharedOK, history
<1>2. CASE loop[l].left < MaxSteps /\ loop' = [loop EXCEPT ![l].left = @ + 1]
  <2>1. PICK h : h = [loop[l] EXCEPT !.left = @ + 1]
    OBVIOUS
  <2>2. h \in Handler /\ h.event = event(l) /\ h.pc = "reason" /\ h.left = loop[l].left + 1
    BY <1>0, <2>1 DEF Handler, event
  <2>3. Sound(h)'
    BY <1>0, <1>1, <1>2, <2>2 DEF Sound
  <2>4. loop' = [loop EXCEPT ![l] = h]
    BY <1>2, <2>1
  <2> QED
    BY <1>1, <2>3, <2>4, HandlerMoves DEF Inv
<1>3. ASSUME NEW place \in {"answer", "rollback"}, loop' = [loop EXCEPT ![l].pc = place, ![l].left = 0]
      PROVE  Inv'
  <2>1. loop' = [loop EXCEPT ![l] = [loop[l] EXCEPT !.pc = place, !.copy = loop[l].copy, !.left = 0]]
    BY <1>0, <1>3 DEF Handler, Inv, LocalOK
  <2>2. LocalOK'
    BY <1>0, <1>1, <2>1, HandlerGoes
  <2> QED
    BY <1>1, <2>2 DEF Inv
<1> QED
  BY <1>2, <1>3 DEF ExecuteStep, BrainFails

\* A handler that only goes on to another place.
LEMMA OnlyGoes ==
  ASSUME Inv, NEW l \in Loops, pc(l) # "idle", NEW place \in {"publish", "ack", "nak"}, Goes(l, place),
         UNCHANGED delivered
  PROVE  LocalOK'
<1>1. loop[l] \in Handler /\ loop[l].copy \in Seq(Turn) /\ loop[l].left \in Nat
  BY DEF Inv, LocalOK, Handler
<1>2. loop' = [loop EXCEPT ![l] = [loop[l] EXCEPT !.pc = place, !.copy = loop[l].copy, !.left = loop[l].left]]
  BY <1>1 DEF Goes, Handler
<1> QED
  BY <1>1, <1>2, HandlerGoes

LEMMA RollbackLastInv == ASSUME Inv, NEW l \in Loops, RollbackLast(l) PROVE Inv'
<1>1. memory' \in Seq(Turn)
  BY MemoryParts DEF RollbackLast, Inv, SharedOK
<1>2. missing' \subseteq Turn
  BY DEF RollbackLast, Inv, SharedOK
<1>3. SharedOK'
  BY <1>1, <1>2, FaultTyped DEF RollbackLast, Inv, SharedOK
<1>4. LocalOK'
  BY OnlyGoes DEF RollbackLast
<1> QED
  BY <1>3, <1>4 DEF Inv

LEMMA ConsolidationInv == ASSUME Inv, NEW l \in Loops, TriggerMemoryConsolidation(l) PROVE Inv'
<1>1. handed' \subseteq Turn
  BY MemoryParts DEF TriggerMemoryConsolidation, Inv, SharedOK
<1>2. SharedOK'
  BY <1>1, FaultTyped DEF TriggerMemoryConsolidation, Inv, SharedOK
<1>3. LocalOK'
  BY OnlyGoes DEF TriggerMemoryConsolidation
<1> QED
  BY <1>2, <1>3 DEF Inv

LEMMA PublishResponseInv == ASSUME Inv, NEW l \in Loops, PublishResponse(l) PROVE Inv'
<1>1. SharedOK'
  BY FaultTyped DEF PublishResponse, Inv, SharedOK, history
<1>2. LocalOK'
  BY OnlyGoes DEF PublishResponse
<1> QED
  BY <1>1, <1>2 DEF Inv

LEMMA EndThreadInv == ASSUME Inv, NEW l \in Loops, GetHistory(l) \/ ConsolidateThread(l) PROVE Inv'
<1>0. /\ loop[l] \in Handler /\ event(l) \in Events /\ delivered[event(l)] >= 1 /\ pc(l) # "idle"
      /\ loop[l].copy \in Seq(Turn) /\ Schema[event(l)] = "end-thread" /\ memory \in Seq(Turn)
      /\ <<>> \in Seq(Turn)
  BY EmptySeq DEF Inv, SharedOK, LocalOK, Sound, pc, event, GetHistory, ConsolidateThread, Handler
<1>1. handed' \subseteq Turn
  BY <1>0 DEF GetHistory, ConsolidateThread, Range, Inv, SharedOK
<1>2. SharedOK' /\ UNCHANGED delivered
  BY <1>1, FaultTyped DEF GetHistory, ConsolidateThread, Inv, SharedOK
<1>3. PICK place \in {"clear", "consolidate"}, copy \in {memory, loop[l].copy, <<>>} :
        loop' = [loop EXCEPT ![l].pc = place, ![l].copy = copy]
  <2>1. CASE loop' = [loop EXCEPT ![l].pc = "clear"]
    <3>1. loop' = [loop EXCEPT ![l].pc = "clear", ![l].copy = loop[l].copy]
      BY <1>0, <2>1 DEF Handler, Inv, LocalOK
    <3> QED
      BY <3>1
  <2>2. CASE \E copy \in {memory, <<>>} : \E place \in {"clear", "consolidate"} :
               loop' = [loop EXCEPT ![l].pc = place, ![l].copy = copy]
    BY <2>2
  <2> QED
    BY <2>1, <2>2 DEF GetHistory, ConsolidateThread, Goes
<1>4. copy \in Seq(Turn)
  BY <1>0, <1>3
<1>5. PICK h : h = [loop[l] EXCEPT !.pc = place, !.copy = copy]
  OBVIOUS
<1>6. h \in Handler /\ h.event = event(l) /\ h.pc = place
  BY <1>0, <1>3, <1>4, <1>5 DEF Handler, event
<1>7. Sound(h)'
  BY <1>0, <1>2, <1>3, <1>6 DEF Sound
<1>8. loop' = [loop EXCEPT ![l] = h]
  BY <1>0, <1>3, <1>5 DEF Handler, Inv, LocalOK
<1> QED
  BY <1>2, <1>7, <1>8, HandlerMoves DEF Inv

LEMMA FetchInv == ASSUME Inv, NEW l \in Loops, Fetch(l) PROVE Inv'
<1>1. PICK e \in Serves[l] :
        /\ stream[e] = "ready" /\ delivered[e] < MaxDeliver
        /\ stream' = [stream EXCEPT ![e] = "taken"]
        /\ delivered' = [delivered EXCEPT ![e] = @ + 1]
        /\ loop' = [loop EXCEPT ![l] = [Idle EXCEPT !.pc = Routed(e), !.event = e]]
  BY DEF Fetch
<1>2. e \in Events /\ MaxDeliver \in Nat /\ delivered[e] \in 0..MaxDeliver
  BY ConstantsAssumption DEF Inv, SharedOK
<1>3. /\ delivered' \in [Events -> 0..MaxDeliver] /\ delivered'[e] >= 1
      /\ \A f \in Events : delivered[f] >= 1 => delivered'[f] >= 1
  BY <1>1, <1>2 DEF Inv, SharedOK
<1>4. SharedOK'
  BY <1>1, <1>2, <1>3 DEF Fetch, Inv, SharedOK, Other
<1>5. PICK h : h = [Idle EXCEPT !.pc = Routed(e), !.event = e]
  OBVIOUS
<1>6. h.pc = Routed(e) /\ h.event = e /\ h.copy = <<>> /\ h.left = 0
  BY <1>5 DEF Idle
<1>7. /\ Routed(e) \in {"clear", "history", "read"}
      /\ Routed(e) = "clear" /\ Schema[e] = "agent-delegation" => Context[e] > 0
      /\ Routed(e) = "history" => Schema[e] = "end-thread"
  <2>1. Schema[e] \in {"start-thread", "add-user-message", "agent-delegation", "end-thread"}
    BY <1>2, ConstantsAssumption
  <2> QED
    BY <2>1 DEF Routed
<1>8. Sound(h)'
  <2>1. h \in Handler
    <3>1. h = [pc |-> Routed(e), event |-> e, copy |-> <<>>, left |-> 0]
      BY <1>5 DEF Idle
    <3> QED
      BY <1>2, <1>7, <3>1, EmptySeq DEF Handler
  <2> QED
    BY <1>2, <1>3, <1>6, <1>7, <2>1 DEF Sound
<1>9. \A k \in Loops : loop'[k] = IF k = l THEN h ELSE loop[k]
  BY <1>1, <1>5 DEF Inv, LocalOK
<1>10. \A k \in Loops : Sound(loop[k])'
  BY <1>3, <1>8, <1>9 DEF Inv, LocalOK, Sound
<1>11. h \in Handler
  BY <1>8 DEF Sound
<1>12. LocalOK'
  BY <1>1, <1>5, <1>10, <1>11 DEF Inv, LocalOK
<1> QED
  BY <1>4, <1>12 DEF Inv

LEMMA IdleSound == Idle \in Handler /\ Idle.pc = "idle" /\ Sound(Idle)
<1>1. Idle \in Handler /\ Idle.pc = "idle"
  BY EmptySeq DEF Idle, Handler
<1> QED
  BY <1>1 DEF Sound

LEMMA ServerInv ==
  ASSUME Inv, NEW l \in Loops, DeadLetter(l) \/ Settle(l)
  PROVE  Inv'
<1>1. CASE DeadLetter(l)
  <2>1. Serves[l] \subseteq Events
    BY ConstantsAssumption
  <2> QED
    BY <1>1, <2>1 DEF DeadLetter, Inv, SharedOK, LocalOK, Sound, history
<1>2. CASE Settle(l)
  <2>1. stream' \in [Events -> {"ready", "taken", "done", "dead"}]
    BY <1>2 DEF Settle, Settles, Inv, SharedOK
  <2>2. SharedOK'
    BY <1>2, <2>1, FaultTyped DEF Settle, Inv, SharedOK, history
  <2>3. UNCHANGED delivered /\ loop' = [loop EXCEPT ![l] = Idle]
    BY <1>2 DEF Settle
  <2>4. \A h : h = Idle => Sound(h)'
    BY <2>3, IdleSound DEF Sound
  <2>5. LocalOK'
    BY <2>3, <2>4, HandlerMoves DEF Inv
  <2> QED
    BY <2>2, <2>5 DEF Inv
<1> QED
  BY <1>1, <1>2

LEMMA CrashInv == ASSUME Inv, Crash PROVE Inv'
<1>1. SharedOK'
  BY FaultTyped DEF Crash, Inv, SharedOK
<1>2. loop' = [l \in Loops |-> Idle] /\ UNCHANGED delivered
  BY DEF Crash
<1>3. \A h : h = Idle => Sound(h)' /\ h \in Handler
  BY <1>2, IdleSound DEF Sound
<1>4. \A l \in Loops : loop'[l] = Idle
  BY <1>2
<1>5. loop' \in [Loops -> Handler]
  BY <1>2, IdleSound
<1>6. LocalOK'
  BY <1>3, <1>4, <1>5 DEF LocalOK
<1> QED
  BY <1>1, <1>6 DEF Inv

LEMMA InitInv == Init => Inv
<1> SUFFICES ASSUME Init PROVE Inv
  OBVIOUS
<1>1. SharedOK
  <2>1. MaxDeliver \in Nat /\ MaxFaults \in Nat
    BY ConstantsAssumption
  <2>2. memory \in Seq(Turn)
    BY EmptySeq DEF Init
  <2>3. delivered \in [Events -> 0..MaxDeliver] /\ stream \in [Events -> {"ready", "taken", "done", "dead"}]
    BY <2>1 DEF Init
  <2>4. faults \in 0..MaxFaults /\ handed \subseteq Turn
    BY <2>1 DEF Init
  <2>5. disturbed \in BOOLEAN /\ blank \subseteq Delegations /\ missing \subseteq Turn
    BY DEF Init
  <2> QED
    BY <2>2, <2>3, <2>4, <2>5 DEF SharedOK
<1>2. \A l \in Loops : loop[l] = Idle
  BY DEF Init
<1>3. loop \in [Loops -> Handler]
  BY IdleSound DEF Init
<1> QED
  BY <1>1, <1>2, <1>3, IdleSound DEF Inv, LocalOK

LEMMA NextInv == Inv /\ [Next]_vars => Inv'
<1> SUFFICES ASSUME Inv, [Next]_vars PROVE Inv'
  OBVIOUS
<1>1. CASE UNCHANGED vars
  BY <1>1 DEF vars, history, Inv, SharedOK, LocalOK, Sound
<1>2. ASSUME NEW l \in Loops, Handle(l) PROVE Inv'
  BY <1>2, ClearInv, AppendContextInv, GetInv, AppendUserInv, ReasonInv, RollbackLastInv,
     AppendAssistantInv, ConsolidationInv, PublishResponseInv, EndThreadInv DEF Handle
<1> QED
  BY <1>1, <1>2, FetchInv, ServerInv, CrashInv DEF Next

LEMMA Invariance == Spec => []Inv
BY InitInv, NextInv, PTL DEF Spec

\* The memory and the variables of the handlers keep their types. The brain is shown no
\* more than Limit turns, a delegation appends no more turns than it brought along, and
\* the reasoning loop takes no more than its steps.
THEOREM TypeCorrect == Spec => []TypeOK
<1>1. Inv => TypeOK
  BY DEF Inv, SharedOK, LocalOK, Sound, TypeOK
<1> QED
  BY <1>1, Invariance, PTL

-----------------------------------------------------------------------------
(* The memory                                                              *)

\* The handler has asked, and nobody has answered yet.
Asking(l) == pc(l) \in {"reason", "rollback", "answer"}

\* Nobody has appended a turn that has still to be answered or evicted.
Settled(l) == ~Asking(l) /\ pc(l) # "check"

\* All turns stand in their places, but for the last n.
Ordered(n) == \A k \in 1..Len(memory) - n : InPlace(k)

Handed(n) ==
  \A k \in 1..Len(memory) :
    k + n <= Len(memory) /\ memory[k].role # "context" => memory[k] \in handed

OnlyContext == \A k \in 1..Len(memory) : memory[k].role = "context"

\* The question of the handler is the last turn, or it was refused.
Asked(l) ==
  /\ event(l) \notin blank
  /\ Ordered(1) /\ Handed(Limit + 1)
  /\ Len(memory) > 0 /\ memory[Len(memory)] = TurnOf(l, "user")
Refused(l) ==
  /\ event(l) \in blank /\ TurnOf(l, "user") \in missing
  /\ Ordered(0) /\ Handed(Limit)

\* What a handler at work knows of the memory.
Work(l) ==
  /\ Asking(l) => Asked(l) \/ Refused(l)
  /\ pc(l) = "check" => Ordered(0) /\ Handed(Limit + 2)
  /\ pc(l) = "context" => OnlyContext
  /\ pc(l) = "consolidate" => loop[l].copy = memory
  /\ pc(l) = "clear" /\ Schema[event(l)] = "end-thread" => Range(memory) \subseteq handed

Alone == \A k, l \in Loops : pc(k) # "idle" /\ pc(l) # "idle" => k = l

MemoryInv ==
  ~disturbed =>
    /\ Alone
    /\ \A l \in Loops : Work(l)
    /\ (\A l \in Loops : Settled(l)) => Ordered(0) /\ Handed(Limit)

\* A handler is alone with the memory.
LEMMA LoneHandler ==
  ASSUME MemoryInv, ~disturbed, NEW l \in Loops, pc(l) # "idle",
         \A k \in Loops \ {l} : loop'[k] = loop[k],
         Work(l)', Settled(l)' => Ordered(0)' /\ Handed(Limit)'
  PROVE  MemoryInv'
<1>1. \A k \in Loops \ {l} : pc(k) = "idle" /\ pc(k)' = "idle"
  BY DEF MemoryInv, Alone, pc
<1>2. Alone'
  BY <1>1 DEF Alone
<1>3. \A k \in Loops : Work(k)'
  BY <1>1 DEF Work, Asking
<1> QED
  BY <1>2, <1>3 DEF MemoryInv

LEMMA SettledMemory ==
  ASSUME MemoryInv, ~disturbed, NEW l \in Loops, pc(l) # "idle", Settled(l)
  PROVE  Ordered(0) /\ Handed(Limit)
<1>1. \A k \in Loops : Settled(k)
  BY DEF MemoryInv, Alone, Settled, Asking
<1> QED
  BY <1>1 DEF MemoryInv

LEMMA SameMemory ==
  ASSUME UNCHANGED memory, handed \subseteq handed', missing \subseteq missing'
  PROVE  /\ \A n : Ordered(n) => Ordered(n)'
         /\ \A n : Handed(n) => Handed(n)'
         /\ OnlyContext => OnlyContext'
<1>1. ASSUME NEW n, Ordered(n) PROVE Ordered(n)'
  BY <1>1 DEF Ordered, InPlace
<1>2. ASSUME NEW n, Handed(n) PROVE Handed(n)'
  BY <1>2 DEF Handed
<1>3. ASSUME OnlyContext PROVE OnlyContext'
  BY <1>3 DEF OnlyContext
<1> QED
  BY <1>1, <1>2, <1>3

\* A memory of turns that came along.
LEMMA ContextMemoryNext ==
  ASSUME memory' \in Seq(Turn), OnlyContext'
  PROVE  Ordered(0)' /\ \A n : Handed(n)'
<1>1. ASSUME NEW k \in 1..Len(memory') PROVE InPlace(k)'
  <2>1. memory'[k].role = "context" /\ (k = 1 \/ k - 1 \in 1..Len(memory'))
    BY DEF OnlyContext
  <2>2. k = 1 \/ memory'[k - 1].role = "context"
    BY <2>1 DEF OnlyContext
  <2> QED
    BY <2>1, <2>2 DEF InPlace
<1>2. Len(memory') - 0 = Len(memory')
  OBVIOUS
<1>3. Ordered(0)'
  BY <1>1, <1>2 DEF Ordered
<1>4. \A n : Handed(n)'
  BY DEF Handed, OnlyContext
<1> QED
  BY <1>3, <1>4

LEMMA EmptyMemory ==
  ASSUME memory = <<>>
  PROVE  OnlyContext /\ memory \in Seq(Turn) /\ Range(memory) = {}
BY EmptySeq DEF OnlyContext, Range

LEMMA AppendedTurn ==
  ASSUME memory \in Seq(Turn), NEW t \in Turn, memory' = Append(memory, t)
  PROVE  /\ Len(memory) \in Nat /\ Len(memory') = Len(memory) + 1 /\ memory' \in Seq(Turn)
         /\ \A k \in 1..Len(memory) : memory'[k] = memory[k]
         /\ memory'[Len(memory) + 1] = t
         /\ Range(memory) \subseteq Range(memory')
<1>1. /\ Len(memory) \in Nat /\ Len(memory') = Len(memory) + 1 /\ memory' \in Seq(Turn)
      /\ \A k \in 1..Len(memory) : memory'[k] = memory[k]
      /\ memory'[Len(memory) + 1] = t
  BY AppendProperties
<1>2. DOMAIN memory = 1..Len(memory) /\ DOMAIN memory' = 1..Len(memory')
  BY <1>1
<1>3. Range(memory) \subseteq Range(memory')
  BY <1>1, <1>2 DEF Range
<1> QED
  BY <1>1, <1>3

LEMMA ContextAppended ==
  ASSUME memory \in Seq(Turn), NEW t \in Turn, t.role = "context", memory' = Append(memory, t), OnlyContext
  PROVE  OnlyContext'
BY AppendedTurn DEF OnlyContext

LEMMA HandedAppended ==
  ASSUME memory \in Seq(Turn), NEW t \in Turn, memory' = Append(memory, t), UNCHANGED handed,
         NEW n \in Nat, Handed(n)
  PROVE  Handed(n + 1)'
BY AppendedTurn DEF Handed

\* A turn that is appended leaves the others in their places.
LEMMA OthersInPlace ==
  ASSUME memory \in Seq(Turn), NEW t \in Turn, memory' = Append(memory, t), UNCHANGED missing,
         NEW k \in 1..Len(memory), InPlace(k)
  PROVE  InPlace(k)'
<1>1. /\ Len(memory) \in Nat /\ Len(memory') = Len(memory) + 1
      /\ memory'[k] = memory[k]
      /\ k > 1 => memory'[k - 1] = memory[k - 1]
      /\ k < Len(memory) => memory'[k + 1] = memory[k + 1]
  BY AppendedTurn
<1> QED
  BY <1>1 DEF InPlace

LEMMA UserAppended ==
  ASSUME memory \in Seq(Turn), NEW t \in Turn, memory' = Append(memory, t), UNCHANGED missing, Ordered(0)
  PROVE  Ordered(1)'
<1>1. Len(memory') - 1 = Len(memory) /\ Len(memory) - 0 = Len(memory)
  BY AppendedTurn
<1>2. \A k \in 1..Len(memory) : InPlace(k)'
  BY <1>1, OthersInPlace DEF Ordered
<1> QED
  BY <1>1, <1>2 DEF Ordered

\* An answer follows its question, or a question that was refused.
LEMMA AssistantAppended ==
  ASSUME memory \in Seq(Turn), NEW q \in Turn, NEW t \in Turn, q.role = "user",
         t = Answer(q), q = Question(t), memory' = Append(memory, t), UNCHANGED missing,
         \/ Ordered(1) /\ Len(memory) > 0 /\ memory[Len(memory)] = q
         \/ Ordered(0) /\ q \in missing
  PROVE  Ordered(0)'
<1>1. /\ Len(memory) \in Nat /\ Len(memory') = Len(memory) + 1 /\ memory'[Len(memory) + 1] = t
      /\ \A k \in 1..Len(memory) : memory'[k] = memory[k]
  BY AppendedTurn
<1>2. t.role = "assistant"
  BY DEF Answer, Turn
<1>3. ASSUME NEW k, k = Len(memory) + 1 PROVE InPlace(k)'
  <2>1. memory'[k].role = "assistant" /\ Question(memory'[k]) = q
    BY <1>1, <1>2, <1>3
  <2>2. q \in missing' \/ (k > 1 /\ memory'[k - 1] = q)
    BY <1>1, <1>3 DEF Ordered
  <2> QED
    BY <2>1, <2>2 DEF InPlace
<1>4. ASSUME NEW k \in 1..Len(memory) PROVE InPlace(k)'
  <2>1. CASE InPlace(k)
    BY <2>1, OthersInPlace
  <2>2. CASE ~InPlace(k)
    <3>1. Len(memory) > 0 /\ memory[Len(memory)] = q /\ k = Len(memory)
      BY <1>1, <2>2 DEF Ordered
    <3>2. memory'[k] = q /\ memory'[k + 1] = t /\ k < Len(memory')
      BY <1>1, <3>1
    <3> QED
      BY <3>2 DEF InPlace
  <2> QED
    BY <2>1, <2>2
<1>5. \A k \in 1..Len(memory') - 0 : k \in 1..Len(memory) \/ k = Len(memory) + 1
  BY <1>1
<1> QED
  BY <1>3, <1>4, <1>5 DEF Ordered

\* The answer is refused.
LEMMA AssistantRefused ==
  ASSUME memory \in Seq(Turn), NEW q \in Turn, q.role = "user",
         UNCHANGED memory, missing' = missing \cup {Answer(q)},
         \/ Ordered(1) /\ Len(memory) > 0 /\ memory[Len(memory)] = q
         \/ Ordered(0)
  PROVE  Ordered(0)'
<1>1. ASSUME NEW k \in 1..Len(memory) PROVE InPlace(k)'
  <2>1. CASE InPlace(k)
    BY <2>1 DEF InPlace
  <2>2. CASE ~InPlace(k)
    <3>1. k = Len(memory) /\ memory[k] = q
      BY <2>2 DEF Ordered
    <3> QED
      BY <3>1 DEF InPlace
  <2> QED
    BY <2>1, <2>2
<1> QED
  BY <1>1 DEF Ordered

LEMMA ShortenedMemory ==
  ASSUME memory \in Seq(Turn), Len(memory) > 0
  PROVE  /\ Len(memory) \in Nat /\ Len(RolledBack) = Len(memory) - 1 /\ RolledBack \in Seq(Turn)
         /\ \A k \in 1..Len(memory) - 1 : RolledBack[k] = memory[k]
<1>1. memory # <<>> /\ Len(memory) \in Nat
  OBVIOUS
<1>2. RolledBack = SubSeq(memory, 1, Len(memory) - 1)
  BY <1>1 DEF RolledBack, Front
<1>3. RolledBack = [k \in 1..Len(memory) - 1 |-> memory[k]]
  BY <1>1, <1>2
<1> QED
  BY <1>1, <1>3

\* The turns before the last keep their places, if the last is a question or goes missing.
LEMMA TakenBack ==
  ASSUME memory \in Seq(Turn), Len(memory) > 0, memory' = RolledBack, UNCHANGED handed,
         missing \subseteq missing', Ordered(1),
         memory[Len(memory)].role = "user" \/ memory[Len(memory)] \in missing'
  PROVE  /\ Ordered(0)'
         /\ \A n \in Nat : Handed(n + 1) => Handed(n)'
         /\ \A n \in Nat : Handed(n) => Handed(n)'
<1>1. /\ Len(memory) \in Nat /\ Len(memory') = Len(memory) - 1
      /\ \A k \in 1..Len(memory) - 1 : memory'[k] = memory[k]
  BY ShortenedMemory
<1>2. ASSUME NEW k \in 1..Len(memory) - 1 PROVE InPlace(k)'
  <2>1. InPlace(k) /\ memory'[k] = memory[k] /\ memory[k] \in Turn
    BY <1>1 DEF Ordered
  <2>2. k > 1 => memory'[k - 1] = memory[k - 1]
    BY <1>1
  <2>3. CASE k < Len(memory) - 1
    <3>1. k < Len(memory') /\ memory'[k + 1] = memory[k + 1]
      BY <1>1, <2>3
    <3> QED
      BY <1>1, <2>1, <2>2, <3>1 DEF InPlace
  <2>4. CASE k = Len(memory) - 1
    <3>1. memory[k].role = "user" => Answer(memory[k]).role = "assistant"
      BY <2>1 DEF Answer, Turn
    <3>2. memory[k].role = "user" => Answer(memory[k]) \in missing'
      BY <1>1, <2>1, <2>4, <3>1 DEF InPlace
    <3> QED
      BY <1>1, <2>1, <2>2, <3>2 DEF InPlace
  <2> QED
    BY <1>1, <2>3, <2>4
<1>3. Ordered(0)'
  BY <1>1, <1>2 DEF Ordered
<1>4. ASSUME NEW n \in Nat, Handed(n + 1) \/ Handed(n) PROVE Handed(n)'
  BY <1>1, <1>4 DEF Handed
<1> QED
  BY <1>3, <1>4

\* The memory changes, and the handlers change their places, one at a time.
LEMMA OthersKeep ==
  ASSUME Inv, NEW l \in Loops, Fetch(l) \/ Settle(l) \/ Handle(l), NEW k \in Loops, k # l
  PROVE  loop'[k] = loop[k]
BY DEF Fetch, Settle, Handle, Clear, AppendContext, Get, AppendUser, Appends, ExecuteStep, BrainFails,
       RollbackLast, AppendAssistant, TriggerMemoryConsolidation, PublishResponse, GetHistory,
       ConsolidateThread, Goes, Inv, LocalOK

\* A handler that only settled places surround, and that leaves the memory alone.
LEMMA KeepsMemory ==
  ASSUME Inv, MemoryInv, ~disturbed, NEW l \in Loops, Settle(l) \/ Handle(l), pc(l) # "idle", Settled(l),
         UNCHANGED <<memory, missing>>, handed \subseteq handed', Settled(l)',
         pc(l)' \notin {"context", "consolidate", "clear"}
  PROVE  MemoryInv'
<1>1. Ordered(0)' /\ Handed(Limit)'
  BY SettledMemory, SameMemory
<1>2. Work(l)'
  BY DEF Work, Settled
<1> QED
  BY <1>1, <1>2, OthersKeep, LoneHandler

LEMMA FetchMemory == ASSUME Inv, MemoryInv, ~disturbed', NEW l \in Loops, Fetch(l) PROVE MemoryInv'
<1>1. PICK e \in Serves[l] :
        loop' = [loop EXCEPT ![l] = [Idle EXCEPT !.pc = Routed(e), !.event = e]]
  BY DEF Fetch
<1>2. e \in Events /\ UNCHANGED <<memory, handed, missing>> /\ ~disturbed
  BY ConstantsAssumption DEF Fetch
<1>3. \A k \in Loops \ {l} : pc(k) = "idle" /\ pc(k)' = "idle"
  BY OthersKeep DEF Fetch, Other, pc
<1>4. pc(l) = "idle" /\ pc(l)' = Routed(e) /\ event(l)' = e
  BY <1>1 DEF Fetch, pc, event, Inv, LocalOK, Idle
<1>5. Routed(e) \in {"clear", "history", "read"} /\ (Routed(e) = "clear" => Schema[e] # "end-thread")
  <2>1. Schema[e] \in {"start-thread", "add-user-message", "agent-delegation", "end-thread"}
    BY <1>2, ConstantsAssumption
  <2> QED
    BY <2>1 DEF Routed
<1>6. Ordered(0)' /\ Handed(Limit)'
  <2>1. Ordered(0) /\ Handed(Limit)
    BY <1>2, <1>3, <1>4 DEF MemoryInv, Settled, Asking
  <2> QED
    BY <1>2, <2>1, SameMemory
<1>7. Alone'
  BY <1>3 DEF Alone
<1>8. \A k \in Loops : Work(k)'
  BY <1>2, <1>3, <1>4, <1>5 DEF Work, Asking
<1> QED
  BY <1>6, <1>7, <1>8 DEF MemoryInv

LEMMA ClearMemory == ASSUME Inv, MemoryInv, ~disturbed', NEW l \in Loops, Clear(l) PROVE MemoryInv'
<1>0. pc(l) = "clear" /\ pc(l) # "idle" /\ \A k \in Loops \ {l} : loop'[k] = loop[k]
  BY OthersKeep DEF Clear, Handle
<1>1. pc(l)' \in {"context", "ack", "nak"}
  BY DEF Clear, Goes, pc, Inv, LocalOK, Handler
<1>2. CASE memory' = <<>>
  <2>1. OnlyContext' /\ memory' \in Seq(Turn)
    BY <1>2, EmptySeq DEF OnlyContext
  <2>2. Ordered(0)' /\ Handed(Limit)'
    <3>1. Len(memory') = 0
      BY <1>2
    <3> QED
      BY <2>1, <3>1 DEF OnlyContext, Ordered, Handed
  <2>3. Work(l)'
    BY <1>1, <2>1 DEF Work, Asking
  <2>4. \A k \in Loops \ {l} : pc(k) = "idle" /\ pc(k)' = "idle"
    <3>1. CASE ~disturbed
      BY <1>0, <3>1 DEF MemoryInv, Alone, pc
    <3>2. CASE disturbed
      BY <1>0, <3>2 DEF Clear, Other, pc, history
    <3> QED
      BY <3>1, <3>2
  <2>5. Alone' /\ \A k \in Loops : Work(k)'
    BY <2>3, <2>4 DEF Alone, Work, Asking
  <2> QED
    BY <2>2, <2>5 DEF MemoryInv
<1>3. CASE memory' # <<>>
  <2>1. UNCHANGED <<memory, missing, disturbed, handed>> /\ Goes(l, "nak")
    BY <1>3 DEF Clear, history
  <2>2. pc(l)' = "nak"
    BY <2>1 DEF Goes, pc, Inv, LocalOK, Handler
  <2>3. Handle(l) /\ Settled(l) /\ Settled(l)'
    BY <1>0, <2>2 DEF Handle, Settled, Asking
  <2> QED
    BY <1>0, <2>1, <2>2, <2>3, KeepsMemory
<1> QED
  BY <1>2, <1>3

LEMMA AppendContextMemory ==
  ASSUME Inv, MemoryInv, ~disturbed', NEW l \in Loops, AppendContext(l)
  PROVE  MemoryInv'
<1>1. /\ pc(l) = "context" /\ pc(l) # "idle" /\ ~disturbed /\ UNCHANGED handed
      /\ \A k \in Loops \ {l} : loop'[k] = loop[k]
  BY OthersKeep DEF AppendContext, Handle, history
<1>2. pc(l)' \in {"read", "context", "nak"}
  BY DEF AppendContext, Goes, pc, Inv, LocalOK, Handler
<1>3. OnlyContext /\ memory \in Seq(Turn)
  BY <1>1 DEF MemoryInv, Work, Inv, SharedOK
<1>4. OnlyContext'
  <2>1. TurnOf(l, "context") \in Turn /\ TurnOf(l, "context").role = "context"
    BY <1>1, TurnTyped DEF TurnOf
  <2>2. memory' = memory \/ memory' = Append(memory, TurnOf(l, "context"))
    BY DEF AppendContext
  <2>3. CASE memory' = memory
    BY <1>3, <2>3 DEF OnlyContext
  <2>4. CASE memory' = Append(memory, TurnOf(l, "context"))
    <3>1. PICK t : t = TurnOf(l, "context")
      OBVIOUS
    <3> QED
      BY <1>3, <2>1, <2>4, <3>1, ContextAppended
  <2> QED
    BY <2>2, <2>3, <2>4
<1>5. memory' \in Seq(Turn)
  BY AppendContextInv DEF Inv, SharedOK
<1>6. Ordered(0)' /\ Handed(Limit)'
  BY <1>4, <1>5, ContextMemoryNext
<1>7. Work(l)'
  BY <1>2, <1>4 DEF Work, Asking
<1> QED
  BY <1>1, <1>6, <1>7, LoneHandler

LEMMA Undisturbed ==
  ASSUME ~disturbed'
  PROVE  ~(disturbed' = TRUE) /\ (UNCHANGED disturbed => ~disturbed)
<1>1. ASSUME disturbed' = TRUE PROVE FALSE
  BY <1>1
<1>2. ASSUME UNCHANGED disturbed, disturbed PROVE FALSE
  BY <1>2
<1> QED
  BY <1>1, <1>2

LEMMA QuietStepMemory ==
  ASSUME Inv, MemoryInv, ~disturbed', NEW l \in Loops, Get(l) \/ PublishResponse(l) \/ Settle(l)
  PROVE  MemoryInv'
<1>1. pc(l) # "idle" /\ Settled(l) /\ UNCHANGED <<memory, handed, missing, disturbed>>
  BY DEF Get, PublishResponse, Settle, Settled, Asking, history
<1>2. pc(l)' \in {"append", "ack", "nak", "idle"}
  BY DEF Get, PublishResponse, Settle, Goes, pc, Inv, LocalOK, Handler, Idle
<1>3. Settled(l)'
  BY <1>2 DEF Settled, Asking
<1> QED
  BY <1>1, <1>2, <1>3, KeepsMemory DEF Handle

LEMMA AppendUserMemory ==
  ASSUME Inv, MemoryInv, ~disturbed', NEW l \in Loops, AppendUser(l)
  PROVE  MemoryInv'
<1>1. /\ pc(l) = "append" /\ pc(l) # "idle" /\ Settled(l) /\ ~disturbed
      /\ UNCHANGED <<handed, delivered, blank>>
      /\ \A k \in Loops \ {l} : loop'[k] = loop[k]
  BY OthersKeep, Undisturbed DEF AppendUser, Appends, Handle, Settled, Asking
<1>2. pc(l)' = "reason" /\ event(l)' = event(l)
  BY DEF AppendUser, Appends, pc, event, Inv, LocalOK, Handler
<1>3. memory \in Seq(Turn) /\ TurnOf(l, "user") \in Turn /\ Limit \in Nat
  BY <1>1, TurnTyped, Parameters DEF Inv, SharedOK
<1>4. Ordered(0) /\ Handed(Limit)
  BY <1>1, SettledMemory
<1>5. PICK t \in Turn : t = TurnOf(l, "user")
  BY <1>3
<1>6. TurnOf(l, "user")' = t
  BY <1>1, <1>2, <1>5 DEF TurnOf
<1>7. ASSUME event(l) \notin blank PROVE Asked(l)'
  <2>1. memory' = Append(memory, t) /\ UNCHANGED missing
    BY <1>5, <1>7, Undisturbed DEF AppendUser, Appends
  <2>2. Ordered(1)' /\ Handed(Limit + 1)'
    BY <1>1, <1>3, <1>4, <2>1, UserAppended, HandedAppended
  <2>3. Len(memory') > 0 /\ memory'[Len(memory')] = t
    BY <1>3, <2>1, AppendedTurn
  <2> QED
    BY <1>1, <1>2, <1>6, <1>7, <2>2, <2>3 DEF Asked
<1>8. ASSUME event(l) \in blank PROVE Refused(l)'
  <2>1. UNCHANGED memory /\ missing' = missing \cup {t}
    BY <1>5, <1>8 DEF AppendUser, Appends, HasText
  <2>2. Ordered(0)' /\ Handed(Limit)'
    BY <1>1, <1>4, <2>1, SameMemory
  <2> QED
    BY <1>1, <1>2, <1>6, <1>8, <2>1, <2>2 DEF Refused
<1>9. Asked(l)' \/ Refused(l)'
  BY <1>7, <1>8
<1>10. Work(l)' /\ ~Settled(l)'
  BY <1>2, <1>9 DEF Work, Asking, Settled
<1> QED
  BY <1>1, <1>10, LoneHandler

LEMMA ReasonMemory ==
  ASSUME Inv, MemoryInv, ~disturbed', NEW l \in Loops, ExecuteStep(l) \/ BrainFails(l)
  PROVE  MemoryInv'
<1>1. /\ pc(l) # "idle" /\ Asking(l) /\ UNCHANGED <<memory, blank, handed, missing, disturbed, delivered>>
      /\ \A k \in Loops \ {l} : loop'[k] = loop[k]
  BY OthersKeep DEF ExecuteStep, BrainFails, Handle, Asking, history
<1>2. pc(l)' \in {"reason", "rollback", "answer"} /\ event(l)' = event(l)
  BY DEF ExecuteStep, BrainFails, pc, event, Inv, LocalOK, Handler
<1>3. Asked(l) \/ Refused(l)
  BY <1>1 DEF MemoryInv, Work
<1>4. \A n : (Ordered(n) => Ordered(n)') /\ (Handed(n) => Handed(n)')
  BY <1>1, SameMemory
<1>5. TurnOf(l, "user")' = TurnOf(l, "user")
  BY <1>1, <1>2 DEF TurnOf
<1>6. Asked(l)' \/ Refused(l)'
  BY <1>1, <1>2, <1>3, <1>4, <1>5 DEF Asked, Refused
<1>7. Work(l)' /\ ~Settled(l)'
  BY <1>1, <1>2, <1>6 DEF Work, Asking, Settled
<1> QED
  BY <1>1, <1>7, LoneHandler

LEMMA RollbackMemory ==
  ASSUME Inv, MemoryInv, ~disturbed', NEW l \in Loops, RollbackLast(l)
  PROVE  MemoryInv'
<1>1. /\ pc(l) # "idle" /\ Asking(l) /\ ~disturbed /\ memory' = RolledBack /\ UNCHANGED handed
      /\ missing' = IF event(l) \in blank /\ memory # <<>>
                    THEN missing \cup {memory[Len(memory)]} ELSE missing
      /\ \A k \in Loops \ {l} : loop'[k] = loop[k]
  BY OthersKeep, Undisturbed DEF RollbackLast, Handle, Asking
<1>2. pc(l)' = "nak"
  BY DEF RollbackLast, Goes, pc, Inv, LocalOK, Handler
<1>3. (Asked(l) \/ Refused(l)) /\ memory \in Seq(Turn) /\ Limit \in Nat /\ missing \subseteq missing'
  BY <1>1, Parameters DEF MemoryInv, Work, Inv, SharedOK
<1>4. ASSUME memory = <<>> PROVE Ordered(0)' /\ Handed(Limit)'
  <2>1. memory' = <<>> /\ Refused(l)
    BY <1>1, <1>3, <1>4 DEF RolledBack, Asked
  <2>2. Ordered(0)' /\ Handed(Limit)'
    BY <1>1, <1>3, <1>4, <2>1, SameMemory DEF Refused
  <2> QED
    BY <2>2
<1>5. ASSUME memory # <<>> PROVE Ordered(0)' /\ Handed(Limit)'
  <2>1. Len(memory) > 0
    BY <1>3, <1>5
  <2>2. CASE Asked(l)
    <3>1. memory[Len(memory)].role = "user" /\ Ordered(1) /\ Handed(Limit + 1)
      BY <2>2 DEF Asked, TurnOf
    <3> QED
      BY <1>1, <1>3, <2>1, <3>1, TakenBack
  <2>3. CASE Refused(l)
    <3>1. memory[Len(memory)] \in missing' /\ Ordered(0) /\ Handed(Limit)
      BY <1>1, <1>5, <2>3 DEF Refused
    <3>2. Ordered(1)
      BY <1>3, <3>1 DEF Ordered
    <3> QED
      BY <1>1, <1>3, <2>1, <3>1, <3>2, TakenBack
  <2> QED
    BY <1>3, <2>2, <2>3
<1>6. Ordered(0)' /\ Handed(Limit)'
  BY <1>4, <1>5
<1>7. Work(l)'
  BY <1>2 DEF Work, Asking
<1> QED
  BY <1>1, <1>6, <1>7, LoneHandler

LEMMA AppendAssistantMemory ==
  ASSUME Inv, MemoryInv, ~disturbed', NEW l \in Loops, AppendAssistant(l)
  PROVE  MemoryInv'
<1>1. /\ pc(l) # "idle" /\ Asking(l) /\ ~disturbed /\ UNCHANGED handed
      /\ \A k \in Loops \ {l} : loop'[k] = loop[k]
  BY OthersKeep, Undisturbed DEF AppendAssistant, Appends, Handle, Asking
<1>2. pc(l)' = "check"
  BY DEF AppendAssistant, Appends, pc, Inv, LocalOK, Handler
<1>3. /\ memory \in Seq(Turn) /\ Limit \in Nat
      /\ TurnOf(l, "user") \in Turn /\ TurnOf(l, "assistant") \in Turn
  BY <1>1, TurnTyped, Parameters DEF Inv, SharedOK
<1>4. PICK q \in Turn, t \in Turn : q = TurnOf(l, "user") /\ t = TurnOf(l, "assistant")
  BY <1>3
<1>5. q.role = "user" /\ t = Answer(q) /\ q = Question(t)
  BY <1>4 DEF TurnOf, Answer, Question
<1>6. \/ Ordered(1) /\ Len(memory) > 0 /\ memory[Len(memory)] = q /\ Handed(Limit + 1)
      \/ Ordered(0) /\ q \in missing /\ Handed(Limit)
  BY <1>1, <1>4 DEF MemoryInv, Work, Asked, Refused
<1>7. Handed(Limit + 1)
  BY <1>3, <1>6 DEF Handed
<1>8. ASSUME memory' = Append(memory, t), UNCHANGED missing PROVE Ordered(0)' /\ Handed(Limit + 2)'
  <2>1. Ordered(0)'
    BY <1>3, <1>5, <1>6, <1>8, AssistantAppended
  <2>2. Handed(Limit + 1 + 1)'
    BY <1>1, <1>3, <1>7, <1>8, HandedAppended
  <2> QED
    BY <1>3, <2>1, <2>2 DEF Handed
<1>9. ASSUME UNCHANGED memory, missing' = missing \cup {t} PROVE Ordered(0)' /\ Handed(Limit + 2)'
  <2>1. Ordered(0)'
    BY <1>3, <1>5, <1>6, <1>9, AssistantRefused
  <2>2. Handed(Limit + 2)'
    BY <1>1, <1>3, <1>7, <1>9 DEF Handed
  <2> QED
    BY <2>1, <2>2
<1>10. Ordered(0)' /\ Handed(Limit + 2)'
  <2>1. \/ memory' = Append(memory, t) /\ UNCHANGED missing
        \/ UNCHANGED memory /\ missing' = missing \cup {t}
    BY <1>4, Undisturbed DEF AppendAssistant, Appends
  <2> QED
    BY <1>3, <1>8, <1>9, <2>1 DEF Handed
<1>11. Work(l)' /\ ~Settled(l)'
  BY <1>2, <1>10 DEF Work, Asking, Settled
<1> QED
  BY <1>1, <1>11, LoneHandler

LEMMA ConsolidationMemory ==
  ASSUME Inv, MemoryInv, ~disturbed', NEW l \in Loops, TriggerMemoryConsolidation(l)
  PROVE  MemoryInv'
<1>1. /\ pc(l) = "check" /\ pc(l) # "idle" /\ ~disturbed /\ UNCHANGED <<memory, missing>>
      /\ handed' = IF Len(memory) <= Limit THEN handed ELSE handed \cup Range(Evicted)
      /\ \A k \in Loops \ {l} : loop'[k] = loop[k]
  BY OthersKeep, Undisturbed DEF TriggerMemoryConsolidation, Handle
<1>2. pc(l)' = "publish"
  BY DEF TriggerMemoryConsolidation, Goes, pc, Inv, LocalOK, Handler
<1>3. memory \in Seq(Turn) /\ Len(memory) \in Nat /\ Limit \in Nat
  BY Parameters DEF Inv, SharedOK
<1>4. Ordered(0)'
  BY <1>1, SameMemory DEF MemoryInv, Work
<1>5. ASSUME NEW k \in 1..Len(memory), k + Limit <= Len(memory) PROVE memory[k] \in handed'
  <2>1. ~(Len(memory) <= Limit) /\ k \in 1..Len(memory) - Limit
    BY <1>3, <1>5
  <2>2. Evicted = [i \in 1..Len(memory) - Limit |-> memory[i]]
    BY <1>3, <2>1 DEF Evicted
  <2>3. memory[k] \in Range(Evicted)
    BY <2>1, <2>2 DEF Range
  <2> QED
    BY <1>1, <2>1, <2>3
<1>6. Handed(Limit)'
  BY <1>1, <1>5 DEF Handed
<1>7. Work(l)'
  BY <1>2 DEF Work, Asking
<1> QED
  BY <1>1, <1>4, <1>6, <1>7, LoneHandler

LEMMA EndThreadMemory ==
  ASSUME Inv, MemoryInv, ~disturbed', NEW l \in Loops, GetHistory(l) \/ ConsolidateThread(l)
  PROVE  MemoryInv'
<1>1. /\ pc(l) # "idle" /\ Settled(l) /\ ~disturbed /\ UNCHANGED <<memory, missing>> /\ handed \subseteq handed'
      /\ \A k \in Loops \ {l} : loop'[k] = loop[k]
  BY OthersKeep, Undisturbed DEF GetHistory, ConsolidateThread, Handle, Settled, Asking
<1>2. Ordered(0)' /\ Handed(Limit)'
  BY <1>1, SettledMemory, SameMemory
<1>3. CASE GetHistory(l)
  <2>1. pc(l)' = (IF memory = <<>> THEN "clear" ELSE "consolidate") /\ loop'[l].copy = memory
    BY <1>1, <1>3 DEF GetHistory, pc, Inv, LocalOK, Handler
  <2>2. memory = <<>> => Range(memory)' \subseteq handed'
    BY <1>1, EmptyMemory
  <2>3. Work(l)'
    BY <1>1, <2>1, <2>2 DEF Work, Asking
  <2> QED
    BY <1>1, <1>2, <2>3, LoneHandler
<1>4. CASE ConsolidateThread(l)
  <2>1. pc(l)' = "clear" /\ handed' = handed \cup Range(loop[l].copy) /\ pc(l) = "consolidate"
    BY <1>4 DEF ConsolidateThread, pc, Inv, LocalOK, Handler
  <2>2. loop[l].copy = memory
    BY <1>1, <2>1 DEF MemoryInv, Work
  <2>3. Range(memory)' \subseteq handed'
    BY <1>1, <2>1, <2>2
  <2>4. Work(l)'
    BY <2>1, <2>3 DEF Work, Asking
  <2> QED
    BY <1>1, <1>2, <2>4, LoneHandler
<1> QED
  BY <1>3, <1>4

LEMMA UntouchedMemory ==
  ASSUME MemoryInv, UNCHANGED <<memory, loop, delivered, blank, handed, missing, disturbed>>
  PROVE  MemoryInv'
<1>1. ASSUME ~disturbed PROVE MemoryInv'
  <2>1. Alone' /\ \A l \in Loops : Settled(l)' <=> Settled(l)
    BY <1>1 DEF MemoryInv, Alone, Settled, Asking, pc
  <2>2. \A n : (Ordered(n) => Ordered(n)') /\ (Handed(n) => Handed(n)')
    BY SameMemory
  <2>3. \A l \in Loops : Work(l)'
    BY <1>1, <2>2 DEF MemoryInv, Work, Asking, Asked, Refused, pc, event, TurnOf, OnlyContext
  <2> QED
    BY <1>1, <2>1, <2>2, <2>3 DEF MemoryInv
<1> QED
  BY <1>1 DEF MemoryInv

LEMMA CrashMemory == ASSUME Inv, MemoryInv, ~disturbed', Crash PROVE MemoryInv'
<1>1. /\ ~disturbed /\ \A l \in Loops : pc(l) = "idle"
      /\ UNCHANGED <<memory, handed, missing>>
  BY DEF Crash
<1>2. \A l \in Loops : pc(l)' = "idle"
  BY DEF Crash, pc, Idle
<1>3. Ordered(0) /\ Handed(Limit)
  BY <1>1 DEF MemoryInv, Settled, Asking
<1>4. Ordered(0)' /\ Handed(Limit)'
  BY <1>1, <1>3, SameMemory
<1> QED
  BY <1>2, <1>4 DEF MemoryInv, Alone, Work, Asking

LEMMA MemoryNext == Inv /\ MemoryInv /\ [Next]_vars => MemoryInv'
<1> SUFFICES ASSUME Inv, MemoryInv, [Next]_vars PROVE MemoryInv'
  OBVIOUS
<1>1. CASE disturbed'
  BY <1>1 DEF MemoryInv
<1>2. CASE ~disturbed'
  <2>1. CASE UNCHANGED vars \/ \E l \in Loops : DeadLetter(l)
    BY <2>1, UntouchedMemory DEF vars, history, DeadLetter
  <2>2. ASSUME NEW l \in Loops, Handle(l) PROVE MemoryInv'
    BY <1>2, <2>2, ClearMemory, AppendContextMemory, QuietStepMemory, AppendUserMemory, ReasonMemory,
       RollbackMemory, AppendAssistantMemory, ConsolidationMemory, EndThreadMemory DEF Handle
  <2> QED
    BY <1>2, <2>1, <2>2, FetchMemory, QuietStepMemory, CrashMemory DEF Next
<1> QED
  BY <1>1, <1>2

LEMMA MemoryInit == Init => MemoryInv
<1> SUFFICES ASSUME Init PROVE MemoryInv
  OBVIOUS
<1>1. memory = <<>> /\ \A l \in Loops : pc(l) = "idle"
  BY DEF Init, pc, Idle
<1>2. Ordered(0) /\ Handed(Limit)
  BY <1>1 DEF Ordered, Handed
<1> QED
  BY <1>1, <1>2 DEF MemoryInv, Alone, Work, Asking

LEMMA MemoryInvariance == Spec => []MemoryInv
BY Invariance, MemoryInit, MemoryNext, PTL DEF Spec

\* However often events are delivered again, the brain fails, and threads start and end, a
\* question in the memory is followed by its answer and an answer follows its question.  Only
\* turns without text are missing, and what a failed delegation without text has taken back
\* (memory_adapter.go:95-100, RollbackLast of schema_router_impl.go), unless Redis failed, the
\* process died or two handlers were at work at once since the memory was last cleared.
THEOREM QuestionsAreAnswered == Spec => []TurnsPaired
<1>1. ASSUME Inv, MemoryInv, ~disturbed, \A l \in Loops : pc(l) = "idle" PROVE TurnsPaired
  <2>1. Ordered(0) /\ Len(memory) \in Nat
    BY <1>1 DEF MemoryInv, Settled, Asking, Inv, SharedOK
  <2> QED
    BY <2>1 DEF TurnsPaired, Ordered
<1>2. Inv /\ MemoryInv => TurnsPaired
  BY <1>1 DEF TurnsPaired
<1> QED
  BY <1>2, Invariance, MemoryInvariance, PTL

\* The window that the brain is shown and the turns that go to a consolidation fit together:
\* every turn of the conversation before the window was handed over, whatever the limit.
THEOREM TheUnseenWasHanded == Spec => []ForgottenIsHanded
<1>1. ASSUME MemoryInv, NEW l \in Loops, ~disturbed, pc(l) = "append" PROVE Handed(Limit)
  BY <1>1, SettledMemory DEF Settled, Asking
<1>2. MemoryInv => ForgottenIsHanded
  BY <1>1 DEF ForgottenIsHanded, Handed
<1> QED
  BY <1>2, MemoryInvariance, PTL

\* A turn that leaves the memory was taken back by the handler that had appended it, or a
\* consolidation has seen it, or a start or a delegation replaced the memory, or a failed
\* delegation without text took it back in the place of its own.
THEOREM NoTurnIsForgotten == Spec => NothingForgotten
<1>1. ASSUME Inv, MemoryInv, [Next]_vars, NEW t \in Range(memory) \ Range(memory'), ~disturbed
      PROVE  \/ t \in handed
             \/ \E l \in Loops : \/ pc(l) = "rollback" /\ (t = TurnOf(l, "user") \/ event(l) \in blank)
                                 \/ pc(l) = "clear" /\ Schema[event(l)] # "end-thread"
  <2>0. memory \in Seq(Turn) /\ memory' # memory
    BY <1>1 DEF Inv, SharedOK
  <2>1. ASSUME NEW l \in Loops, Clear(l)
        PROVE  t \in handed \/ (pc(l) = "clear" /\ Schema[event(l)] # "end-thread")
    BY <1>1, <2>1 DEF Clear, MemoryInv, Work
  <2>2. ASSUME NEW l \in Loops, NEW u \in Turn, memory' = Append(memory, u) PROVE FALSE
    BY <1>1, <2>0, <2>2, AppendedTurn
  <2>3. ASSUME NEW l \in Loops, AppendContext(l) PROVE FALSE
    <3>1. TurnOf(l, "context") \in Turn
      BY <1>1, <2>3, TurnTyped DEF AppendContext
    <3> QED
      BY <2>0, <2>2, <2>3, <3>1 DEF AppendContext
  <2>4. ASSUME NEW l \in Loops, AppendUser(l) \/ AppendAssistant(l) PROVE FALSE
    <3>1. TurnOf(l, "user") \in Turn /\ TurnOf(l, "assistant") \in Turn
      BY <1>1, <2>4, TurnTyped DEF AppendUser, AppendAssistant
    <3> QED
      BY <2>0, <2>2, <2>4, <3>1 DEF AppendUser, AppendAssistant, Appends
  <2>5. ASSUME NEW l \in Loops, RollbackLast(l)
        PROVE  pc(l) = "rollback" /\ (t = TurnOf(l, "user") \/ event(l) \in blank)
    <3>1. pc(l) = "rollback" /\ memory' = RolledBack
      BY <2>0, <2>5 DEF RollbackLast
    <3>2. Len(memory) > 0 /\ (memory[Len(memory)] = TurnOf(l, "user") \/ event(l) \in blank)
      <4>1. memory # <<>>
        BY <2>0, <3>1 DEF RolledBack
      <4> QED
        BY <1>1, <2>0, <3>1, <4>1 DEF MemoryInv, Work, Asking, Asked, Refused
    <3>3. PICK k \in 1..Len(memory) : t = memory[k]
      BY <1>1, <2>0 DEF Range
    <3>4. k \notin 1..Len(memory) - 1
      <4>1. ASSUME k \in 1..Len(memory) - 1 PROVE t \in Range(memory')
        <5>1. memory'[k] = t /\ k \in DOMAIN memory'
          BY <2>0, <3>1, <3>2, <3>3, <4>1, ShortenedMemory
        <5> QED
          BY <5>1 DEF Range
      <4> QED
        BY <1>1, <4>1
    <3>5. k = Len(memory)
      BY <2>0, <3>3, <3>4
    <3> QED
      BY <3>1, <3>2, <3>3, <3>5
  <2>6. ASSUME NEW l \in Loops, Fetch(l) \/ DeadLetter(l) \/ Settle(l) PROVE FALSE
    BY <2>0, <2>6 DEF Fetch, DeadLetter, Settle
  <2>7. ASSUME NEW l \in Loops,
               \/ Get(l) \/ ExecuteStep(l) \/ BrainFails(l) \/ TriggerMemoryConsolidation(l)
               \/ PublishResponse(l) \/ GetHistory(l) \/ ConsolidateThread(l)
        PROVE  FALSE
    BY <2>0, <2>7 DEF Get, ExecuteStep, BrainFails, TriggerMemoryConsolidation, PublishResponse,
       GetHistory, ConsolidateThread
  <2>8. ~Crash /\ ~(UNCHANGED vars)
    BY <2>0 DEF Crash, vars
  <2>9. PICK l \in Loops : Clear(l) \/ RollbackLast(l)
    BY <1>1, <2>3, <2>4, <2>6, <2>7, <2>8 DEF Next, Handle
  <2> QED
    BY <2>1, <2>5, <2>9
<1>2. Inv /\ MemoryInv /\ [Next]_vars =>
        [\A t \in Range(memory) \ Range(memory') :
           \/ disturbed
           \/ t \in handed
           \/ \E l \in Loops : \/ pc(l) = "rollback" /\ (t = TurnOf(l, "user") \/ event(l) \in blank)
                               \/ pc(l) = "clear" /\ Schema[event(l)] # "end-thread"]_vars
  BY <1>1
<1> QED
  BY <1>2, Invariance, MemoryInvariance, PTL DEF Spec, NothingForgotten
===============================================================================
