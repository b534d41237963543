-------------------------- MODULE CircuitBreakerProofs --------------------------
(***************************************************************************)
(* Proofs about CircuitBreaker, for any number of callers, any threshold   *)
(* and any recovery timeout.  The safety properties are inductive together *)
(* with the types.                                                         *)
(***************************************************************************)
EXTENDS CircuitBreaker, TLAPS

Inv == TypeOK /\ ClosedBelowThreshold /\ RejectionsAreJustified

LEMMA InitInv == Init => Inv
BY ConstantsAssumption
   DEF Init, Inv, TypeOK, ClosedBelowThreshold, RejectionsAreJustified, Old

\* Ageing keeps the order of two ages.
LEMMA OlderMonotone ==
  ASSUME NEW m \in 0..Old, NEW n \in 0..Old, m <= n
  PROVE  Older(m) \in 0..Old /\ Older(m) <= Older(n)
BY ConstantsAssumption DEF Older, Old

LEMMA NextInv == Inv /\ [Next]_vars => Inv'
<1> SUFFICES ASSUME Inv, [Next]_vars PROVE Inv'
  OBVIOUS
<1> USE ConstantsAssumption DEF Inv, TypeOK, Old
<1>1. CASE UNCHANGED vars
  BY <1>1 DEF vars, ClosedBelowThreshold, RejectionsAreJustified
<1>2. CASE Tick
  <2>1. Older(age) \in 0..Old /\ Older(sinceFailure) \in 0..Old
    BY OlderMonotone
  <2>2. state = "open" => Older(sinceFailure) <= Older(age)
    BY OlderMonotone DEF RejectionsAreJustified
  <2> QED
    BY <1>2, <2>1, <2>2 DEF Tick, ClosedBelowThreshold, RejectionsAreJustified
<1>3. ASSUME NEW c \in Caller, Execute(c) PROVE Inv'
  <2>1. CASE Admit(c)
    BY <2>1 DEF Admit, Starts, ClosedBelowThreshold, RejectionsAreJustified
  <2>2. CASE Probe(c)
    BY <2>2 DEF Probe, Starts, ClosedBelowThreshold, RejectionsAreJustified
  <2>3. CASE Reject(c)
    BY <2>3 DEF Reject, vars, ClosedBelowThreshold, RejectionsAreJustified
  <2>4. CASE Succeed(c)
    BY <2>4 DEF Succeed, Returns, ClosedBelowThreshold, RejectionsAreJustified
  <2>5. CASE Fail(c)
    <3>1. MoreFailures \in 0..Threshold
      BY DEF MoreFailures
    <3>2. CASE state = "half_open" \/ MoreFailures >= Threshold
      BY <2>5, <3>1, <3>2 DEF Fail, Returns, ClosedBelowThreshold, RejectionsAreJustified
    <3>3. CASE ~(state = "half_open" \/ MoreFailures >= Threshold)
      BY <2>5, <3>1, <3>3 DEF Fail, Returns, ClosedBelowThreshold, RejectionsAreJustified
    <3> QED
      BY <3>2, <3>3
  <2> QED
    BY <1>3, <2>1, <2>2, <2>3, <2>4, <2>5 DEF Execute
<1> QED
  BY <1>1, <1>2, <1>3 DEF Next

LEMMA Invariance == Spec => []Inv
BY InitInv, NextInv, PTL DEF Spec

\* Type correctness of the breaker and of its callers.
THEOREM TypeCorrect == Spec => []TypeOK
BY Invariance, PTL DEF Inv

\* A closed breaker is below its threshold in every interleaving of results.
THEOREM ClosedIsBelowThreshold == Spec => []ClosedBelowThreshold
BY Invariance, PTL DEF Inv

\* Calls are turned away because of a failure that is recent enough.
THEOREM RejectionsJustified == Spec => []RejectionsAreJustified
BY Invariance, PTL DEF Inv
=============================================================================
