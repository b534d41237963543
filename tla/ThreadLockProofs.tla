---------------------------- MODULE ThreadLockProofs ----------------------------
(***************************************************************************)
(* Proofs about ThreadLock, for any number of handlers, any lease and any  *)
(* duration of the work.  The inductive invariant says where the lease of  *)
(* a handler stands: as long as it has not run out, the key holds the      *)
(* handler's token and the key's remaining life is what is left of it.     *)
(***************************************************************************)
EXTENDS ThreadLock, TLAPS

TokensHeld == \A h \in Handler : pc[h] # "idle" => token[h] \in Token

TokensDistinct ==
  \A g, h \in Handler :
    pc[g] # "idle" /\ pc[h] # "idle" /\ token[g] = token[h] => g = h

KeyAlive == lockToken = NoToken <=> lockTtl = 0

LeaseIsKey ==
  \A h \in Handler :
    WithinLease(h) => lockToken = token[h] /\ lockTtl = LockTTL - clock[h]

WorkBounded == \A h \in Handler : pc[h] = "working" => clock[h] <= MaxWork

Inv == TypeOK /\ TokensHeld /\ TokensDistinct /\ KeyAlive /\ LeaseIsKey /\ WorkBounded

-----------------------------------------------------------------------------
\* A handler that gets a fresh token leaves the tokens of the others distinct.
LEMMA EnterFresh ==
  ASSUME TypeOK, TokensHeld, TokensDistinct,
         NEW h \in Handler, NEW t \in Token, Fresh(t),
         NEW p \in {"polling", "working"}, Enter(h, p, t)
  PROVE  TokensHeld' /\ TokensDistinct'
BY DEF TypeOK, TokensHeld, TokensDistinct, Fresh, Enter

\* While the key is absent no handler is within its lease.
LEMMA FreeKeyNoLease ==
  ASSUME TokensHeld, LeaseIsKey, lockToken = NoToken, NEW h \in Handler
  PROVE  ~WithinLease(h)
BY ConstantsAssumption DEF TokensHeld, LeaseIsKey, WithinLease

LEMMA InitInv == Init => Inv
BY ConstantsAssumption
   DEF Init, Inv, TypeOK, TokensHeld, TokensDistinct, KeyAlive, LeaseIsKey, WithinLease,
       WorkBounded

\* The key is set for h, which enters its lease: Lock and Poll.
LEMMA AcquireInv ==
  ASSUME Inv, NEW h \in Handler, NEW t \in Token, SetNX(t), Enter(h, "working", t),
         TokensHeld', TokensDistinct'
  PROVE  Inv'
<1>1. TypeOK'
  BY ConstantsAssumption DEF Inv, TypeOK, SetNX, Enter
<1>2. KeyAlive'
  BY ConstantsAssumption DEF SetNX, KeyAlive
<1>3. LeaseIsKey'
  <2> SUFFICES ASSUME NEW g \in Handler, WithinLease(g)'
               PROVE  (lockToken = token[g] /\ lockTtl = LockTTL - clock[g])'
    BY DEF LeaseIsKey
  <2>1. CASE g = h
    BY <2>1, ConstantsAssumption DEF Inv, TypeOK, SetNX, Enter
  <2>2. CASE g # h
    <3>1. WithinLease(g)
      BY <2>2 DEF WithinLease, Enter, Inv, TypeOK
    <3> QED
      BY <3>1, FreeKeyNoLease DEF Inv, SetNX
  <2> QED
    BY <2>1, <2>2
<1>4. WorkBounded'
  BY ConstantsAssumption DEF Inv, TypeOK, WorkBounded, Enter
<1> QED
  BY <1>1, <1>2, <1>3, <1>4 DEF Inv

\* h goes idle or starts to poll; the key stays.
LEMMA KeyUntouchedInv ==
  ASSUME Inv, NEW h \in Handler, UNCHANGED <<lockToken, lockTtl>>,
         \/ Return(h)
         \/ \E t \in Token : Fresh(t) /\ Enter(h, "polling", t)
  PROVE  Inv'
<1>1. CASE Return(h)
  BY <1>1, ConstantsAssumption
     DEF Inv, TypeOK, TokensHeld, TokensDistinct, KeyAlive, LeaseIsKey, WithinLease,
         WorkBounded, Return
<1>2. ASSUME NEW t \in Token, Fresh(t), Enter(h, "polling", t)
      PROVE  Inv'
  <2>1. TokensHeld' /\ TokensDistinct'
    BY <1>2, EnterFresh DEF Inv
  <2>2. TypeOK' /\ KeyAlive' /\ LeaseIsKey' /\ WorkBounded'
    BY <1>2, ConstantsAssumption
       DEF Inv, TypeOK, KeyAlive, LeaseIsKey, WithinLease, WorkBounded, Enter
  <2> QED
    BY <2>1, <2>2 DEF Inv
<1> QED
  BY <1>1, <1>2

\* The key is set, and no handler knows.
LEMMA OrphanKeyInv ==
  ASSUME Inv, NEW t \in Token, SetNX(t), UNCHANGED <<pc, token, clock>>
  PROVE  Inv'
<1>1. \A h \in Handler : ~WithinLease(h)
  BY FreeKeyNoLease DEF Inv, SetNX
<1> QED
  BY <1>1, ConstantsAssumption
     DEF Inv, TypeOK, TokensHeld, TokensDistinct, KeyAlive, LeaseIsKey, WithinLease,
         WorkBounded, SetNX

LEMMA LockInv ==
  ASSUME Inv, NEW h \in Handler, Lock(h)
  PROVE  Inv'
<1> PICK t \in Token :
      /\ Fresh(t)
      /\ \/ SetNX(t) /\ Enter(h, "working", t)
         \/ /\ lockToken # NoToken
            /\ Enter(h, "polling", t)
            /\ UNCHANGED <<lockToken, lockTtl>>
  BY DEF Lock
<1>1. CASE SetNX(t) /\ Enter(h, "working", t)
  BY <1>1, EnterFresh, AcquireInv DEF Inv
<1>2. CASE Enter(h, "polling", t) /\ UNCHANGED <<lockToken, lockTtl>>
  BY <1>2, KeyUntouchedInv
<1> QED
  BY <1>1, <1>2

LEMMA LockReplyLostInv ==
  ASSUME Inv, NEW h \in Handler, LockReplyLost(h)
  PROVE  Inv'
<1>1. CASE /\ \E t \in Token : Fresh(t) /\ SetNX(t)
           /\ UNCHANGED <<pc, token, clock>>
  BY <1>1, OrphanKeyInv
<1>2. CASE pc[h] = "polling" /\ SetNX(token[h]) /\ Return(h)
  <2>1. \A g \in Handler : ~WithinLease(g)
    BY <1>2, FreeKeyNoLease DEF Inv, SetNX
  <2>2. token[h] \in Token
    BY <1>2 DEF Inv, TokensHeld
  <2> QED
    BY <1>2, <2>1, <2>2, ConstantsAssumption
       DEF Inv, TypeOK, TokensHeld, TokensDistinct, KeyAlive, LeaseIsKey, WithinLease,
           WorkBounded, SetNX, Return
<1> QED
  BY <1>1, <1>2 DEF LockReplyLost

LEMMA PollInv ==
  ASSUME Inv, NEW h \in Handler, Poll(h)
  PROVE  Inv'
<1>1. token[h] \in Token
  BY DEF Poll, Inv, TokensHeld
<1>2. TokensHeld' /\ TokensDistinct'
  BY DEF Poll, Enter, Inv, TypeOK, TokensHeld, TokensDistinct
<1> QED
  BY <1>1, <1>2, AcquireInv DEF Poll

\* The script deletes the key of no handler but the one that unlocks.
LEMMA UnlockInv ==
  ASSUME Inv, NEW h \in Handler, Unlock(h)
  PROVE  Inv'
<1>1. CASE lockToken = token[h]
  <2>1. \A g \in Handler \ {h} : ~WithinLease(g)
    BY <1>1 DEF Unlock, Inv, TokensDistinct, LeaseIsKey, WithinLease
  <2>2. lockToken' = NoToken /\ lockTtl' = 0
    BY <1>1 DEF Unlock, DeleteIfOwner
  <2> QED
    BY <2>1, <2>2, ConstantsAssumption
       DEF Unlock, Inv, TypeOK, TokensHeld, TokensDistinct, KeyAlive, LeaseIsKey,
           WithinLease, WorkBounded, Return
<1>2. CASE lockToken # token[h]
  BY <1>2, KeyUntouchedInv DEF Unlock, DeleteIfOwner
<1> QED
  BY <1>1, <1>2

LEMMA TickInv ==
  ASSUME Inv, Tick
  PROVE  Inv'
<1>1. TypeOK'
  BY ConstantsAssumption DEF Tick, ClocksAdvance, Inv, TypeOK
<1>2. TokensHeld' /\ TokensDistinct'
  BY DEF Tick, Inv, TokensHeld, TokensDistinct
<1>3. KeyAlive'
  BY ConstantsAssumption DEF Tick, Inv, TypeOK, KeyAlive
<1>4. LeaseIsKey'
  <2> SUFFICES ASSUME NEW h \in Handler, WithinLease(h)'
               PROVE  (lockToken = token[h] /\ lockTtl = LockTTL - clock[h])'
    BY DEF LeaseIsKey
  <2>1. clock[h] \in Nat /\ clock'[h] = clock[h] + 1
    BY DEF WithinLease, Tick, ClocksAdvance, Inv, TypeOK
  <2>2. WithinLease(h)
    BY <2>1, ConstantsAssumption DEF WithinLease, Tick
  <2>3. lockToken = token[h] /\ lockTtl = LockTTL - clock[h]
    BY <2>2 DEF Inv, LeaseIsKey
  <2> QED
    BY <2>1, <2>3, ConstantsAssumption DEF WithinLease, Tick
<1>5. WorkBounded'
  BY ConstantsAssumption DEF Tick, TimersNotDue, ClocksAdvance, Inv, TypeOK, WorkBounded
<1> QED
  BY <1>1, <1>2, <1>3, <1>4, <1>5 DEF Inv

LEMMA NextInv == Inv /\ [Next]_vars => Inv'
<1> SUFFICES ASSUME Inv, [Next]_vars PROVE Inv'
  OBVIOUS
<1>1. CASE UNCHANGED vars
  BY <1>1 DEF vars, Inv, TypeOK, TokensHeld, TokensDistinct, KeyAlive, LeaseIsKey,
              WithinLease, WorkBounded
<1>2. CASE Tick
  BY <1>2, TickInv
<1>3. ASSUME NEW h \in Handler, Step(h) PROVE Inv'
  <2>1. CASE TimeOut(h) \/ LockFails(h) \/ UnlockFails(h)
    BY <2>1, KeyUntouchedInv DEF TimeOut, LockFails, UnlockFails
  <2> QED
    BY <1>3, <2>1, LockInv, LockReplyLostInv, PollInv, UnlockInv DEF Step
<1> QED
  BY <1>1, <1>2, <1>3 DEF Next

-----------------------------------------------------------------------------
\* The invariant holds in every reachable state.
THEOREM Invariance == Spec => []Inv
BY InitInv, NextInv, PTL DEF Spec

\* Type correctness of the lock key and of its handlers.
THEOREM TypeCorrect == Spec => []TypeOK
BY Invariance, PTL DEF Inv

\* The lease is exclusive, whatever fails and however long the work takes.
THEOREM LeaseIsExclusive == Spec => []LeaseExclusive
<1>1. Inv => LeaseExclusive
  BY DEF Inv, TokensDistinct, LeaseIsKey, LeaseExclusive, WithinLease
<1> QED
  BY <1>1, Invariance, PTL

\* Work that is shorter than the lock's time to live is mutually exclusive: the
\* condition under which Lock and Unlock protect a handler of the orchestrator.
THEOREM MutexForShortWork ==
  ASSUME MaxWork < LockTTL
  PROVE  Spec => []MutualExclusion
<1>1. Inv => MutualExclusion
  <2> SUFFICES ASSUME Inv, NEW g \in Handler, NEW h \in Handler,
                      pc[g] = "working", pc[h] = "working"
               PROVE  g = h
    BY DEF MutualExclusion
  <2>1. WithinLease(g) /\ WithinLease(h)
    BY ConstantsAssumption DEF Inv, TypeOK, WorkBounded, WithinLease
  <2> QED
    BY <2>1 DEF Inv, TokensDistinct, LeaseIsKey
<1> QED
  BY <1>1, Invariance, PTL

\* The key disappears by expiry or by its owner's Unlock only.
THEOREM OwnerReleases == Spec => OnlyOwnerReleases
<1> DEFINE Release ==
      lockToken # NoToken /\ lockToken' = NoToken
        => \/ lockTtl = 1
           \/ \E h \in Handler : pc[h] = "working" /\ token[h] = lockToken /\ pc'[h] = "idle"
<1>1. Inv /\ [Next]_vars => [Release]_vars
  <2> SUFFICES ASSUME Inv, Next, lockToken # NoToken, lockToken' = NoToken
               PROVE  Release
    BY DEF vars
  <2>1. CASE Tick
    BY <2>1, ConstantsAssumption DEF Tick, Inv, TypeOK, KeyAlive
  <2>2. ASSUME NEW h \in Handler, Step(h) PROVE Release
    <3>1. CASE Unlock(h)
      BY <3>1 DEF Unlock, DeleteIfOwner, Return, Inv, TypeOK
    <3> QED
      BY <2>2, <3>1
         DEF Step, Lock, LockReplyLost, Poll, TimeOut, LockFails, UnlockFails, SetNX
  <2> QED
    BY <2>1, <2>2 DEF Next
<1> QED
  BY <1>1, Invariance, PTL DEF Spec, OnlyOwnerReleases
=============================================================================
