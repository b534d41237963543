------------------------------- MODULE ThreadLock -------------------------------
(***************************************************************************)
(* The distributed lock of one conversation thread, as                     *)
(* RedisMemoryAdapter.Lock and Unlock implement it                         *)
(* (internal/agent/adapters/outbound/redis/state_lock_adapter.go): SET NX  *)
(* with a fresh token and a time to live, polled every 100 ms until        *)
(* lockTimeout, and released by a Lua script that deletes the key only if  *)
(* it still holds the caller's token.  There is no renewal and no fencing. *)
(*                                                                         *)
(* Time passes in discrete ticks (the poll period is one).  The key's      *)
(* remaining life and the handlers' clocks are kept as elapsed or          *)
(* remaining time, so that the state space is finite without bounding the  *)
(* number of acquisitions.                                                 *)
(***************************************************************************)
EXTENDS Naturals

CONSTANTS Handler,      \* goroutines that lock the thread, in any replica
          Token,        \* the uuids Lock draws its tokens from
          NoToken,      \* the lock key is absent
          LockTTL,      \* RedisMemoryAdapter.lockTTL
          LockTimeout,  \* RedisMemoryAdapter.lockTimeout
          MaxWork       \* the longest a handler works between Lock and Unlock

ASSUME ConstantsAssumption ==
  /\ NoToken \notin Token
  /\ LockTTL \in Nat \ {0}
  /\ LockTimeout \in Nat \ {0}
  /\ MaxWork \in Nat \ {0}

VARIABLES lockToken,  \* value of the key ts:tenant:T:lock:thread, or NoToken
          lockTtl,    \* remaining life of the key, 0 when it is absent
          pc,         \* "idle", "polling" (inside Lock) or "working" (lock held)
          token,      \* the token of the handler's current call of Lock
          clock       \* how long the handler has been polling, or working

vars == <<lockToken, lockTtl, pc, token, clock>>

-----------------------------------------------------------------------------
\* A uuid that no key and no handler carries.
Fresh(t) == t # lockToken /\ \A h \in Handler : pc[h] # "idle" => token[h] # t

Enter(h, place, t) ==
  /\ pc' = [pc EXCEPT ![h] = place]
  /\ token' = [token EXCEPT ![h] = t]
  /\ clock' = [clock EXCEPT ![h] = 0]

Return(h) ==
  /\ pc' = [pc EXCEPT ![h] = "idle"]
  /\ token' = [token EXCEPT ![h] = NoToken]
  /\ clock' = [clock EXCEPT ![h] = 0]

\* SET without NX (a mutation of SetNX).
SetNXAlways(t) == lockToken' = t /\ lockTtl' = LockTTL

\* SET key t NX PX ttl: succeeds on an absent key only.
SetNX(t) == lockToken = NoToken /\ lockToken' = t /\ lockTtl' = LockTTL

Init ==
  /\ lockToken = NoToken
  /\ lockTtl = 0
  /\ pc = [h \in Handler |-> "idle"]
  /\ token = [h \in Handler |-> NoToken]
  /\ clock = [h \in Handler |-> 0]

\* Lock, first attempt: the key is set at once, or the polling begins.
Lock(h) ==
  /\ pc[h] = "idle"
  /\ \E t \in Token :
       /\ Fresh(t)
       /\ \/ SetNX(t) /\ Enter(h, "working", t)
          \/ /\ lockToken # NoToken
             /\ Enter(h, "polling", t)
             /\ UNCHANGED <<lockToken, lockTtl>>

\* SET NX reached Redis but its reply did not reach Lock, which returns the
\* error: the key holds a token that no handler will ever release.
LockReplyLost(h) ==
  \/ /\ pc[h] = "idle"
     /\ \E t \in Token : Fresh(t) /\ SetNX(t)
     /\ UNCHANGED <<pc, token, clock>>
  \/ /\ pc[h] = "polling"
     /\ SetNX(token[h])
     /\ Return(h)

\* A tick of the ticker: another SET NX with the same token.
Poll(h) ==
  /\ pc[h] = "polling"
  /\ SetNX(token[h])
  /\ Enter(h, "working", token[h])

\* time.After(lockTimeout) fired.
TimeOut(h) ==
  /\ pc[h] = "polling"
  /\ clock[h] = LockTimeout
  /\ Return(h)
  /\ UNCHANGED <<lockToken, lockTtl>>

\* ctx was cancelled, or a later SET NX failed before it reached Redis.
LockFails(h) ==
  /\ pc[h] = "polling"
  /\ Return(h)
  /\ UNCHANGED <<lockToken, lockTtl>>

\* The unlock script: compare and delete, in one step of Redis.
DeleteIfOwner(t) ==
  IF lockToken = t THEN lockToken' = NoToken /\ lockTtl' = 0
                   ELSE UNCHANGED <<lockToken, lockTtl>>

Unlock(h) ==
  /\ pc[h] = "working"
  /\ DeleteIfOwner(token[h])
  /\ Return(h)

\* The script could not run, or the handler's process died: the key stays.
UnlockFails(h) ==
  /\ pc[h] = "working"
  /\ Return(h)
  /\ UNCHANGED <<lockToken, lockTtl>>

TimersNotDue ==
  \A h \in Handler : /\ pc[h] = "polling" => clock[h] < LockTimeout
                     /\ pc[h] = "working" => clock[h] < MaxWork

ClocksAdvance == clock' = [h \in Handler |-> IF pc[h] = "idle" THEN 0 ELSE clock[h] + 1]

\* The key is set without a TTL (a mutation of Tick).
TickKeepsKey ==
  /\ TimersNotDue
  /\ ClocksAdvance
  /\ UNCHANGED <<lockToken, lockTtl, pc, token>>

\* The key outlives its TTL by one tick, its life below zero (a mutation of Tick).
TickLate ==
  /\ TimersNotDue
  /\ ClocksAdvance
  /\ lockTtl' = IF lockToken = NoToken THEN 0 ELSE lockTtl - 1
  /\ lockToken' = IF lockTtl = 0 THEN NoToken ELSE lockToken
  /\ UNCHANGED <<pc, token>>

\* One tick: the key ages and Redis drops it at the end of its life.  A timer
\* that is due fires before time goes on, so a poller gives up at LockTimeout;
\* MaxWork bounds the work.
Tick ==
  /\ TimersNotDue
  /\ ClocksAdvance
  /\ lockTtl' = IF lockTtl = 0 THEN 0 ELSE lockTtl - 1
  /\ lockToken' = IF lockTtl' = 0 THEN NoToken ELSE lockToken
  /\ UNCHANGED <<pc, token>>

Step(h) == Lock(h) \/ LockReplyLost(h) \/ Poll(h) \/ TimeOut(h) \/ LockFails(h)
           \/ Unlock(h) \/ UnlockFails(h)

Next == Tick \/ \E h \in Handler : Step(h)

\* Handlers finish their work, expired timers fire and time passes.
Fairness ==
  /\ WF_vars(Tick)
  /\ \A h \in Handler : WF_vars(TimeOut(h)) /\ WF_vars(Unlock(h))

Spec == Init /\ [][Next]_vars

FairSpec == Spec /\ Fairness

-----------------------------------------------------------------------------
TypeOK ==
  /\ lockToken \in Token \cup {NoToken}
  /\ lockTtl \in 0..LockTTL
  /\ pc \in [Handler -> {"idle", "polling", "working"}]
  /\ token \in [Handler -> Token \cup {NoToken}]
  /\ clock \in [Handler -> Nat]

\* The handler works and its lease has not run out.
WithinLease(h) == pc[h] = "working" /\ clock[h] < LockTTL

\* Two handlers are never both within their lease, however long the work takes
\* and whichever calls of Redis fail: a late Unlock of an expired holder must
\* not free the lock of the next one (Lock and Unlock of state_lock_adapter.go).
LeaseExclusive ==
  \A g, h \in Handler : WithinLease(g) /\ WithinLease(h) => g = h

\* At most one handler works on the thread: what the orchestrator counts on
\* from Lock to Unlock.  It needs work that is shorter than the lease.
MutualExclusion ==
  \A g, h \in Handler : pc[g] = "working" /\ pc[h] = "working" => g = h

\* The key disappears only when its life is over or when the handler that set
\* it unlocks: no handler frees the lock of another.
OnlyOwnerReleases ==
  [][ lockToken # NoToken /\ lockToken' = NoToken
        => \/ lockTtl = 1
           \/ \E h \in Handler : pc[h] = "working" /\ token[h] = lockToken /\ pc'[h] = "idle"
    ]_vars

\* A key whose setter crashed, or never learnt that it set it, does not block
\* the thread for ever.
LockIsFreed == \A t \in Token : lockToken = t ~> lockToken # t
=============================================================================
