---------------------------- MODULE CircuitBreaker ----------------------------
(***************************************************************************)
(* The circuit breaker that the agents' LLM and tool adapters share among  *)
(* their goroutines                                                        *)
(* (internal/agent/adapters/outbound/resiliency/circuit_breaker.go).       *)
(* beforeExecute and afterExecute run under the mutex and are steps; the   *)
(* operation runs between them, outside it, so that its result may arrive  *)
(* in another state of the breaker than the one that admitted it.          *)
(*                                                                         *)
(* Time is kept as the age of lastStateChange, which saturates just above  *)
(* recoveryTimeout: the code only asks whether it exceeds that.  failures  *)
(* saturates at the threshold, for the same reason.                        *)
(***************************************************************************)
EXTENDS Naturals

CONSTANTS Caller,     \* goroutines that call Execute
          Threshold,  \* failures that trip the breaker
          Recovery    \* recoveryTimeout, in ticks

ASSUME ConstantsAssumption == Threshold \in Nat \ {0} /\ Recovery \in Nat \ {0}

VARIABLES state,        \* "closed", "half_open" or "open"
          failures,     \* failures since the last success
          age,          \* time since lastStateChange
          calls,        \* "idle", or "running": inside the operation
          sinceFailure  \* history: time since an operation last failed

vars == <<state, failures, age, calls, sinceFailure>>

Old == Recovery + 1

Older(n) == IF n < Old THEN n + 1 ELSE Old

\* NewCircuitBreaker: lastStateChange is the zero time.
Init ==
  /\ state = "closed"
  /\ failures = 0
  /\ age = Old
  /\ calls = [c \in Caller |-> "idle"]
  /\ sinceFailure = Old

-----------------------------------------------------------------------------
Starts(c) == calls[c] = "idle" /\ calls' = [calls EXCEPT ![c] = "running"]
Returns(c) == calls[c] = "running" /\ calls' = [calls EXCEPT ![c] = "idle"]

\* beforeExecute lets the operation run: half-open admits every caller.
Admit(c) ==
  /\ state # "open"
  /\ Starts(c)
  /\ UNCHANGED <<state, failures, age, sinceFailure>>

\* The trial runs with the breaker still open (a mutation of Probe).
ProbeStaysOpen(c) ==
  /\ state = "open" /\ age > Recovery
  /\ Starts(c)
  /\ age' = 0
  /\ UNCHANGED <<state, failures, sinceFailure>>

\* beforeExecute: the recovery timeout is over, the caller runs a trial.
Probe(c) ==
  /\ state = "open" /\ age > Recovery
  /\ Starts(c)
  /\ state' = "half_open"
  /\ age' = 0
  /\ UNCHANGED <<failures, sinceFailure>>

\* ErrCircuitOpen: the fallback runs at once.
Reject(c) ==
  /\ state = "open" /\ age <= Recovery
  /\ calls[c] = "idle"
  /\ UNCHANGED vars

\* A success that stamps the state whatever it is (a mutation of Succeed).
SucceedStamps(c) ==
  /\ Returns(c)
  /\ failures' = 0
  /\ state' = IF state = "half_open" THEN "closed" ELSE state
  /\ age' = 0
  /\ UNCHANGED sinceFailure

\* A trial that succeeds keeps the old failures (a mutation of Succeed).
SucceedKeepsFailures(c) ==
  /\ Returns(c)
  /\ failures' = IF state = "half_open" THEN failures ELSE 0
  /\ state' = IF state = "half_open" THEN "closed" ELSE state
  /\ UNCHANGED <<age, sinceFailure>>

\* A success takes one failure back (a mutation of Succeed).
SucceedDecrements(c) ==
  /\ Returns(c)
  /\ failures' = failures - 1
  /\ state' = IF state = "half_open" THEN "closed" ELSE state
  /\ UNCHANGED <<age, sinceFailure>>

\* afterExecute, no error.  A late success leaves an open breaker open.
Succeed(c) ==
  /\ Returns(c)
  /\ failures' = 0
  /\ state' = IF state = "half_open" THEN "closed" ELSE state
  /\ UNCHANGED <<age, sinceFailure>>

MoreFailures == IF failures < Threshold THEN failures + 1 ELSE Threshold

\* afterExecute, error.  A late failure may stamp an open breaker again.
Fail(c) ==
  /\ Returns(c)
  /\ failures' = MoreFailures
  /\ IF state = "half_open" \/ MoreFailures >= Threshold
       THEN state' = "open" /\ age' = 0
       ELSE UNCHANGED <<state, age>>
  /\ sinceFailure' = 0

Tick ==
  /\ age' = Older(age)
  /\ sinceFailure' = Older(sinceFailure)
  /\ UNCHANGED <<state, failures, calls>>

Execute(c) == Admit(c) \/ Probe(c) \/ Reject(c) \/ Succeed(c) \/ Fail(c)

Next == Tick \/ \E c \in Caller : Execute(c)

\* Time passes and operations return (they have deadlines).  That the callers
\* call again is an assumption on the traffic: the breaker has no timer, so
\* without calls it stays open.
Fairness ==
  /\ WF_vars(Tick)
  /\ \A c \in Caller : WF_vars(Admit(c) \/ Probe(c)) /\ WF_vars(Succeed(c) \/ Fail(c))

Spec == Init /\ [][Next]_vars

FairSpec == Spec /\ Fairness

-----------------------------------------------------------------------------
TypeOK ==
  /\ state \in {"closed", "half_open", "open"}
  /\ failures \in 0..Threshold
  /\ age \in 0..Old
  /\ calls \in [Caller -> {"idle", "running"}]
  /\ sinceFailure \in 0..Old

\* A closed breaker is below its threshold: no interleaving of trials and late
\* results closes it with the failures of an earlier period still counted, so
\* that one more failure would trip it at once (the counter of afterExecute).
ClosedBelowThreshold == state = "closed" => failures < Threshold

\* The breaker never turns calls away longer than the recovery timeout after
\* the last failure: late successes and trials do not prolong the open period
\* (lastStateChange of beforeExecute and afterExecute).
RejectionsAreJustified == state = "open" => sinceFailure <= age

\* Once operations no longer fail, the breaker closes, whatever state the
\* failures and the late results left it in, and it stays closed.
Recovers == <>[][\A c \in Caller : ~Fail(c)]_vars => <>[](state = "closed")
=============================================================================
