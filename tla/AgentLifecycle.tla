---------------------------- MODULE AgentLifecycle ----------------------------
(***************************************************************************)
(* The deployment of agents: the keeper's services that assign, deploy,    *)
(* query, edit and delete an agent (internal/keeper/application/service/   *)
(* agent_service.go and lifecycle_service.go), the coordinator that        *)
(* submits and tears down its TacitoAgent resource                         *)
(* (internal/keeper/adapters/outbound/crd/crd_coordinator.go), and the     *)
(* operator that turns the resource into a Deployment                      *)
(* (internal/operator).                                                    *)
(*                                                                         *)
(* A service reads the agent's row, then calls Kubernetes, then writes the *)
(* whole row back: each of these is a step, and steps of several requests  *)
(* interleave.  The part of a request that runs in a goroutine after the   *)
(* reply is the end of its task.  A request that is refused changes        *)
(* nothing and is not modelled.                                            *)
(***************************************************************************)
EXTENDS Naturals, FiniteSets

CONSTANTS Agents, Communities,
          Requests,   \* the requests that the keeper may handle at once
          MaxEvents,  \* bound: requests that are no retries, and failures
          MaxEdits,   \* bound: edits of an agent
          None

ASSUME ConstantsAssumption ==
  /\ MaxEvents \in Nat /\ MaxEdits \in Nat
  /\ None \notin Communities

Status == {"defined", "pending", "running", "stopped", "error"}
Row == [status : Status, community : Communities \cup {None}, edit : 0..MaxEdits]
Content == [community : Communities \cup {None}, edit : 0..MaxEdits]
NoRow == [status |-> "none"]
NoCRD == [phase |-> "none"]
NoDep == [absent |-> TRUE]
CRD == [phase : {"", "Pending", "Running"}, spec : Content]
\* owned: the resource that the owner reference names still exists.
Deployment == [ready : BOOLEAN, spec : Content, owned : BOOLEAN]

VARIABLES row,         \* table agents
          community,   \* communities.status
          task,        \* task[r][a]: where request r is with agent a
          fan,         \* what request r does with the agents of a community
          crd,         \* the TacitoAgent resources
          dep,         \* their Deployments
          queue,       \* the operator's work queue holds the agent's name
          op,          \* its reconciliation of the agent
          events,      \* requests that are no retries, and failures, so far
          overlap      \* history: two requests about the agent have overlapped

tables == <<row, community>>
requests == <<task, fan>>
cluster == <<crd, dep, queue, op>>
history == <<events, overlap>>
vars == <<tables, requests, cluster, history>>

SpecOf(r) == [community |-> r.community, edit |-> r.edit]

Idle == [pc |-> "idle"]
Steps == {"deploySave", "assignCheck", "submitGet", "submitCreate", "submitUpdate",
            "teardown", "undeploy", "stopSave", "statusRead", "statusSave", "editSave",
            "unassignCheck"}
Task == {Idle} \cup [pc : Steps, copy : Row]
               \cup [pc : {"assignTx", "unassignTx"}, copy : Row, target : Communities]

SaveSteps == {"deploySave", "stopSave", "statusSave", "editSave"}

NoFan == [op |-> "none"]
Fan == {NoFan} \cup [op : {"deploy", "undeploy", "status"},
                     of : Communities, todo : SUBSET Agents]

NotReconciling == [pc |-> "idle"]
\* fresh: the resource has not been written since it was read; same: nor deleted.
Reconciliation == {NotReconciling}
                  \cup [pc : {"apply"}, spec : Content, fresh : BOOLEAN, same : BOOLEAN]
                  \cup [pc : {"report"}, ready : BOOLEAN, fresh : BOOLEAN, same : BOOLEAN]

TypeOK ==
  /\ row \in [Agents -> Row \cup {NoRow}]
  /\ community \in [Communities -> {"created", "active", "inactive"}]
  /\ task \in [Requests -> [Agents -> Task]]
  /\ fan \in [Requests -> Fan]
  /\ crd \in [Agents -> CRD \cup {NoCRD}]
  /\ dep \in [Agents -> Deployment \cup {NoDep}]
  /\ queue \in [Agents -> BOOLEAN]
  /\ op \in [Agents -> Reconciliation]
  /\ events \in 0..MaxEvents
  /\ overlap \in [Agents -> BOOLEAN]

\* The agents are defined and in no community, or they run in one.
Init ==
  /\ \E deployed \in [Agents -> Communities \cup {None}] :
       /\ row = [a \in Agents |->
                   [status |-> IF deployed[a] = None THEN "defined" ELSE "running",
                    community |-> deployed[a], edit |-> 0]]
       /\ crd = [a \in Agents |->
                   IF deployed[a] = None THEN NoCRD
                   ELSE [phase |-> "Running", spec |-> SpecOf(row[a])]]
       /\ dep = [a \in Agents |->
                   IF deployed[a] = None THEN NoDep
                   ELSE [ready |-> TRUE, spec |-> SpecOf(row[a]), owned |-> TRUE]]
  /\ community = [c \in Communities |-> "active"]
  /\ task = [r \in Requests |-> [a \in Agents |-> Idle]]
  /\ fan = [r \in Requests |-> NoFan]
  /\ queue = [a \in Agents |-> FALSE]
  /\ op = [a \in Agents |-> NotReconciling]
  /\ events = 0
  /\ overlap = [a \in Agents |-> FALSE]

-----------------------------------------------------------------------------
Event == events < MaxEvents /\ events' = events + 1

Free(r) == fan[r] = NoFan /\ \A a \in Agents : task[r][a] = Idle
Busy(a) == {r \in Requests : task[r][a] # Idle}

\* A request begins with the read of the agent's row.
Begin(r, a, t) ==
  /\ task' = [task EXCEPT ![r][a] = t]
  /\ overlap' = [overlap EXCEPT ![a] = @ \/ Busy(a) # {}]

Become(r, a, t) == task' = [task EXCEPT ![r][a] = t] /\ UNCHANGED overlap
Ends(r, a) == Become(r, a, Idle)
At(r, a, pc) == task[r][a].pc = pc
Goes(r, a, pc) == Become(r, a, [pc |-> pc, copy |-> task[r][a].copy])

-----------------------------------------------------------------------------
(* PostgreSQL                                                              *)

\* AgentRepository.Update: the whole row is written, whoever wrote it since.
Update(a, copy) ==
  /\ row[a] # NoRow
  /\ row' = [row EXCEPT ![a] = copy]

-----------------------------------------------------------------------------
(* The Kubernetes API.  A write of a resource, or of the Deployment that   *)
(* it owns, wakes the operator (SetupWithManager).                         *)

Wakes(a) == queue' = [queue EXCEPT ![a] = TRUE]

\* Mutant of OwnedChanges: without Owns(&appsv1.Deployment{}).
OwnedUnwatched(a) == UNCHANGED queue
OwnedChanges(a) == Wakes(a)

CreateCRD(a, spec) ==
  /\ crd' = [crd EXCEPT ![a] = [phase |-> "", spec |-> spec]]
  /\ Wakes(a)
  /\ UNCHANGED <<dep, op>>

Written(a, same) ==
  op' = [op EXCEPT ![a] = IF @ = NotReconciling THEN @
                          ELSE [@ EXCEPT !.fresh = FALSE, !.same = op[a].same /\ same]]

UpdateCRD(a, spec) ==
  IF crd[a].spec = spec THEN UNCHANGED cluster
  ELSE /\ crd' = [crd EXCEPT ![a].spec = spec]
       /\ Wakes(a)
       /\ Written(a, TRUE)
       /\ UNCHANGED dep

\* TeardownAgentCRD: that there is none is no error.
DeleteCRD(a) ==
  IF crd[a] = NoCRD THEN UNCHANGED cluster
  ELSE /\ crd' = [crd EXCEPT ![a] = NoCRD]
       /\ Wakes(a)
       /\ Written(a, FALSE)
       /\ dep' = [dep EXCEPT ![a] = IF @ = NoDep THEN @ ELSE [@ EXCEPT !.owned = FALSE]]

-----------------------------------------------------------------------------
(* LifecycleService                                                        *)

DeployGuard(a) == row[a] # NoRow /\ row[a].community # None
                  /\ row[a].status \notin {"pending", "running"}
UndeployGuard(a) == row[a] # NoRow /\ row[a].status \in {"pending", "running", "error"}

DeployBegins(r, a) ==
  /\ DeployGuard(a)
  /\ Begin(r, a, [pc |-> "deploySave", copy |-> [row[a] EXCEPT !.status = "pending"]])

UndeployBegins(r, a) ==
  /\ UndeployGuard(a)
  /\ Begin(r, a, [pc |-> "undeploy", copy |-> [row[a] EXCEPT !.status = "stopped"]])

StatusBegins(r, a) ==
  /\ row[a] # NoRow
  /\ Begin(r, a, [pc |-> "statusRead", copy |-> row[a]])

\* POST /agents/:id/deploy, POST /agents/:id/undeploy, GET /agents/:id/status
DeployAgent(r, a) == Free(r) /\ Event /\ DeployBegins(r, a) /\ UNCHANGED <<tables, fan, cluster>>
UndeployAgent(r, a) == Free(r) /\ Event /\ UndeployBegins(r, a) /\ UNCHANGED <<tables, fan, cluster>>
GetAgentStatus(r, a) == Free(r) /\ Event /\ StatusBegins(r, a) /\ UNCHANGED <<tables, fan, cluster>>

\* The status is saved as pending before the resource is submitted.
DeploySaves(r, a) ==
  /\ At(r, a, "deploySave")
  /\ Update(a, task[r][a].copy)
  /\ Goes(r, a, "submitGet")
  /\ UNCHANGED <<community, fan, cluster, events>>

UndeployTearsDown(r, a) ==
  /\ At(r, a, "undeploy")
  /\ DeleteCRD(a)
  /\ Goes(r, a, "stopSave")
  /\ UNCHANGED <<tables, fan, events>>

\* Mutant of Reported: the phase that the operator has not set yet is passed on.
ReportedRaw(copy, a) ==
  IF crd[a] # NoCRD
  THEN CASE crd[a].phase = "Pending" -> "pending"
         [] crd[a].phase = "Running" -> "running"
         [] OTHER -> crd[a].phase
  ELSE IF copy.status \in {"stopped", "defined"} THEN copy.status ELSE "error"

\* The status that GetAgentStatus reports, of the row it read and the resource.
Reported(copy, a) ==
  IF crd[a] # NoCRD
  THEN CASE crd[a].phase = "Pending" -> "pending"
         [] crd[a].phase = "Running" -> "running"
         [] OTHER -> "error"
  ELSE IF copy.status \in {"stopped", "defined"} THEN copy.status ELSE "error"

StatusReadsCRD(r, a) ==
  /\ At(r, a, "statusRead")
  /\ LET copy == task[r][a].copy
         reported == Reported(copy, a)
     IN IF reported = copy.status
        THEN Ends(r, a)
        ELSE Become(r, a, [pc |-> "statusSave", copy |-> [copy EXCEPT !.status = reported]])
  /\ UNCHANGED <<tables, fan, cluster, events>>

\* The last step of Undeploy, GetAgentStatus and Update.
Saves(r, a, pc) ==
  /\ At(r, a, pc)
  /\ Update(a, task[r][a].copy)
  /\ Ends(r, a)
  /\ UNCHANGED <<community, fan, cluster, events>>

StopSaves(r, a) == Saves(r, a, "stopSave")
StatusSaves(r, a) == Saves(r, a, "statusSave")
EditSaves(r, a) == Saves(r, a, "editSave")

\* DeployCommunity, UndeployCommunity and GetCommunityStatus list the agents of
\* the community, and handle them in parallel.
CommunityRequest(r, c) ==
  /\ Free(r)
  /\ Event
  /\ \E kind \in {"deploy", "undeploy", "status"} :
       fan' = [fan EXCEPT ![r] =
                 [op |-> kind, of |-> c,
                  todo |-> {a \in Agents : /\ row[a] # NoRow /\ row[a].community = c
                                           /\ kind = "undeploy" => UndeployGuard(a)}]]
  /\ UNCHANGED <<tables, task, cluster, overlap>>

Todo(r, a) ==
  /\ fan[r] # NoFan /\ a \in fan[r].todo
  /\ fan' = [fan EXCEPT ![r].todo = @ \ {a}]

CommunityAgentBegins(r, a) ==
  /\ Todo(r, a)
  /\ CASE fan[r].op = "deploy" -> DeployBegins(r, a)
       [] fan[r].op = "undeploy" -> UndeployBegins(r, a)
       [] OTHER -> StatusBegins(r, a)
  /\ UNCHANGED <<tables, cluster, events>>

\* What is refused for one agent is reported as its failure.
CommunityAgentRefused(r, a) ==
  /\ Todo(r, a)
  /\ ~ CASE fan[r].op = "deploy" -> DeployGuard(a)
         [] fan[r].op = "undeploy" -> UndeployGuard(a)
         [] OTHER -> row[a] # NoRow
  /\ UNCHANGED <<tables, task, cluster, history>>

\* The community becomes active, or inactive, even if all its agents failed.
CommunityDone(r) ==
  /\ fan[r] # NoFan /\ fan[r].todo = {}
  /\ \A a \in Agents : task[r][a] = Idle
  /\ community' = CASE fan[r].op = "deploy" -> [community EXCEPT ![fan[r].of] = "active"]
                    [] fan[r].op = "undeploy" -> [community EXCEPT ![fan[r].of] = "inactive"]
                    [] OTHER -> community
  /\ fan' = [fan EXCEPT ![r] = NoFan]
  /\ UNCHANGED <<row, task, cluster, history>>

-----------------------------------------------------------------------------
(* AgentService                                                            *)

MayAssign(c) == community[c] \in {"created", "active"}

\* Assign of an agent that is free.  The list of agents that a single-agent
\* community is checked against is left out: nothing locks it (see hazards).
Assign(r, a, c) ==
  /\ Free(r)
  /\ Event
  /\ MayAssign(c) /\ row[a] # NoRow /\ row[a].community = None
  /\ Begin(r, a, [pc |-> "assignTx", copy |-> row[a], target |-> c])
  /\ UNCHANGED <<tables, fan, cluster>>

\* AssignToCommunity, which locks the agent's row, and the rest of Assign, which
\* goes on with the copy that was read before.
AssignCommits(r, a) ==
  /\ At(r, a, "assignTx")
  /\ LET c == task[r][a].target IN
     IF MayAssign(c) /\ row[a] # NoRow /\ row[a].community = None
     THEN /\ row' = [row EXCEPT ![a].community = c, ![a].status = "pending"]
          /\ Become(r, a, [pc |-> "submitGet",
                           copy |-> [task[r][a].copy EXCEPT !.community = c, !.status = "pending"]])
     ELSE Ends(r, a) /\ UNCHANGED row
  /\ UNCHANGED <<community, fan, cluster, events>>

\* Mutant of Reassign: any assigned agent is taken for one of this community.
ReassignAny(r, a, c) ==
  /\ Free(r)
  /\ MayAssign(c) /\ row[a] # NoRow /\ row[a].community # None
  /\ Begin(r, a, [pc |-> "assignCheck", copy |-> [row[a] EXCEPT !.community = c]])
  /\ UNCHANGED <<tables, fan, cluster, events>>

\* Assign to the community that the agent is in already: a retry.
Reassign(r, a, c) ==
  /\ Free(r)
  /\ MayAssign(c) /\ row[a] # NoRow /\ row[a].community = c
  /\ Begin(r, a, [pc |-> "assignCheck", copy |-> row[a]])
  /\ UNCHANGED <<tables, fan, cluster, events>>

ReassignChecks(r, a) ==
  /\ At(r, a, "assignCheck")
  /\ IF crd[a] # NoCRD /\ crd[a].phase # ""
     THEN Ends(r, a)
     ELSE Become(r, a, [pc |-> "deploySave",
                        copy |-> [task[r][a].copy EXCEPT !.status = "pending"]])
  /\ UNCHANGED <<tables, fan, cluster, events>>

Unassign(r, a, c) ==
  /\ Free(r)
  /\ Event
  /\ row[a] # NoRow /\ row[a].community # None
  /\ Begin(r, a, [pc |-> "unassignTx", copy |-> row[a], target |-> c])
  /\ UNCHANGED <<tables, fan, cluster>>

\* UnassignFromCommunity and DeleteRegistration; the rest runs in a goroutine.
UnassignCommits(r, a) ==
  /\ At(r, a, "unassignTx")
  /\ IF row[a] # NoRow /\ row[a].community = task[r][a].target
     THEN /\ row' = [row EXCEPT ![a].community = None, ![a].status = "defined"]
          /\ Goes(r, a, "teardown")
     ELSE Ends(r, a) /\ UNCHANGED row
  /\ UNCHANGED <<community, fan, cluster, events>>

\* Unassign of an agent that is in no community: a retry.
Reunassign(r, a) ==
  /\ Free(r)
  /\ row[a] # NoRow /\ row[a].community = None
  /\ Begin(r, a, [pc |-> "unassignCheck", copy |-> row[a]])
  /\ UNCHANGED <<tables, fan, cluster, events>>

\* Mutant of ReunassignChecks: what is unassigned already is left alone.
ReunassignReturns(r, a) ==
  /\ At(r, a, "unassignCheck")
  /\ Ends(r, a)
  /\ UNCHANGED <<row, community, fan, cluster, events>>

ReunassignChecks(r, a) ==
  /\ At(r, a, "unassignCheck")
  /\ IF crd[a] # NoCRD
     THEN Goes(r, a, "teardown")
     ELSE Ends(r, a)
  /\ UNCHANGED <<row, community, fan, cluster, events>>

\* The handler of PUT /agents/:id, and AttachPromptToAgent and its like: they
\* change what they have read.
Edit(r, a) ==
  /\ Free(r)
  /\ Event
  /\ row[a] # NoRow /\ row[a].edit < MaxEdits
  /\ Begin(r, a, [pc |-> "editSave", copy |-> [row[a] EXCEPT !.edit = @ + 1]])
  /\ UNCHANGED <<tables, fan, cluster>>

\* The row goes, and by the foreign key its registration; the resource stays.
Delete(r, a) ==
  /\ Free(r)
  /\ Event
  /\ row[a] # NoRow
  /\ row' = [row EXCEPT ![a] = NoRow]
  /\ UNCHANGED <<community, requests, cluster, overlap>>

-----------------------------------------------------------------------------
(* K8sCRDCoordinator, for the agent as its caller has read it              *)

SubmitGets(r, a) ==
  /\ At(r, a, "submitGet")
  /\ Goes(r, a, IF crd[a] = NoCRD THEN "submitCreate" ELSE "submitUpdate")
  /\ UNCHANGED <<tables, fan, cluster, events>>

\* Create fails when another request has created the resource since.
SubmitCreates(r, a) ==
  /\ At(r, a, "submitCreate")
  /\ IF crd[a] = NoCRD THEN CreateCRD(a, SpecOf(task[r][a].copy)) ELSE UNCHANGED cluster
  /\ Ends(r, a)
  /\ UNCHANGED <<tables, fan, events>>

\* The round of RetryOnConflict that succeeds; it fails when the resource is gone.
SubmitUpdates(r, a) ==
  /\ At(r, a, "submitUpdate")
  /\ IF crd[a] # NoCRD THEN UpdateCRD(a, SpecOf(task[r][a].copy)) ELSE UNCHANGED cluster
  /\ Ends(r, a)
  /\ UNCHANGED <<tables, fan, events>>

TeardownAgentCRD(r, a) ==
  /\ At(r, a, "teardown")
  /\ DeleteCRD(a)
  /\ Ends(r, a)
  /\ UNCHANGED <<tables, fan, events>>

-----------------------------------------------------------------------------
(* Failures of the keeper                                                  *)

\* A call returns an error, or the row is gone when it is to be written.
TaskFails(r, a) ==
  /\ task[r][a] # Idle
  /\ \/ Event
     \/ task[r][a].pc \in SaveSteps /\ row[a] = NoRow /\ UNCHANGED events
  /\ Ends(r, a)
  /\ UNCHANGED <<tables, fan, cluster>>

KeeperCrashes ==
  /\ Event
  /\ task' = [r \in Requests |-> [a \in Agents |-> Idle]]
  /\ fan' = [r \in Requests |-> NoFan]
  /\ UNCHANGED <<tables, cluster, overlap>>

-----------------------------------------------------------------------------
(* The operator                                                            *)

\* TacitoAgentReconciler.Reconcile reads the resource; when there is none, it is done.
ReconcileBegins(a) ==
  /\ queue[a] /\ op[a] = NotReconciling
  /\ queue' = [queue EXCEPT ![a] = FALSE]
  /\ op' = IF crd[a] = NoCRD THEN op
           ELSE [op EXCEPT ![a] = [pc |-> "apply", spec |-> crd[a].spec, fresh |-> TRUE, same |-> TRUE]]
  /\ UNCHANGED <<tables, requests, crd, dep, history>>

\* The Deployment is created, or its specification replaced: its owner stays.
Applied(a) ==
  IF dep[a] = NoDep THEN [ready |-> FALSE, spec |-> op[a].spec, owned |-> op[a].same]
  ELSE [dep[a] EXCEPT !.spec = op[a].spec]

ReconcileApplies(a) ==
  /\ op[a].pc = "apply"
  /\ dep' = [dep EXCEPT ![a] = Applied(a)]
  /\ queue' = [queue EXCEPT ![a] = @ \/ Applied(a) # dep[a]]
  /\ op' = [op EXCEPT ![a] = [pc |-> "report", ready |-> Applied(a).ready,
                              fresh |-> op[a].fresh, same |-> op[a].same]]
  /\ UNCHANGED <<tables, requests, crd, history>>

\* The status is written; on a conflict the name is queued again.
ReconcileReports(a) ==
  /\ op[a].pc = "report"
  /\ LET phase == IF op[a].ready THEN "Running" ELSE "Pending" IN
     IF op[a].fresh
     THEN /\ crd' = [crd EXCEPT ![a].phase = phase]
          /\ queue' = [queue EXCEPT ![a] = @ \/ phase # crd[a].phase]
     ELSE queue' = [queue EXCEPT ![a] = TRUE] /\ UNCHANGED crd
  /\ op' = [op EXCEPT ![a] = NotReconciling]
  /\ UNCHANGED <<tables, requests, dep, history>>

\* A call fails, and the name is queued again.
ReconcileFails(a) ==
  /\ op[a] # NotReconciling
  /\ Event
  /\ op' = [op EXCEPT ![a] = NotReconciling]
  /\ queue' = [queue EXCEPT ![a] = TRUE]
  /\ UNCHANGED <<tables, requests, crd, dep, overlap>>

\* Mutant of OperatorCrashes: there is no first list.
OperatorForgets ==
  /\ Event
  /\ op' = [a \in Agents |-> NotReconciling]
  /\ queue' = [a \in Agents |-> FALSE]
  /\ UNCHANGED <<tables, requests, crd, dep, overlap>>

\* The operator starts again, and finds all resources with its first list.
OperatorCrashes ==
  /\ Event
  /\ op' = [a \in Agents |-> NotReconciling]
  /\ queue' = [a \in Agents |-> crd[a] # NoCRD]
  /\ UNCHANGED <<tables, requests, crd, dep, overlap>>

-----------------------------------------------------------------------------
(* Kubernetes: the garbage collector and the pods                          *)

Ready(a) == dep[a] # NoDep /\ dep[a].ready

Collect(a) ==
  /\ dep[a] # NoDep /\ ~dep[a].owned
  /\ dep' = [dep EXCEPT ![a] = NoDep]
  /\ OwnedChanges(a)
  /\ UNCHANGED <<tables, requests, crd, op, history>>

PodReady(a) ==
  /\ dep[a] # NoDep /\ ~dep[a].ready
  /\ dep' = [dep EXCEPT ![a].ready = TRUE]
  /\ OwnedChanges(a)
  /\ UNCHANGED <<tables, requests, crd, op, history>>

PodFails(a) ==
  /\ Ready(a)
  /\ Event
  /\ dep' = [dep EXCEPT ![a].ready = FALSE]
  /\ OwnedChanges(a)
  /\ UNCHANGED <<tables, requests, crd, op, overlap>>

-----------------------------------------------------------------------------
TaskStep(r, a) ==
  \/ DeploySaves(r, a) \/ UndeployTearsDown(r, a) \/ StopSaves(r, a)
  \/ StatusReadsCRD(r, a) \/ StatusSaves(r, a)
  \/ AssignCommits(r, a) \/ ReassignChecks(r, a)
  \/ UnassignCommits(r, a) \/ ReunassignChecks(r, a) \/ EditSaves(r, a)
  \/ SubmitGets(r, a) \/ SubmitCreates(r, a) \/ SubmitUpdates(r, a) \/ TeardownAgentCRD(r, a)
  \/ TaskFails(r, a)

CommunityStep(r) ==
  \/ \E a \in Agents : CommunityAgentBegins(r, a) \/ CommunityAgentRefused(r, a)
  \/ CommunityDone(r)

Request(r, a) ==
  \/ DeployAgent(r, a) \/ UndeployAgent(r, a) \/ GetAgentStatus(r, a)
  \/ \E c \in Communities : Assign(r, a, c) \/ Unassign(r, a, c)
  \/ Edit(r, a) \/ Delete(r, a)

\* One client retries, when it has the answer to what it has sent before.
Unanswered(a) == \E r \in Requests : task[r][a].pc \in {"assignCheck", "unassignCheck", "deploySave"}
Retry(r, a) == ~Unanswered(a) /\ (Reunassign(r, a) \/ \E c \in Communities : Reassign(r, a, c))

Reconcile(a) == ReconcileBegins(a) \/ ReconcileApplies(a) \/ ReconcileReports(a)

Environment(a) ==
  \/ Collect(a) \/ PodReady(a) \/ PodFails(a) \/ ReconcileFails(a)

Next ==
  \/ \E r \in Requests, a \in Agents : Request(r, a) \/ Retry(r, a) \/ TaskStep(r, a)
  \/ \E r \in Requests : CommunityStep(r) \/ \E c \in Communities : CommunityRequest(r, c)
  \/ \E a \in Agents : Reconcile(a) \/ Environment(a)
  \/ KeeperCrashes \/ OperatorCrashes

\* What has begun goes on, the operator's workers, Kubernetes and the pods run,
\* and the client retries: a request finds a free place again and again.
Fairness ==
  /\ \A r \in Requests : /\ \A a \in Agents : WF_vars(TaskStep(r, a)) /\ SF_vars(Retry(r, a))
                         /\ WF_vars(CommunityStep(r))
  /\ \A a \in Agents : WF_vars(Reconcile(a)) /\ WF_vars(Collect(a)) /\ WF_vars(PodReady(a))

Spec == Init /\ [][Next]_vars /\ Fairness

-----------------------------------------------------------------------------
InSync(a) ==
  crd[a] # NoCRD =>
    /\ dep[a] # NoDep /\ dep[a].spec = crd[a].spec
    /\ crd[a].phase = IF dep[a].ready THEN "Running" ELSE "Pending"

\* No event is lost between the reads and the writes of a reconciliation
\* (reconcile_service.go): as long as the Deployment or the reported phase is
\* not what the resource asks for, the operator still has work for it.
NoMissedWakeup ==
  \A a \in Agents : InSync(a) \/ queue[a] \/ op[a] # NotReconciling

\* Requests that come one after the other lose nothing: an edit is undone, or an
\* agent moves from one community to another without leaving the first, only if
\* two requests about the agent have overlapped, as every service writes the
\* whole row back (agent_repository.go:278).
LostUpdateNeedsOverlap ==
  [][\A a \in Agents :
       row[a] # NoRow /\ row'[a] # NoRow =>
         \/ overlap[a]
         \/ /\ row'[a].edit >= row[a].edit
            /\ row[a].community = None \/ row'[a].community \in {None, row[a].community}]_vars

\* The operator gets there: when requests and failures end, each resource has the
\* Deployment and the phase it should have, whatever was deleted and created again
\* while a reconciliation or the garbage collector was at work, and no Deployment
\* is left without its resource.
Converges ==
  <>[](\A a \in Agents : InSync(a) /\ (crd[a] = NoCRD => dep[a] = NoDep))

\* Repeating Assign or Unassign repairs what a failure or a race has left
\* (agent_service.go:104 and 189): in the end the agents that are in a community
\* have a resource, unless the community has been undeployed and refuses the
\* retry, and those that are in none have none.
RetriesRepair ==
  <>[](\A a \in Agents : row[a] # NoRow =>
         /\ row[a].community = None => crd[a] = NoCRD
         /\ row[a].community # None /\ MayAssign(row[a].community) => crd[a] # NoCRD)
=============================================================================
