------------------------- MODULE AgentLifecycleProofs -------------------------
(***************************************************************************)
(* The safety of AgentLifecycle for any agents, communities, requests and  *)
(* failures: no wakeup of the operator is missed, and updates of an agent  *)
(* are lost only by requests that overlap.                                 *)
(***************************************************************************)
EXTENDS AgentLifecycle, TLAPS

USE ConstantsAssumption

-----------------------------------------------------------------------------
(* Types: of the tables and requests, and of the cluster.                  *)

RequestTypes ==
  /\ row \in [Agents -> Row \cup {NoRow}]
  /\ community \in [Communities -> {"created", "active", "inactive"}]
  /\ task \in [Requests -> [Agents -> Task]]
  /\ fan \in [Requests -> Fan]
  /\ events \in 0..MaxEvents
  /\ overlap \in [Agents -> BOOLEAN]

ClusterTypes ==
  /\ crd \in [Agents -> CRD \cup {NoCRD}]
  /\ dep \in [Agents -> Deployment \cup {NoDep}]
  /\ queue \in [Agents -> BOOLEAN]
  /\ op \in [Agents -> Reconciliation]

LEMMA TypesSplit == TypeOK <=> RequestTypes /\ ClusterTypes
BY DEF TypeOK, RequestTypes, ClusterTypes

LEMMA TypesSplitNext == RequestTypes' /\ ClusterTypes' => TypeOK'
BY DEF TypeOK, RequestTypes, ClusterTypes

\* What the records are.
LEMMA RowFields ==
  ASSUME TypeOK, NEW a \in Agents, row[a] # NoRow
  PROVE  /\ row[a] \in Row
         /\ \A s \in Status : [row[a] EXCEPT !.status = s] \in Row
         /\ \A n \in 0..MaxEdits : [row[a] EXCEPT !.edit = n] \in Row
<1>1. row[a] \in Row
  BY DEF TypeOK
<1> QED
  BY <1>1 DEF Row

LEMMA CopyFields ==
  ASSUME NEW copy \in Row
  PROVE  /\ \A s \in Status : [copy EXCEPT !.status = s] \in Row
         /\ \A c \in Communities, s \in Status : [copy EXCEPT !.community = c, !.status = s] \in Row
         /\ SpecOf(copy) \in Content
         /\ copy.status \in Status
BY DEF Row, SpecOf, Content

LEMMA TaskFields ==
  ASSUME TypeOK, NEW r \in Requests, NEW a \in Agents, task[r][a] # Idle
  PROVE  /\ task[r][a].pc \in Steps \cup {"assignTx", "unassignTx"} /\ task[r][a].copy \in Row
         /\ task[r][a].pc \in {"assignTx", "unassignTx"} => task[r][a].target \in Communities
BY DEF TypeOK, Task, Steps, Idle

LEMMA AtTask ==
  ASSUME NEW r \in Requests, NEW a \in Agents, NEW place, At(r, a, place), place # "idle"
  PROVE  task[r][a] # Idle /\ task[r][a].pc = place
BY DEF At, Idle

LEMMA Tasks ==
  /\ Idle \in Task
  /\ \A place \in Steps, copy \in Row : [pc |-> place, copy |-> copy] \in Task
  /\ \A place \in {"assignTx", "unassignTx"}, copy \in Row, c \in Communities :
       [pc |-> place, copy |-> copy, target |-> c] \in Task
BY DEF Task

LEMMA TaskTypes ==
  ASSUME TypeOK, NEW r \in Requests, NEW a \in Agents, NEW t \in Task, Begin(r, a, t) \/ Become(r, a, t)
  PROVE  task' \in [Requests -> [Agents -> Task]] /\ overlap' \in [Agents -> BOOLEAN]
<1>1. task' \in [Requests -> [Agents -> Task]]
  <2>1. task' = [task EXCEPT ![r] = [task[r] EXCEPT ![a] = t]]
    BY DEF TypeOK, Begin, Become
  <2>2. [task[r] EXCEPT ![a] = t] \in [Agents -> Task]
    BY DEF TypeOK
  <2> QED
    BY <2>1, <2>2 DEF TypeOK
<1>2. overlap' \in [Agents -> BOOLEAN]
  <2> DEFINE busy == Busy(a) # {}
  <2>1. busy \in BOOLEAN /\ overlap[a] \in BOOLEAN /\ (overlap[a] \/ busy) \in BOOLEAN
    BY DEF TypeOK
  <2>2. overlap' = overlap \/ overlap' = [overlap EXCEPT ![a] = overlap[a] \/ busy]
    BY DEF Begin, Become
  <2> HIDE DEF busy
  <2> QED
    BY <2>1, <2>2 DEF TypeOK
<1> QED
  BY <1>1, <1>2

LEMMA EventTypes == RequestTypes /\ (Event \/ UNCHANGED events) => events' \in 0..MaxEvents
BY DEF RequestTypes, Event

\* The requests about one agent that begin, for the services of one and of all agents of a
\* community.
LEMMA BeginsTypes ==
  ASSUME TypeOK, NEW r \in Requests, NEW a \in Agents,
         DeployBegins(r, a) \/ UndeployBegins(r, a) \/ StatusBegins(r, a)
  PROVE  task' \in [Requests -> [Agents -> Task]] /\ overlap' \in [Agents -> BOOLEAN]
<1> USE DEF Steps, Status
<1>1. CASE DeployBegins(r, a)
  BY <1>1, RowFields, Tasks, TaskTypes DEF DeployBegins, DeployGuard
<1>2. CASE UndeployBegins(r, a)
  BY <1>2, RowFields, Tasks, TaskTypes DEF UndeployBegins, UndeployGuard
<1>3. CASE StatusBegins(r, a)
  BY <1>3, RowFields, Tasks, TaskTypes DEF StatusBegins
<1> QED
  BY <1>1, <1>2, <1>3

LEMMA RequestStepTypes ==
  ASSUME TypeOK, NEW r \in Requests, NEW a \in Agents, Request(r, a) \/ Retry(r, a)
  PROVE  TypeOK'
<1> USE DEF Steps, Status, cluster, tables, history, requests
<1>1. CASE DeployAgent(r, a) \/ UndeployAgent(r, a) \/ GetAgentStatus(r, a)
  BY <1>1, BeginsTypes, TypesSplit, TypesSplitNext, EventTypes
     DEF DeployAgent, UndeployAgent, GetAgentStatus, RequestTypes, ClusterTypes
<1>2. ASSUME NEW c \in Communities, Assign(r, a, c) \/ Unassign(r, a, c) PROVE TypeOK'
  <2>1. PICK t \in Task : Begin(r, a, t)
    BY <1>2, RowFields, Tasks DEF Assign, Unassign
  <2> QED
    BY <1>2, <2>1, TaskTypes, TypesSplit, TypesSplitNext, EventTypes
       DEF Assign, Unassign, RequestTypes, ClusterTypes
<1>3. CASE Edit(r, a)
  <2>1. row[a].edit + 1 \in 0..MaxEdits
    <3>1. row[a].edit \in 0..MaxEdits /\ row[a].edit < MaxEdits
      BY <1>3, RowFields DEF Edit, Row
    <3> QED
      BY <3>1
  <2>2. PICK t \in Task : Begin(r, a, t)
    BY <1>3, <2>1, RowFields, Tasks DEF Edit
  <2> QED
    BY <1>3, <2>2, TaskTypes, TypesSplit, TypesSplitNext, EventTypes DEF Edit, RequestTypes, ClusterTypes
<1>4. CASE Delete(r, a)
  BY <1>4, TypesSplit, TypesSplitNext, EventTypes DEF Delete, RequestTypes, ClusterTypes
<1>5. ASSUME NEW c \in Communities, Reassign(r, a, c) PROVE TypeOK'
  <2>1. PICK t \in Task : Begin(r, a, t)
    BY <1>5, RowFields, Tasks DEF Reassign
  <2> QED
    BY <1>5, <2>1, TaskTypes, TypesSplit, TypesSplitNext DEF Reassign, RequestTypes, ClusterTypes
<1>6. CASE Reunassign(r, a)
  <2>1. PICK t \in Task : Begin(r, a, t)
    BY <1>6, RowFields, Tasks DEF Reunassign
  <2> QED
    BY <1>6, <2>1, TaskTypes, TypesSplit, TypesSplitNext DEF Reunassign, RequestTypes, ClusterTypes
<1> QED
  BY <1>1, <1>2, <1>3, <1>4, <1>5, <1>6 DEF Request, Retry

\* What the operator holds is marked when the resource is written.
LEMMA WrittenTypes ==
  ASSUME TypeOK, NEW a \in Agents, NEW same \in BOOLEAN, Written(a, same)
  PROVE  /\ op' \in [Agents -> Reconciliation]
         /\ op[a] = NotReconciling <=> op'[a] = NotReconciling
         /\ op'[a] # NotReconciling => op'[a].fresh = FALSE
         /\ \A x \in Agents \ {a} : op'[x] = op[x]
<1> DEFINE next == IF op[a] = NotReconciling THEN op[a]
                   ELSE [op[a] EXCEPT !.fresh = FALSE, !.same = op[a].same /\ same]
<1>1. op' = [op EXCEPT ![a] = next]
  BY DEF Written
<1>2. op[a] \in Reconciliation
  BY DEF TypeOK
<1>3. CASE op[a] = NotReconciling
  BY <1>1, <1>3 DEF TypeOK
<1>4. CASE op[a] # NotReconciling
  <2>1. (op[a].same /\ same) \in BOOLEAN
    OBVIOUS
  <2>2. PICK b \in BOOLEAN : b = (op[a].same /\ same)
    BY <2>1
  <2>3. next = [op[a] EXCEPT !.fresh = FALSE, !.same = b]
    BY <1>4, <2>2
  <2>4. next \in Reconciliation /\ next # NotReconciling /\ next.fresh = FALSE
    BY <1>2, <1>4, <2>3 DEF Reconciliation, NotReconciling
  <2> HIDE DEF next
  <2> QED
    BY <1>1, <1>4, <2>4 DEF TypeOK
<1> QED
  BY <1>3, <1>4

LEMMA WakesTypes ==
  ASSUME TypeOK, NEW a \in Agents, Wakes(a)
  PROVE  queue' \in [Agents -> BOOLEAN] /\ queue'[a] /\ \A x \in Agents \ {a} : queue'[x] = queue[x]
BY DEF TypeOK, Wakes

LEMMA CreateTypes ==
  ASSUME TypeOK, NEW a \in Agents, NEW spec \in Content, CreateCRD(a, spec)
  PROVE  ClusterTypes'
BY WakesTypes DEF TypeOK, ClusterTypes, CreateCRD, CRD

LEMMA UpdateTypes ==
  ASSUME TypeOK, NEW a \in Agents, NEW spec \in Content, crd[a] # NoCRD, UpdateCRD(a, spec)
  PROVE  ClusterTypes'
<1>1. CASE UNCHANGED cluster
  BY <1>1, TypesSplit DEF cluster, ClusterTypes
<1>2. CASE crd' = [crd EXCEPT ![a].spec = spec] /\ Wakes(a) /\ Written(a, TRUE) /\ UNCHANGED dep
  <2>1. crd' \in [Agents -> CRD \cup {NoCRD}]
    <3>1. crd[a] \in CRD
      BY DEF TypeOK
    <3>2. [crd[a] EXCEPT !.spec = spec] \in CRD
      BY <3>1 DEF CRD
    <3>3. crd' = [crd EXCEPT ![a] = [crd[a] EXCEPT !.spec = spec]]
      BY <1>2 DEF TypeOK
    <3> QED
      BY <3>2, <3>3 DEF TypeOK
  <2> QED
    BY <1>2, <2>1, WrittenTypes, WakesTypes DEF TypeOK, ClusterTypes
<1> QED
  BY <1>1, <1>2 DEF UpdateCRD

LEMMA DeleteTypes ==
  ASSUME TypeOK, NEW a \in Agents, DeleteCRD(a)
  PROVE  ClusterTypes'
<1>1. CASE UNCHANGED cluster
  BY <1>1, TypesSplit DEF cluster, ClusterTypes
<1>2. CASE /\ crd' = [crd EXCEPT ![a] = NoCRD] /\ Wakes(a) /\ Written(a, FALSE)
           /\ dep' = [dep EXCEPT ![a] = IF @ = NoDep THEN @ ELSE [@ EXCEPT !.owned = FALSE]]
  <2>1. crd' \in [Agents -> CRD \cup {NoCRD}]
    BY <1>2 DEF TypeOK
  <2>2. dep' \in [Agents -> Deployment \cup {NoDep}]
    <3> DEFINE next == IF dep[a] = NoDep THEN dep[a] ELSE [dep[a] EXCEPT !.owned = FALSE]
    <3>1. next \in Deployment \cup {NoDep}
      BY DEF TypeOK, Deployment
    <3>2. dep' = [dep EXCEPT ![a] = next]
      BY <1>2 DEF TypeOK
    <3> HIDE DEF next
    <3> QED
      BY <3>1, <3>2 DEF TypeOK
  <2> QED
    BY <1>2, <2>1, <2>2, WrittenTypes, WakesTypes DEF TypeOK, ClusterTypes
<1> QED
  BY <1>1, <1>2 DEF DeleteCRD

LEMMA UpdateRowTypes ==
  ASSUME TypeOK, NEW a \in Agents, NEW copy \in Row, Update(a, copy)
  PROVE  row' \in [Agents -> Row \cup {NoRow}]
BY DEF TypeOK, Update

\* The steps of a request that leave the cluster alone, and those that do not.
LEMMA TableStepTypes ==
  ASSUME TypeOK, NEW r \in Requests, NEW a \in Agents,
         \/ DeploySaves(r, a) \/ StopSaves(r, a) \/ StatusReadsCRD(r, a) \/ StatusSaves(r, a)
         \/ AssignCommits(r, a) \/ ReassignChecks(r, a) \/ UnassignCommits(r, a) \/ ReunassignChecks(r, a)
         \/ EditSaves(r, a) \/ SubmitGets(r, a) \/ TaskFails(r, a)
  PROVE  TypeOK'
<1> USE DEF Steps, Status, cluster, tables, history, requests
<1>1. CASE DeploySaves(r, a)
  <2>1. task[r][a].copy \in Row
    BY <1>1, AtTask, TaskFields DEF DeploySaves
  <2>2. PICK t \in Task : Become(r, a, t)
    BY <1>1, <2>1, Tasks DEF DeploySaves, Goes
  <2> QED
    BY <1>1, <2>1, <2>2, UpdateRowTypes, TaskTypes, TypesSplit, TypesSplitNext
       DEF DeploySaves, RequestTypes, ClusterTypes
<1>2. CASE StopSaves(r, a) \/ StatusSaves(r, a) \/ EditSaves(r, a)
  <2>1. PICK place \in SaveSteps : Saves(r, a, place)
    BY <1>2 DEF StopSaves, StatusSaves, EditSaves, SaveSteps
  <2>2. task[r][a].copy \in Row
    BY <2>1, AtTask, TaskFields DEF Saves, SaveSteps
  <2> QED
    BY <2>1, <2>2, UpdateRowTypes, Tasks, TaskTypes, TypesSplit, TypesSplitNext
       DEF Saves, Ends, RequestTypes, ClusterTypes
<1>3. CASE StatusReadsCRD(r, a)
  <2>1. task[r][a].copy \in Row
    BY <1>3, AtTask, TaskFields DEF StatusReadsCRD
  <2>2. Reported(task[r][a].copy, a) \in Status
    BY <2>1, CopyFields DEF Reported
  <2>3. [task[r][a].copy EXCEPT !.status = Reported(task[r][a].copy, a)] \in Row
    BY <2>1, <2>2, CopyFields
  <2>4. PICK t \in Task : Become(r, a, t)
    BY <1>3, <2>3, Tasks DEF StatusReadsCRD, Ends
  <2> QED
    BY <1>3, <2>4, TaskTypes, TypesSplit, TypesSplitNext DEF StatusReadsCRD, RequestTypes, ClusterTypes
<1>4. CASE AssignCommits(r, a)
  <2>1. task[r][a].copy \in Row /\ task[r][a].target \in Communities
    BY <1>4, AtTask, TaskFields DEF AssignCommits
  <2>2. PICK t \in Task : Become(r, a, t)
    BY <1>4, <2>1, CopyFields, Tasks DEF AssignCommits, Ends
  <2>3. row' \in [Agents -> Row \cup {NoRow}]
    <3>1. CASE row' = row
      BY <3>1 DEF TypeOK
    <3>2. CASE row' # row
      <4> DEFINE next == [row[a] EXCEPT !.community = task[r][a].target, !.status = "pending"]
      <4>1. row[a] # NoRow /\ row' = [row EXCEPT ![a] = next]
        BY <1>4, <3>2 DEF AssignCommits, TypeOK
      <4>2. next \in Row
        BY <2>1, <4>1, RowFields, CopyFields
      <4> HIDE DEF next
      <4> QED
        BY <4>1, <4>2 DEF TypeOK
    <3> QED
      BY <3>1, <3>2
  <2> QED
    BY <1>4, <2>2, <2>3, TaskTypes, TypesSplit, TypesSplitNext DEF AssignCommits, RequestTypes, ClusterTypes
<1>5. CASE ReassignChecks(r, a)
  <2>1. task[r][a].copy \in Row
    BY <1>5, AtTask, TaskFields DEF ReassignChecks
  <2>2. PICK t \in Task : Become(r, a, t)
    BY <1>5, <2>1, CopyFields, Tasks DEF ReassignChecks, Ends
  <2> QED
    BY <1>5, <2>2, TaskTypes, TypesSplit, TypesSplitNext DEF ReassignChecks, RequestTypes, ClusterTypes
<1>6. CASE UnassignCommits(r, a)
  <2>1. task[r][a].copy \in Row
    BY <1>6, AtTask, TaskFields DEF UnassignCommits
  <2>2. PICK t \in Task : Become(r, a, t)
    BY <1>6, <2>1, Tasks DEF UnassignCommits, Goes, Ends
  <2>3. row' \in [Agents -> Row \cup {NoRow}]
    <3>1. CASE row' = row
      BY <3>1 DEF TypeOK
    <3>2. CASE row' # row
      <4> DEFINE next == [row[a] EXCEPT !.community = None, !.status = "defined"]
      <4>1. row[a] # NoRow /\ row' = [row EXCEPT ![a] = next]
        BY <1>6, <3>2 DEF UnassignCommits, TypeOK
      <4>2. row[a] \in Row
        BY <4>1, RowFields
      <4>3. next \in Row
        BY <4>2 DEF Row
      <4> HIDE DEF next
      <4> QED
        BY <4>1, <4>3 DEF TypeOK
    <3> QED
      BY <3>1, <3>2
  <2> QED
    BY <1>6, <2>2, <2>3, TaskTypes, TypesSplit, TypesSplitNext DEF UnassignCommits, RequestTypes, ClusterTypes
<1>7. CASE ReunassignChecks(r, a) \/ SubmitGets(r, a)
  <2>1. task[r][a].copy \in Row
    BY <1>7, AtTask, TaskFields DEF ReunassignChecks, SubmitGets
  <2>2. PICK t \in Task : Become(r, a, t)
    BY <1>7, <2>1, Tasks DEF ReunassignChecks, SubmitGets, Goes, Ends
  <2> QED
    BY <1>7, <2>2, TaskTypes, TypesSplit, TypesSplitNext
       DEF ReunassignChecks, SubmitGets, RequestTypes, ClusterTypes
<1>8. CASE TaskFails(r, a)
  BY <1>8, Tasks, TaskTypes, TypesSplit, TypesSplitNext, EventTypes DEF TaskFails, Ends, RequestTypes, ClusterTypes
<1> QED
  BY <1>1, <1>2, <1>3, <1>4, <1>5, <1>6, <1>7, <1>8

LEMMA ClusterStepTypes ==
  ASSUME TypeOK, NEW r \in Requests, NEW a \in Agents,
         \/ UndeployTearsDown(r, a) \/ SubmitCreates(r, a) \/ SubmitUpdates(r, a) \/ TeardownAgentCRD(r, a)
  PROVE  TypeOK'
<1> USE DEF Steps, tables
<1>0. UNCHANGED cluster => ClusterTypes'
  BY TypesSplit DEF cluster, ClusterTypes
<1>1. task[r][a].copy \in Row
  BY AtTask, TaskFields DEF UndeployTearsDown, SubmitCreates, SubmitUpdates, TeardownAgentCRD
<1>2. SpecOf(task[r][a].copy) \in Content
  BY <1>1, CopyFields
<1>3. ClusterTypes'
  <2>1. CASE UndeployTearsDown(r, a) \/ TeardownAgentCRD(r, a)
    BY <2>1, DeleteTypes DEF UndeployTearsDown, TeardownAgentCRD
  <2>2. CASE SubmitCreates(r, a)
    BY <1>0, <1>2, <2>2, CreateTypes DEF SubmitCreates
  <2>3. CASE SubmitUpdates(r, a)
    BY <1>0, <1>2, <2>3, UpdateTypes DEF SubmitUpdates
  <2> QED
    BY <2>1, <2>2, <2>3
<1>4. PICK t \in Task : Become(r, a, t)
  BY <1>1, Tasks DEF UndeployTearsDown, SubmitCreates, SubmitUpdates, TeardownAgentCRD, Goes, Ends
<1>5. UNCHANGED <<tables, fan, events>>
  BY DEF UndeployTearsDown, SubmitCreates, SubmitUpdates, TeardownAgentCRD
<1>6. RequestTypes'
  BY <1>4, <1>5, TaskTypes, TypesSplit DEF RequestTypes
<1> QED
  BY <1>3, <1>6, TypesSplitNext

LEMMA CommunityTypes ==
  ASSUME TypeOK, NEW r \in Requests, CommunityStep(r) \/ \E c \in Communities : CommunityRequest(r, c)
  PROVE  TypeOK'
<1> USE DEF cluster, tables, history
<1>1. ASSUME NEW a \in Agents, Todo(r, a) PROVE fan' \in [Requests -> Fan]
  <2>1. fan[r] \in [op : {"deploy", "undeploy", "status"}, of : Communities, todo : SUBSET Agents]
    BY <1>1 DEF Todo, TypeOK, Fan
  <2> DEFINE next == [fan[r] EXCEPT !.todo = fan[r].todo \ {a}]
  <2>2. next \in Fan
    BY <2>1 DEF Fan
  <2>3. fan' = [fan EXCEPT ![r] = next]
    BY <1>1 DEF Todo
  <2> HIDE DEF next
  <2> QED
    BY <2>2, <2>3 DEF TypeOK
<1>2. ASSUME NEW a \in Agents, CommunityAgentBegins(r, a) PROVE TypeOK'
  <2>1. task' \in [Requests -> [Agents -> Task]] /\ overlap' \in [Agents -> BOOLEAN]
    BY <1>2, BeginsTypes DEF CommunityAgentBegins
  <2>2. fan' \in [Requests -> Fan]
    BY <1>1, <1>2 DEF CommunityAgentBegins
  <2> QED
    BY <1>2, <2>1, <2>2, TypesSplit, TypesSplitNext DEF CommunityAgentBegins, RequestTypes, ClusterTypes
<1>3. ASSUME NEW a \in Agents, CommunityAgentRefused(r, a) PROVE TypeOK'
  <2>1. fan' \in [Requests -> Fan]
    BY <1>1, <1>3 DEF CommunityAgentRefused
  <2> QED
    BY <1>3, <2>1, TypesSplit, TypesSplitNext DEF CommunityAgentRefused, RequestTypes, ClusterTypes
<1>4. CASE CommunityDone(r)
  <2>1. fan[r].of \in Communities
    BY <1>4 DEF CommunityDone, TypeOK, Fan
  <2>2. community' \in [Communities -> {"created", "active", "inactive"}]
    BY <1>4, <2>1 DEF CommunityDone, TypeOK
  <2>3. fan' \in [Requests -> Fan]
    BY <1>4 DEF CommunityDone, TypeOK, Fan
  <2> QED
    BY <1>4, <2>2, <2>3, TypesSplit, TypesSplitNext DEF CommunityDone, RequestTypes, ClusterTypes
<1>5. ASSUME NEW c \in Communities, CommunityRequest(r, c) PROVE TypeOK'
  <2>1. PICK kind \in {"deploy", "undeploy", "status"}, todo \in SUBSET Agents :
          fan' = [fan EXCEPT ![r] = [op |-> kind, of |-> c, todo |-> todo]]
    BY <1>5 DEF CommunityRequest
  <2>2. fan' \in [Requests -> Fan]
    BY <2>1 DEF TypeOK, Fan
  <2> QED
    BY <1>5, <2>2, TypesSplit, TypesSplitNext, EventTypes DEF CommunityRequest, RequestTypes, ClusterTypes
<1> QED
  BY <1>2, <1>3, <1>4, <1>5 DEF CommunityStep

LEMMA OpFields ==
  ASSUME TypeOK, NEW a \in Agents
  PROVE  /\ op[a] = NotReconciling \/ op[a].pc \in {"apply", "report"}
         /\ op[a].pc = "apply" => op[a] \in [pc : {"apply"}, spec : Content, fresh : BOOLEAN, same : BOOLEAN]
         /\ op[a].pc = "report" => op[a] \in [pc : {"report"}, ready : BOOLEAN, fresh : BOOLEAN, same : BOOLEAN]
         /\ NotReconciling.pc = "idle"
BY DEF TypeOK, Reconciliation, NotReconciling

LEMMA AppliedType ==
  ASSUME TypeOK, NEW a \in Agents, op[a].pc = "apply"
  PROVE  Applied(a) \in Deployment /\ Applied(a).spec = op[a].spec
<1>1. op[a].spec \in Content /\ op[a].same \in BOOLEAN
  BY OpFields
<1>2. CASE dep[a] = NoDep
  BY <1>1, <1>2 DEF Applied, Deployment
<1>3. CASE dep[a] # NoDep
  <2>1. dep[a] \in Deployment
    BY <1>3 DEF TypeOK
  <2> QED
    BY <1>1, <1>3, <2>1 DEF Applied, Deployment
<1> QED
  BY <1>2, <1>3

\* What the operator holds of a resource that nobody has written since is of one that exists.
Held(a) == op[a] # NotReconciling /\ op[a].fresh => crd[a] # NoCRD

LEMMA OperatorTypes ==
  ASSUME TypeOK, NEW a \in Agents, Held(a), Reconcile(a)
  PROVE  TypeOK'
<1> USE DEF tables, requests, history
<1>0. RequestTypes'
  BY TypesSplit DEF Reconcile, ReconcileBegins, ReconcileApplies, ReconcileReports, RequestTypes
<1>1. CASE ReconcileBegins(a)
  <2>1. crd[a] # NoCRD => [pc |-> "apply", spec |-> crd[a].spec, fresh |-> TRUE, same |-> TRUE] \in Reconciliation
    BY DEF TypeOK, CRD, Reconciliation
  <2>2. op' \in [Agents -> Reconciliation]
    BY <1>1, <2>1 DEF ReconcileBegins, TypeOK
  <2> QED
    BY <1>0, <1>1, <2>2, TypesSplit, TypesSplitNext DEF ReconcileBegins, ClusterTypes
<1>2. CASE ReconcileApplies(a)
  <2>1. op[a].fresh \in BOOLEAN /\ op[a].same \in BOOLEAN /\ Applied(a).ready \in BOOLEAN
    BY <1>2, OpFields, AppliedType DEF ReconcileApplies, Deployment
  <2>2. [pc |-> "report", ready |-> Applied(a).ready, fresh |-> op[a].fresh, same |-> op[a].same] \in Reconciliation
    BY <2>1 DEF Reconciliation
  <2>3. op' \in [Agents -> Reconciliation] /\ dep' \in [Agents -> Deployment \cup {NoDep}]
    BY <1>2, <2>2, AppliedType DEF ReconcileApplies, TypeOK
  <2>4. (queue[a] \/ Applied(a) # dep[a]) \in BOOLEAN
    OBVIOUS
  <2>5. queue' \in [Agents -> BOOLEAN]
    BY <1>2, <2>4 DEF ReconcileApplies, TypeOK
  <2> QED
    BY <1>0, <1>2, <2>3, <2>5, TypesSplit, TypesSplitNext DEF ReconcileApplies, ClusterTypes
<1>3. CASE ReconcileReports(a)
  <2> DEFINE phase == IF op[a].ready THEN "Running" ELSE "Pending"
  <2>1. op' \in [Agents -> Reconciliation]
    BY <1>3 DEF ReconcileReports, TypeOK, Reconciliation
  <2>2. crd' \in [Agents -> CRD \cup {NoCRD}]
    <3>1. CASE UNCHANGED crd
      BY <3>1 DEF TypeOK
    <3>2. CASE crd[a] # NoCRD /\ crd' = [crd EXCEPT ![a].phase = phase]
      <4>1. crd[a] \in CRD
        BY <3>2 DEF TypeOK
      <4>2. [crd[a] EXCEPT !.phase = phase] \in CRD
        BY <4>1 DEF CRD
      <4>3. crd' = [crd EXCEPT ![a] = [crd[a] EXCEPT !.phase = phase]]
        BY <3>2 DEF TypeOK
      <4> QED
        BY <4>2, <4>3 DEF TypeOK
    <3> QED
      BY <1>3, <3>1, <3>2, OpFields DEF ReconcileReports, Held
  <2>3. queue' \in [Agents -> BOOLEAN]
    <3>1. (queue[a] \/ phase # crd[a].phase) \in BOOLEAN
      OBVIOUS
    <3> QED
      BY <1>3, <3>1 DEF ReconcileReports, TypeOK
  <2> QED
    BY <1>0, <1>3, <2>1, <2>2, <2>3, TypesSplit, TypesSplitNext DEF ReconcileReports, ClusterTypes
<1> QED
  BY <1>1, <1>2, <1>3 DEF Reconcile

LEMMA EnvironmentTypes ==
  ASSUME TypeOK, (\E a \in Agents : Environment(a)) \/ KeeperCrashes \/ OperatorCrashes
  PROVE  TypeOK'
<1> USE DEF tables, requests, history, cluster
<1>1. ASSUME NEW a \in Agents, Collect(a) \/ PodReady(a) \/ PodFails(a) PROVE TypeOK'
  <2>1. dep' \in [Agents -> Deployment \cup {NoDep}]
    <3>1. dep[a] \in Deployment
      BY <1>1 DEF Collect, PodReady, PodFails, Ready, TypeOK
    <3>2. CASE Collect(a)
      BY <3>2 DEF Collect, TypeOK
    <3>3. ASSUME NEW b \in BOOLEAN, dep' = [dep EXCEPT ![a].ready = b]
          PROVE  dep' \in [Agents -> Deployment \cup {NoDep}]
      <4>1. [dep[a] EXCEPT !.ready = b] \in Deployment
        BY <3>1 DEF Deployment
      <4> QED
        BY <3>3, <4>1 DEF TypeOK
    <3> QED
      BY <1>1, <3>2, <3>3 DEF PodReady, PodFails
  <2> QED
    BY <1>1, <2>1, WakesTypes, TypesSplit, TypesSplitNext, EventTypes
       DEF Collect, PodReady, PodFails, OwnedChanges, RequestTypes, ClusterTypes
<1>2. ASSUME NEW a \in Agents, ReconcileFails(a) PROVE TypeOK'
  <2>1. op' \in [Agents -> Reconciliation] /\ queue' \in [Agents -> BOOLEAN]
    BY <1>2 DEF ReconcileFails, TypeOK, Reconciliation
  <2> QED
    BY <1>2, <2>1, TypesSplit, TypesSplitNext, EventTypes DEF ReconcileFails, RequestTypes, ClusterTypes
<1>3. CASE KeeperCrashes
  <2>1. task' \in [Requests -> [Agents -> Task]] /\ fan' \in [Requests -> Fan]
    BY <1>3, Tasks DEF KeeperCrashes, Fan
  <2> QED
    BY <1>3, <2>1, TypesSplit, TypesSplitNext, EventTypes DEF KeeperCrashes, RequestTypes, ClusterTypes
<1>4. CASE OperatorCrashes
  <2>1. op' \in [Agents -> Reconciliation]
    BY <1>4 DEF OperatorCrashes, Reconciliation
  <2>2. \A a \in Agents : (crd[a] # NoCRD) \in BOOLEAN
    OBVIOUS
  <2>3. queue' \in [Agents -> BOOLEAN]
    BY <1>4, <2>2 DEF OperatorCrashes
  <2> QED
    BY <1>4, <2>1, <2>3, TypesSplit, TypesSplitNext, EventTypes DEF OperatorCrashes, RequestTypes, ClusterTypes
<1> QED
  BY <1>1, <1>2, <1>3, <1>4 DEF Environment

-----------------------------------------------------------------------------
(* The wakeups of the operator.                                            *)

\* Nothing to do, or what is held is what the resource and the Deployment are now.
Awake(a) ==
  ~queue[a] =>
    /\ op[a] = NotReconciling => InSync(a)
    /\ op[a].pc = "apply" => op[a].fresh /\ op[a].spec = crd[a].spec
    /\ op[a].pc = "report" => /\ op[a].fresh /\ dep[a] # NoDep /\ dep[a].spec = crd[a].spec
                              /\ op[a].ready = dep[a].ready

WakeInv == \A a \in Agents : Held(a) /\ Awake(a)

LEMMA ClusterKept ==
  ASSUME WakeInv, UNCHANGED cluster
  PROVE  WakeInv'
BY DEF WakeInv, Held, Awake, InSync, cluster

\* A write of one agent's resource or Deployment queues its name.
LEMMA OneWakes ==
  ASSUME TypeOK, WakeInv, NEW a \in Agents, queue'[a], Held(a)',
         \A x \in Agents \ {a} : /\ crd'[x] = crd[x] /\ dep'[x] = dep[x]
                                 /\ queue'[x] = queue[x] /\ op'[x] = op[x]
  PROVE  WakeInv'
BY DEF WakeInv, Held, Awake, InSync

LEMMA WritesWake ==
  ASSUME TypeOK, WakeInv, NEW a \in Agents, NEW spec \in Content,
         \/ crd[a] = NoCRD /\ CreateCRD(a, spec)
         \/ crd[a] # NoCRD /\ UpdateCRD(a, spec)
         \/ DeleteCRD(a)
  PROVE  WakeInv'
<1>1. CASE UNCHANGED cluster
  BY <1>1, ClusterKept
<1>2. CASE CreateCRD(a, spec)
  <2>1. crd'[a] # NoCRD
    BY <1>2 DEF CreateCRD, NoCRD, TypeOK
  <2>2. Held(a)'
    BY <2>1 DEF Held
  <2>3. \A x \in Agents \ {a} : crd'[x] = crd[x]
    BY <1>2 DEF CreateCRD, TypeOK
  <2> QED
    BY <1>2, <2>2, <2>3, WakesTypes, OneWakes DEF CreateCRD
<1>3. CASE /\ crd[a] # NoCRD /\ crd' = [crd EXCEPT ![a].spec = spec]
           /\ Wakes(a) /\ Written(a, TRUE) /\ UNCHANGED dep
  <2>1. crd'[a] # NoCRD
    BY <1>3 DEF NoCRD, TypeOK, CRD
  <2>2. Held(a)'
    BY <2>1 DEF Held
  <2>3. \A x \in Agents \ {a} : crd'[x] = crd[x]
    BY <1>3 DEF TypeOK
  <2>4. queue'[a] /\ \A x \in Agents \ {a} : queue'[x] = queue[x]
    BY <1>3, WakesTypes
  <2>5. \A x \in Agents \ {a} : op'[x] = op[x]
    BY <1>3, WrittenTypes
  <2> QED
    BY <1>3, <2>2, <2>3, <2>4, <2>5, OneWakes
<1>4. CASE /\ crd' = [crd EXCEPT ![a] = NoCRD] /\ Wakes(a) /\ Written(a, FALSE)
           /\ dep' = [dep EXCEPT ![a] = IF @ = NoDep THEN @ ELSE [@ EXCEPT !.owned = FALSE]]
  <2>1. op'[a] # NotReconciling => op'[a].fresh = FALSE
    BY <1>4, WrittenTypes
  <2>2. Held(a)'
    BY <2>1 DEF Held
  <2>3. \A x \in Agents \ {a} : crd'[x] = crd[x] /\ dep'[x] = dep[x]
    BY <1>4 DEF TypeOK
  <2>4. queue'[a] /\ \A x \in Agents \ {a} : queue'[x] = queue[x]
    BY <1>4, WakesTypes
  <2>5. \A x \in Agents \ {a} : op'[x] = op[x]
    BY <1>4, WrittenTypes
  <2> QED
    BY <2>2, <2>3, <2>4, <2>5, OneWakes
<1> QED
  BY <1>1, <1>2, <1>3, <1>4 DEF UpdateCRD, DeleteCRD

LEMMA OperatorWakes ==
  ASSUME TypeOK, WakeInv, NEW a \in Agents, Reconcile(a)
  PROVE  WakeInv'
<1>0. \A x \in Agents \ {a} : /\ crd'[x] = crd[x] /\ dep'[x] = dep[x]
                              /\ queue'[x] = queue[x] /\ op'[x] = op[x]
  BY DEF Reconcile, ReconcileBegins, ReconcileApplies, ReconcileReports, TypeOK
<1>a. ASSUME Held(a)', Awake(a)' PROVE WakeInv'
  BY <1>0, <1>a DEF WakeInv, Held, Awake, InSync
<1>1. CASE ReconcileBegins(a)
  <2>1. CASE crd[a] = NoCRD
    BY <1>1, <1>a, <2>1, OpFields DEF ReconcileBegins, Held, Awake, InSync
  <2>2. CASE crd[a] # NoCRD
    <3>1. op'[a] = [pc |-> "apply", spec |-> crd[a].spec, fresh |-> TRUE, same |-> TRUE]
      BY <1>1, <2>2 DEF ReconcileBegins, TypeOK
    <3> QED
      BY <1>1, <1>a, <2>2, <3>1 DEF ReconcileBegins, Held, Awake, NotReconciling
  <2> QED
    BY <2>1, <2>2
<1>2. CASE ReconcileApplies(a)
  <2>1. /\ op'[a] = [pc |-> "report", ready |-> Applied(a).ready, fresh |-> op[a].fresh, same |-> op[a].same]
        /\ dep'[a] = Applied(a) /\ crd'[a] = crd[a]
        /\ queue'[a] = (queue[a] \/ Applied(a) # dep[a])
    BY <1>2 DEF ReconcileApplies, TypeOK
  <2>2. dep'[a] # NoDep /\ dep'[a].spec = op[a].spec
    BY <1>2, <2>1, AppliedType DEF ReconcileApplies, Deployment, NoDep
  <2>3. op[a] # NotReconciling
    BY <1>2 DEF ReconcileApplies, NotReconciling
  <2>4. Held(a)'
    BY <2>1, <2>3 DEF Held, WakeInv
  <2>5. Awake(a)'
    <3>1. op'[a].pc = "report" /\ op'[a].ready = dep'[a].ready /\ op'[a].fresh = op[a].fresh
          /\ op'[a] # NotReconciling
      BY <2>1 DEF NotReconciling
    <3>2. ~queue'[a] => op[a].fresh /\ op[a].spec = crd[a].spec
      BY <1>2, <2>1 DEF Awake, WakeInv, ReconcileApplies
    <3> QED
      BY <2>1, <2>2, <3>1, <3>2 DEF Awake
  <2> QED
    BY <1>a, <2>4, <2>5
<1>3. CASE ReconcileReports(a)
  <2> DEFINE phase == IF op[a].ready THEN "Running" ELSE "Pending"
  <2>1. op'[a] = NotReconciling /\ dep'[a] = dep[a]
    BY <1>3 DEF ReconcileReports, TypeOK
  <2>2. Held(a)'
    BY <2>1 DEF Held
  <2>3. ASSUME ~queue'[a] PROVE InSync(a)'
    <3>1. op[a].fresh /\ ~queue[a] /\ phase = crd[a].phase /\ crd' = [crd EXCEPT ![a].phase = phase]
      BY <1>3, <2>3 DEF ReconcileReports, TypeOK
    <3>2. crd[a] # NoCRD
      BY <1>3, <3>1, OpFields DEF WakeInv, Held, ReconcileReports
    <3>3. crd[a] \in CRD
      BY <3>2 DEF TypeOK
    <3>4. crd'[a] = crd[a]
      <4>1. crd'[a] = [crd[a] EXCEPT !.phase = crd[a].phase]
        BY <3>1 DEF TypeOK
      <4> QED
        BY <3>3, <4>1 DEF CRD
    <3>5. dep[a] # NoDep /\ dep[a].spec = crd[a].spec /\ op[a].ready = dep[a].ready
      BY <1>3, <3>1 DEF WakeInv, Awake, ReconcileReports
    <3> QED
      BY <2>1, <3>1, <3>4, <3>5 DEF InSync
  <2>4. Awake(a)'
    BY <2>1, <2>3, OpFields DEF Awake
  <2> QED
    BY <1>a, <2>2, <2>4
<1> QED
  BY <1>1, <1>2, <1>3 DEF Reconcile

LEMMA WakeInvNext == TypeOK /\ WakeInv /\ [Next]_vars => WakeInv'
<1> SUFFICES ASSUME TypeOK, WakeInv, [Next]_vars PROVE WakeInv'
  OBVIOUS
<1>1. CASE UNCHANGED cluster
  BY <1>1, ClusterKept
<1>2. ASSUME NEW r \in Requests, NEW a \in Agents, Request(r, a) \/ Retry(r, a) PROVE WakeInv'
  BY <1>1, <1>2 DEF Request, Retry, DeployAgent, UndeployAgent, GetAgentStatus, Assign, Unassign, Edit, Delete,
                    Reassign, Reunassign
<1>3. ASSUME NEW r \in Requests, NEW a \in Agents, TaskStep(r, a) PROVE WakeInv'
  <2>1. CASE UndeployTearsDown(r, a) \/ SubmitCreates(r, a) \/ SubmitUpdates(r, a) \/ TeardownAgentCRD(r, a)
    <3>1. SpecOf(task[r][a].copy) \in Content
      <4>1. \E place \in {"undeploy", "submitCreate", "submitUpdate", "teardown"} : At(r, a, place)
        BY <2>1 DEF UndeployTearsDown, SubmitCreates, SubmitUpdates, TeardownAgentCRD
      <4> QED
        <5>1. task[r][a] # Idle
          BY <4>1, AtTask
        <5> QED
          BY <5>1, TaskFields, CopyFields
    <3> QED
      BY <1>1, <2>1, <3>1, WritesWake DEF UndeployTearsDown, SubmitCreates, SubmitUpdates, TeardownAgentCRD
  <2>2. CASE ~(UndeployTearsDown(r, a) \/ SubmitCreates(r, a) \/ SubmitUpdates(r, a) \/ TeardownAgentCRD(r, a))
    BY <1>1, <1>3, <2>2 DEF TaskStep, DeploySaves, StopSaves, StatusReadsCRD, StatusSaves, AssignCommits,
         ReassignChecks, UnassignCommits, ReunassignChecks, EditSaves, SubmitGets, TaskFails, Saves, cluster
  <2> QED
    BY <2>1, <2>2
<1>4. ASSUME NEW r \in Requests, CommunityStep(r) \/ \E c \in Communities : CommunityRequest(r, c) PROVE WakeInv'
  BY <1>1, <1>4 DEF CommunityStep, CommunityRequest, CommunityAgentBegins, CommunityAgentRefused, CommunityDone
<1>5. ASSUME NEW a \in Agents, Reconcile(a) PROVE WakeInv'
  BY <1>5, OperatorWakes
<1>6. ASSUME NEW a \in Agents, Environment(a) PROVE WakeInv'
  <2>1. CASE Collect(a) \/ PodReady(a) \/ PodFails(a)
    <3>1. Held(a)'
      BY <2>1 DEF Collect, PodReady, PodFails, Held, WakeInv
    <3>2. \A x \in Agents \ {a} : dep'[x] = dep[x]
      BY <2>1 DEF Collect, PodReady, PodFails, TypeOK
    <3> QED
      BY <2>1, <3>1, <3>2, WakesTypes, OneWakes DEF Collect, PodReady, PodFails, OwnedChanges
  <2>2. CASE ReconcileFails(a)
    <3>1. queue'[a] /\ op'[a] = NotReconciling /\ \A x \in Agents \ {a} : queue'[x] = queue[x] /\ op'[x] = op[x]
      BY <2>2 DEF ReconcileFails, TypeOK
    <3> QED
      BY <2>2, <3>1, OneWakes DEF ReconcileFails, Held
  <2> QED
    BY <1>6, <2>1, <2>2 DEF Environment
<1>7. CASE KeeperCrashes
  BY <1>1, <1>7 DEF KeeperCrashes
<1>8. CASE OperatorCrashes
  BY <1>8, OpFields DEF OperatorCrashes, WakeInv, Held, Awake, InSync, NotReconciling
<1>9. CASE UNCHANGED vars
  BY <1>1, <1>9 DEF vars, cluster
<1> QED
  BY <1>2, <1>3, <1>4, <1>5, <1>6, <1>7, <1>8, <1>9 DEF Next

LEMMA TypesNext == TypeOK /\ WakeInv /\ [Next]_vars => TypeOK'
<1> SUFFICES ASSUME TypeOK, WakeInv, [Next]_vars PROVE TypeOK'
  OBVIOUS
<1>1. CASE UNCHANGED vars
  BY <1>1 DEF vars, tables, requests, cluster, history, TypeOK
<1>2. CASE Next
  BY <1>2, RequestStepTypes, TableStepTypes, ClusterStepTypes, CommunityTypes, OperatorTypes, EnvironmentTypes
     DEF Next, TaskStep, WakeInv
<1> QED
  BY <1>1, <1>2

LEMMA TypesInit == Init => TypeOK /\ WakeInv
<1> SUFFICES ASSUME Init PROVE TypeOK /\ WakeInv
  OBVIOUS
<1>1. PICK deployed \in [Agents -> Communities \cup {None}] :
        /\ row = [a \in Agents |->
                   [status |-> IF deployed[a] = None THEN "defined" ELSE "running",
                    community |-> deployed[a], edit |-> 0]]
        /\ crd = [a \in Agents |->
                   IF deployed[a] = None THEN NoCRD
                   ELSE [phase |-> "Running", spec |-> SpecOf(row[a])]]
        /\ dep = [a \in Agents |->
                   IF deployed[a] = None THEN NoDep
                   ELSE [ready |-> TRUE, spec |-> SpecOf(row[a]), owned |-> TRUE]]
  BY DEF Init
<1>2. /\ task = [r \in Requests |-> [a \in Agents |-> Idle]]
      /\ fan = [r \in Requests |-> NoFan] /\ community = [c \in Communities |-> "active"]
      /\ queue = [a \in Agents |-> FALSE] /\ op = [a \in Agents |-> NotReconciling]
      /\ events = 0 /\ overlap = [a \in Agents |-> FALSE]
  BY DEF Init
<1>3. \A a \in Agents : row[a] \in Row /\ SpecOf(row[a]) \in Content
  BY <1>1 DEF Row, Status, SpecOf, Content
<1>4. RequestTypes
  BY <1>1, <1>2, <1>3, Tasks DEF RequestTypes, Fan
<1>5. ClusterTypes
  BY <1>1, <1>2, <1>3 DEF ClusterTypes, CRD, Deployment, Reconciliation
<1>6. WakeInv
  BY <1>1, <1>2 DEF WakeInv, Held, Awake, InSync, NotReconciling, NoDep, NoCRD
<1> QED
  BY <1>4, <1>5, <1>6, TypesSplit

\* The variables stay in their types, for any agents, communities, requests and failures.
THEOREM TypeCorrect == Spec => []TypeOK
BY TypesInit, TypesNext, WakeInvNext, PTL DEF Spec

\* No wakeup of the operator is missed, however its reads and writes interleave with those of
\* the keeper, the garbage collector and the pods.
THEOREM WakeupsAreKept == Spec => []NoMissedWakeup
<1>1. WakeInv => NoMissedWakeup
  BY DEF WakeInv, Awake, NoMissedWakeup
<1> QED
  BY <1>1, TypesInit, TypesNext, WakeInvNext, PTL DEF Spec

-----------------------------------------------------------------------------
(* Updates are lost only by requests that overlap.                         *)

\* As long as no two requests about the agent have overlapped, the one at work has a copy of
\* what the row is, but for what it changes itself.
Reads(copy, r) == copy.edit >= r.edit /\ copy.community = r.community

Solo(a) ==
  row[a] # NoRow /\ ~overlap[a] =>
    /\ \A r, q \in Requests : task[r][a] # Idle /\ task[q][a] # Idle => r = q
    /\ \A r \in Requests : task[r][a] # Idle /\ task[r][a].pc # "teardown" => Reads(task[r][a].copy, row[a])

SoloInv == \A a \in Agents : Solo(a)

LEMMA TaskChange ==
  ASSUME TypeOK, NEW r \in Requests, NEW a \in Agents, NEW t, Begin(r, a, t) \/ Become(r, a, t)
  PROVE  /\ task'[r][a] = t
         /\ \A q \in Requests, x \in Agents : q # r \/ x # a => task'[q][x] = task[q][x]
<1>1. task' = [task EXCEPT ![r] = [task[r] EXCEPT ![a] = t]]
  BY DEF TypeOK, Begin, Become
<1>2. task[r] \in [Agents -> Task]
  BY DEF TypeOK
<1> QED
  BY <1>1, <1>2 DEF TypeOK

LEMMA SoloBegin ==
  ASSUME TypeOK, SoloInv, NEW r \in Requests, NEW a \in Agents, NEW t, Begin(r, a, t), row' = row,
         row[a] # NoRow => Reads(t.copy, row[a])
  PROVE  SoloInv'
<1>1. /\ task'[r][a] = t
      /\ \A q \in Requests, x \in Agents : q # r \/ x # a => task'[q][x] = task[q][x]
  BY TaskChange
<1>2. ~overlap'[a] => \A q \in Requests : task[q][a] = Idle
  BY DEF Begin, Busy, TypeOK
<1>3. Solo(a)'
  BY <1>1, <1>2 DEF Solo
<1>4. \A x \in Agents \ {a} : Solo(x)'
  <2>1. \A x \in Agents \ {a} : overlap'[x] = overlap[x] /\ \A q \in Requests : task'[q][x] = task[q][x]
    BY <1>1 DEF Begin, TypeOK
  <2> QED
    BY <2>1 DEF SoloInv, Solo
<1> QED
  BY <1>3, <1>4 DEF SoloInv

LEMMA SoloBecome ==
  ASSUME TypeOK, SoloInv, NEW r \in Requests, NEW a \in Agents, NEW t, Become(r, a, t), task[r][a] # Idle,
         \A x \in Agents \ {a} : row'[x] = row[x],
         row'[a] # NoRow => row[a] # NoRow,
         row'[a] # NoRow /\ ~overlap[a] => t = Idle \/ t.pc = "teardown" \/ Reads(t.copy, row'[a])
  PROVE  SoloInv'
<1>1. /\ task'[r][a] = t /\ overlap' = overlap
      /\ \A q \in Requests, x \in Agents : q # r \/ x # a => task'[q][x] = task[q][x]
  <2>1. overlap' = overlap
    BY DEF Become
  <2> QED
    BY <2>1, TaskChange
<1>2. row[a] # NoRow /\ ~overlap[a] => \A q \in Requests \ {r} : task[q][a] = Idle
  BY DEF SoloInv, Solo
<1>3. Solo(a)'
  BY <1>1, <1>2 DEF Solo
<1>4. \A x \in Agents \ {a} : Solo(x)'
  BY <1>1 DEF SoloInv, Solo
<1> QED
  BY <1>3, <1>4 DEF SoloInv

LEMMA ReadsSelf ==
  ASSUME NEW copy \in Row
  PROVE  /\ Reads(copy, copy) /\ \A s \in Status : Reads([copy EXCEPT !.status = s], copy)
         /\ copy.edit \in Nat
BY DEF Reads, Row

LEMMA ReadsStatus ==
  ASSUME NEW copy \in Row, NEW r, Reads(copy, r), NEW s \in Status
  PROVE  Reads([copy EXCEPT !.status = s], r)
BY DEF Reads, Row

LEMMA SoloBegins ==
  ASSUME TypeOK, SoloInv, NEW r \in Requests, NEW a \in Agents, row' = row,
         DeployBegins(r, a) \/ UndeployBegins(r, a) \/ StatusBegins(r, a)
  PROVE  SoloInv'
<1> USE DEF Status
<1>1. row[a] \in Row
  BY RowFields DEF DeployBegins, DeployGuard, UndeployBegins, UndeployGuard, StatusBegins
<1>2. PICK t : Begin(r, a, t) /\ Reads(t.copy, row[a])
  <2>1. ASSUME NEW place, NEW s \in Status PROVE Reads([pc |-> place, copy |-> [row[a] EXCEPT !.status = s]].copy, row[a])
    BY <1>1, ReadsSelf
  <2>2. ASSUME NEW place PROVE Reads([pc |-> place, copy |-> row[a]].copy, row[a])
    BY <1>1, ReadsSelf
  <2>3. CASE DeployBegins(r, a)
    BY <2>1, <2>3 DEF DeployBegins
  <2>4. CASE UndeployBegins(r, a)
    BY <2>1, <2>4 DEF UndeployBegins
  <2>5. CASE StatusBegins(r, a)
    BY <2>2, <2>5 DEF StatusBegins
  <2> QED
    BY <2>3, <2>4, <2>5
<1> QED
  BY <1>2, SoloBegin

LEMMA SoloRequest ==
  ASSUME TypeOK, SoloInv, NEW r \in Requests, NEW a \in Agents, Request(r, a) \/ Retry(r, a)
  PROVE  SoloInv'
<1> USE DEF tables, requests
<1>1. CASE DeployAgent(r, a) \/ UndeployAgent(r, a) \/ GetAgentStatus(r, a)
  BY <1>1, SoloBegins DEF DeployAgent, UndeployAgent, GetAgentStatus
<1>2. CASE \E c \in Communities : Assign(r, a, c) \/ Unassign(r, a, c) \/ Reassign(r, a, c)
  <2>1. PICK t : Begin(r, a, t) /\ t.copy = row[a]
    BY <1>2 DEF Assign, Unassign, Reassign
  <2>2. row' = row /\ row[a] \in Row
    BY <1>2, RowFields DEF Assign, Unassign, Reassign
  <2> QED
    BY <2>1, <2>2, ReadsSelf, SoloBegin
<1>3. CASE Reunassign(r, a)
  <2>1. PICK t : Begin(r, a, t) /\ t.copy = row[a]
    BY <1>3 DEF Reunassign
  <2>2. row' = row /\ row[a] \in Row
    BY <1>3, RowFields DEF Reunassign
  <2> QED
    BY <2>1, <2>2, ReadsSelf, SoloBegin
<1>4. CASE Edit(r, a)
  <2>1. row' = row /\ row[a] \in Row /\ row[a].edit \in Nat
    BY <1>4, RowFields, ReadsSelf DEF Edit
  <2>2. Reads([row[a] EXCEPT !.edit = row[a].edit + 1], row[a])
    BY <2>1 DEF Reads, Row
  <2>3. PICK t : Begin(r, a, t) /\ t.copy = [row[a] EXCEPT !.edit = row[a].edit + 1]
    BY <1>4 DEF Edit
  <2> QED
    BY <2>1, <2>2, <2>3, SoloBegin
<1>5. CASE Delete(r, a)
  BY <1>5 DEF Delete, SoloInv, Solo, TypeOK
<1> QED
  BY <1>1, <1>2, <1>3, <1>4, <1>5 DEF Request, Retry

\* What the task at work has read, while no other overlaps it.
LEMMA SoloReads ==
  ASSUME TypeOK, SoloInv, NEW r \in Requests, NEW a \in Agents, task[r][a] # Idle, task[r][a].pc # "teardown",
         row[a] # NoRow, ~overlap[a]
  PROVE  Reads(task[r][a].copy, row[a])
BY DEF SoloInv, Solo

LEMMA SoloTask ==
  ASSUME TypeOK, SoloInv, NEW r \in Requests, NEW a \in Agents, TaskStep(r, a)
  PROVE  SoloInv'
<1> USE DEF tables, Status
<1>a. task[r][a] # Idle /\ task[r][a].copy \in Row
  BY AtTask, TaskFields DEF TaskStep, DeploySaves, UndeployTearsDown, StopSaves, StatusReadsCRD, StatusSaves,
     AssignCommits, ReassignChecks, UnassignCommits, ReunassignChecks, EditSaves, SubmitGets, SubmitCreates,
     SubmitUpdates, TeardownAgentCRD, TaskFails, Saves
<1>b. ASSUME NEW copy \in Row, Update(a, copy)
      PROVE  row'[a] = copy /\ row[a] # NoRow /\ \A x \in Agents \ {a} : row'[x] = row[x]
  BY <1>b DEF Update, TypeOK
<1>1. CASE DeploySaves(r, a)
  <2>1. PICK t : Become(r, a, t) /\ t.copy = task[r][a].copy
    BY <1>1 DEF DeploySaves, Goes
  <2> QED
    BY <1>1, <1>a, <1>b, <2>1, ReadsSelf, SoloBecome DEF DeploySaves
<1>2. CASE StopSaves(r, a) \/ StatusSaves(r, a) \/ EditSaves(r, a)
  BY <1>2, <1>a, <1>b, SoloBecome DEF StopSaves, StatusSaves, EditSaves, Saves, Ends
<1>3. CASE StatusReadsCRD(r, a) \/ ReassignChecks(r, a)
  <2>1. task[r][a].pc # "teardown" /\ row' = row
    BY <1>3 DEF StatusReadsCRD, ReassignChecks, At
  <2>2. Reported(task[r][a].copy, a) \in Status
    BY <1>a, CopyFields DEF Reported
  <2>3. PICK t : /\ Become(r, a, t)
                 /\ t = Idle \/ \E s \in Status : t.copy = [task[r][a].copy EXCEPT !.status = s]
    <3>1. CASE Ends(r, a)
      BY <3>1 DEF Ends
    <3>2. ASSUME NEW place, NEW s \in Status,
                 Become(r, a, [pc |-> place, copy |-> [task[r][a].copy EXCEPT !.status = s]])
          PROVE  \E t : /\ Become(r, a, t)
                        /\ t = Idle \/ \E x \in Status : t.copy = [task[r][a].copy EXCEPT !.status = x]
      <4> DEFINE t == [pc |-> place, copy |-> [task[r][a].copy EXCEPT !.status = s]]
      <4>1. t.copy = [task[r][a].copy EXCEPT !.status = s]
        OBVIOUS
      <4>2. Become(r, a, t)
        BY <3>2
      <4> HIDE DEF t
      <4> QED
        BY <4>1, <4>2
    <3>3. CASE StatusReadsCRD(r, a)
      BY <2>2, <3>1, <3>2, <3>3 DEF StatusReadsCRD
    <3>4. CASE ReassignChecks(r, a)
      BY <3>1, <3>2, <3>4 DEF ReassignChecks
    <3> QED
      BY <1>3, <3>3, <3>4
  <2>4. row[a] # NoRow /\ ~overlap[a] /\ t # Idle => Reads(t.copy, row[a])
    <3> SUFFICES ASSUME row[a] # NoRow, ~overlap[a], t # Idle PROVE Reads(t.copy, row[a])
      OBVIOUS
    <3>1. Reads(task[r][a].copy, row[a])
      BY <1>a, <2>1, SoloReads
    <3>2. PICK s \in Status : t.copy = [task[r][a].copy EXCEPT !.status = s]
      BY <2>3
    <3>3. Reads([task[r][a].copy EXCEPT !.status = s], row[a])
      BY <1>a, <3>1, ReadsStatus
    <3> QED
      BY <3>2, <3>3
  <2> QED
    BY <1>a, <2>1, <2>3, <2>4, SoloBecome
<1>4. CASE AssignCommits(r, a)
  <2> DEFINE c == task[r][a].target
             next == [row[a] EXCEPT !.community = c, !.status = "pending"]
             copy == [task[r][a].copy EXCEPT !.community = c, !.status = "pending"]
  <2>1. CASE Ends(r, a) /\ UNCHANGED row
    BY <1>a, <2>1, SoloBecome DEF Ends
  <2>2. CASE row[a] # NoRow /\ row' = [row EXCEPT ![a] = next] /\ \E t : Become(r, a, t) /\ t.copy = copy
    <3>1. row[a] \in Row /\ task[r][a].pc = "assignTx"
      BY <1>4, <2>2, RowFields, AtTask DEF AssignCommits
    <3>2. Reads(task[r][a].copy, row[a]) => Reads(copy, next)
      BY <1>a, <3>1 DEF Reads, Row
    <3>3. row'[a] = next /\ \A x \in Agents \ {a} : row'[x] = row[x]
      BY <2>2 DEF TypeOK
    <3> HIDE DEF next, copy
    <3> QED
      BY <1>a, <2>2, <3>1, <3>2, <3>3, SoloReads, SoloBecome
  <2>3. \/ row[a] # NoRow /\ row' = [row EXCEPT ![a] = next] /\ \E t : Become(r, a, t) /\ t.copy = copy
        \/ Ends(r, a) /\ UNCHANGED row
    <3>1. CASE MayAssign(c) /\ row[a] # NoRow /\ row[a].community = None
      <4>1. row' = [row EXCEPT ![a] = next]
        BY <1>4, <3>1 DEF AssignCommits, TypeOK
      <4>2. Become(r, a, [pc |-> "submitGet", copy |-> copy])
        BY <1>4, <3>1 DEF AssignCommits
      <4> QED
        BY <3>1, <4>1, <4>2
    <3>2. CASE ~(MayAssign(c) /\ row[a] # NoRow /\ row[a].community = None)
      BY <1>4, <3>2 DEF AssignCommits
    <3> QED
      BY <3>1, <3>2
  <2> QED
    BY <2>1, <2>2, <2>3
<1>5. CASE UnassignCommits(r, a) \/ ReunassignChecks(r, a)
  <2>1. PICK t : Become(r, a, t) /\ (t = Idle \/ t.pc = "teardown")
    BY <1>5 DEF UnassignCommits, ReunassignChecks, Goes, Ends
  <2>2. (row'[a] # NoRow => row[a] # NoRow) /\ \A x \in Agents \ {a} : row'[x] = row[x]
    BY <1>5 DEF UnassignCommits, ReunassignChecks, TypeOK
  <2> QED
    BY <1>a, <2>1, <2>2, SoloBecome
<1>6. CASE SubmitGets(r, a) \/ UndeployTearsDown(r, a)
  <2>1. task[r][a].pc # "teardown" /\ row' = row
    BY <1>6 DEF SubmitGets, UndeployTearsDown, At
  <2>2. PICK t : Become(r, a, t) /\ t.copy = task[r][a].copy
    BY <1>6 DEF SubmitGets, UndeployTearsDown, Goes
  <2> QED
    BY <1>a, <2>1, <2>2, SoloReads, SoloBecome
<1>7. CASE SubmitCreates(r, a) \/ SubmitUpdates(r, a) \/ TeardownAgentCRD(r, a) \/ TaskFails(r, a)
  BY <1>7, <1>a, SoloBecome DEF SubmitCreates, SubmitUpdates, TeardownAgentCRD, TaskFails, Ends
<1> QED
  BY <1>1, <1>2, <1>3, <1>4, <1>5, <1>6, <1>7 DEF TaskStep

LEMMA SoloInvNext == TypeOK /\ SoloInv /\ [Next]_vars => SoloInv'
<1> USE DEF tables, history, requests
<1> SUFFICES ASSUME TypeOK, SoloInv, [Next]_vars PROVE SoloInv'
  OBVIOUS
<1>1. CASE UNCHANGED <<row, task, overlap>>
  BY <1>1 DEF SoloInv, Solo
<1>2. ASSUME NEW r \in Requests, CommunityStep(r) PROVE SoloInv'
  <2>1. ASSUME NEW a \in Agents, CommunityAgentBegins(r, a) PROVE SoloInv'
    BY <2>1, SoloBegins DEF CommunityAgentBegins
  <2> QED
    BY <1>1, <1>2, <2>1 DEF CommunityStep, CommunityAgentRefused, CommunityDone
<1>3. ASSUME NEW r \in Requests, NEW c \in Communities, CommunityRequest(r, c) PROVE SoloInv'
  BY <1>1, <1>3 DEF CommunityRequest
<1>4. CASE KeeperCrashes
  BY <1>4 DEF KeeperCrashes, SoloInv, Solo
<1>5. CASE (\E a \in Agents : Reconcile(a) \/ Environment(a)) \/ OperatorCrashes
  BY <1>1, <1>5 DEF Reconcile, ReconcileBegins, ReconcileApplies, ReconcileReports, Environment, Collect,
     PodReady, PodFails, ReconcileFails, OperatorCrashes
<1>6. CASE UNCHANGED vars
  BY <1>1, <1>6 DEF vars
<1> QED
  BY <1>2, <1>3, <1>4, <1>5, <1>6, SoloRequest, SoloTask DEF Next

LEMMA SoloInit == Init => SoloInv
BY DEF Init, SoloInv, Solo

\* An edit is undone, or an agent moved to another community at once, only after two requests
\* about the agent have overlapped, for any agents, requests and failures.
THEOREM LossNeedsOverlap == Spec => LostUpdateNeedsOverlap
<1> DEFINE Keeps ==
      \A a \in Agents :
        row[a] # NoRow /\ row'[a] # NoRow =>
          \/ overlap[a]
          \/ /\ row'[a].edit >= row[a].edit
             /\ row[a].community = None \/ row'[a].community \in {None, row[a].community}
<1>1. TypeOK /\ SoloInv /\ [Next]_vars => Keeps
  <2> USE DEF tables
  <2> SUFFICES ASSUME TypeOK, SoloInv, [Next]_vars, NEW a \in Agents, row[a] # NoRow, row'[a] # NoRow,
                      ~overlap[a]
               PROVE  /\ row'[a].edit >= row[a].edit
                      /\ row[a].community = None \/ row'[a].community \in {None, row[a].community}
    OBVIOUS
  <2>1. row[a] \in Row /\ row[a].edit \in Nat
    BY RowFields, ReadsSelf
  <2>2. CASE row'[a] = row[a]
    BY <2>1, <2>2
  <2>3. ASSUME NEW r \in Requests, NEW x \in Agents, TaskStep(r, x), row'[a] # row[a]
        PROVE  /\ row'[a].edit >= row[a].edit
               /\ row[a].community = None \/ row'[a].community \in {None, row[a].community}
    <3>1. CASE /\ At(r, x, "deploySave") \/ At(r, x, "stopSave") \/ At(r, x, "statusSave") \/ At(r, x, "editSave")
               /\ Update(x, task[r][x].copy)
      <4>1. x = a /\ row'[a] = task[r][a].copy
        BY <2>3, <3>1 DEF Update, TypeOK
      <4>2. task[r][a] # Idle /\ task[r][a].pc # "teardown"
        BY <3>1, <4>1, AtTask DEF At
      <4> QED
        BY <4>1, <4>2, SoloReads DEF Reads
    <3>2. CASE AssignCommits(r, x)
      <4>1. x = a /\ row[a].community = None
            /\ row' = [row EXCEPT ![a] = [row[a] EXCEPT !.community = task[r][a].target, !.status = "pending"]]
        <5>1. /\ row[x] # NoRow /\ row[x].community = None
              /\ row' = [row EXCEPT ![x].community = task[r][x].target, ![x].status = "pending"]
          BY <2>3, <3>2 DEF AssignCommits
        <5> QED
          BY <2>3, <5>1 DEF TypeOK
      <4>2. row'[a].edit = row[a].edit
        BY <2>1, <4>1 DEF TypeOK, Row
      <4> QED
        BY <2>1, <4>1, <4>2
    <3>3. CASE UnassignCommits(r, x)
      <4>1. x = a /\ row' = [row EXCEPT ![a] = [row[a] EXCEPT !.community = None, !.status = "defined"]]
        <5>1. /\ row[x] # NoRow
              /\ row' = [row EXCEPT ![x].community = None, ![x].status = "defined"]
          BY <2>3, <3>3 DEF UnassignCommits
        <5> QED
          BY <2>3, <5>1 DEF TypeOK
      <4>2. row'[a].edit = row[a].edit /\ row'[a].community = None
        BY <2>1, <4>1 DEF TypeOK, Row
      <4> QED
        BY <2>1, <4>2
    <3> QED
      BY <2>3, <3>1, <3>2, <3>3 DEF TaskStep, DeploySaves, UndeployTearsDown, StopSaves, StatusReadsCRD,
         StatusSaves, ReassignChecks, ReunassignChecks, EditSaves, SubmitGets, SubmitCreates, SubmitUpdates,
         TeardownAgentCRD, TaskFails, Saves
  <2>4. CASE ~ \E r \in Requests, x \in Agents : TaskStep(r, x)
    <3>1. row'[a] = row[a]
      <4>1. ASSUME NEW r \in Requests, NEW x \in Agents, Request(r, x) \/ Retry(r, x) PROVE row'[a] = row[a]
        <5>1. CASE Delete(r, x)
          BY <5>1 DEF Delete, TypeOK
        <5>2. CASE UNCHANGED row
          BY <5>2
        <5> QED
          BY <4>1, <5>1, <5>2 DEF Request, Retry, DeployAgent, UndeployAgent, GetAgentStatus, Assign, Unassign, Edit,
             Reassign, Reunassign
      <4>2. ASSUME NEW r \in Requests, CommunityStep(r) \/ \E c \in Communities : CommunityRequest(r, c)
            PROVE  row'[a] = row[a]
        BY <4>2 DEF CommunityStep, CommunityAgentBegins, CommunityAgentRefused, CommunityDone, CommunityRequest
      <4>3. ASSUME NEW x \in Agents, Reconcile(x) \/ Environment(x) PROVE row'[a] = row[a]
        BY <4>3 DEF Reconcile, ReconcileBegins, ReconcileApplies, ReconcileReports, Environment, Collect,
           PodReady, PodFails, ReconcileFails
      <4>4. CASE KeeperCrashes \/ OperatorCrashes \/ UNCHANGED vars
        BY <4>4 DEF KeeperCrashes, OperatorCrashes, vars
      <4> QED
        BY <2>4, <4>1, <4>2, <4>3, <4>4 DEF Next
    <3> QED
      BY <2>2, <3>1
  <2> QED
    BY <2>2, <2>3, <2>4
<1> QED
  BY <1>1, TypesInit, TypesNext, WakeInvNext, SoloInit, SoloInvNext, PTL DEF Spec, LostUpdateNeedsOverlap
===============================================================================
