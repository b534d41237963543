# TLA+ specifications of Tacito

Tacito runs communities of LLM agents. A *keeper* manages agents, communities and
threads; *agents* receive user messages over NATS JetStream, keep their conversation
state in Redis and answer; an *operator* turns the keeper's custom resources into
deployments; a *BFF* holds the browser sessions and proxies the keeper. This directory
holds the formal models of that code: TLA+ modules, TLC configurations that check them on
small instances, and proofs checked by TLAPS.

    tlc -workers 2 -config MCHubFlow.cfg MCHubOrchestration      # model-check a run
    tlapm HubOrchestrationProofs.tla                             # check proofs

`PROJECT.json` lists the components, the runs, the source lines behind every definition
(`map`), a mutation of the code for every property (`mutants`), the hazards of the code
with the properties that cover them, and the theorems.

## 1. The system

### Components, their state and operations

| Component | State | Operations |
|---|---|---|
| Hub orchestrator (`internal/agent/application/service/orchestrator.go`) | none of its own: the orchestration state of a thread is in Redis, a copy lives in each running handler | `ProcessUserMessage`, `ProcessSpokeResponse`, `runOrchestrationTurn` |
| Agent event subscriber (`internal/agent/adapters/inbound/nats/event_subscriber.go`) | one pull loop per subject and replica; delivery counts are the server's | `startPullLoop`, `processAndAck` (Ack, Nak, DLQ after five deliveries), `handleEvent` |
| Schema router and message processor (`schema_router_impl.go`, `message_processor.go`) | short-term memory of a thread, in Redis | start and end of a thread, user message, delegation, spoke response; consolidation into long-term memory in the background |
| Redis adapter (`internal/agent/adapters/outbound/redis`) | thread lock, orchestration state, short-term memory | `Lock`, `Unlock`, `SaveState`, `GetState`, `ClearState`, `Append`, `RollbackLast`, `Clear` |
| Circuit breaker (`internal/agent/adapters/outbound/resiliency`) | state, failure count, time of the last change, under a mutex | `Execute` (`beforeExecute`, the operation, `afterExecute`) |
| Heartbeat and card cache (`internal/agent/adapters/outbound/nats/heartbeat.go`, `.../cache/client_cache.go`) | the cards a client knows, with the time it saw them | periodic heartbeat, status and heartbeat messages, refresh, lookup |
| Keeper registry (`registry_subscriber.go`, `registry_handler.go`, `registry_pruner.go`) | registrations and agent status in Postgres, cards in a cache with a TTL | take a heartbeat, serve the cards, prune what is stale every ten seconds |
| Keeper agent and lifecycle services (`agent_service.go`, `lifecycle_service.go`, `crd_coordinator.go`) | agents, assignments, communities in Postgres; custom resources in Kubernetes | assign, unassign, deploy, undeploy, status; goroutines that submit and tear down |
| Keeper event service (`event_service.go`) | none | resolve the subject of an event and publish it |
| Operator (`internal/operator`) | a work queue; Deployments and status in Kubernetes | `Reconcile` |
| Keeper catalogue services (`llm_binding_service.go`, `mcp_client_service.go`, `prompt_service.go`, `prompt_collection_service.go`, `skill_service.go`, `community_service.go`) | one table per kind, template versions; caches of bindings and effective prompts | create, update, delete, get, list, effective prompts |
| BFF configurator (`configurator_handler.go`, `keeper_http_client.go`) | none | the catalogue's operations and `AdvancedSync`, over HTTP |
| BFF sessions (`session_service.go`, `redis_session_store.go`) | sessions, user index, provider-session index, pending logins in Redis | login, callback, refresh, logout, back-channel logout |

The rest (LLM, MCP, Qdrant and S3 clients, event streams to the browser, configuration,
observability, generated Kubernetes types, the UI) is request translation without protocol
state; it is listed in `PROJECT.json` as not modelled, with the reason.

### Interactions

* The keeper publishes a user message to the hub's subject. A hub replica's pull loop
  fetches it, takes the Redis lock of the thread, and runs a turn of the LLM. The turn
  answers, or saves a *waiting* state and publishes one task per chosen spoke.
* A spoke answers its task on its response subject, which all hub replicas consume. Each
  response is matched against the pending map of the saved state; the last one starts the
  next turn on the handler's copy. A response may suggest a *handoff*, which replaces the
  suggesting spoke by another one.
* Agents send heartbeats; the keeper registers them, answers discovery requests from a
  cache and prunes the silent ones; clients keep their own copies of the cards.
* The keeper writes custom resources in background goroutines; the operator reconciles
  them; the keeper reads their status back into its database.

### What is hard

Every message may be delivered again (a lost acknowledgement, an expired AckWait, a Nak)
and several loops and replicas handle messages of a thread at the same time. The thread
lock is a lease without renewal. Each handler saves, publishes and acknowledges in separate
steps, any of which may fail or succeed without its reply; a replica may die between them.
Nothing bounds the time of a spoke. In the keeper, several caches are filled by a read and
a later write, and background work is not ordered. `PROJECT.json` lists these hazards at
their lines.

Every service of the keeper reads a row, calls something else and writes the whole row back,
without a version; part of a request runs in a goroutine after the reply. The BFF refreshes a
session with a token that works once, in several replicas, while the session may be deleted
by two kinds of logout. A sync of the catalogue is a long list of calls, each of which may
fail, and nothing takes back what was done.

### What makes each component correct

* Orchestrator: one handler at a time changes a thread's state; the join waits for
  exactly the delegated spokes; no message is forgotten; one answer per message; delegation
  is bounded; a flow ends.
* Thread lock: leases exclude each other; an expired holder does not free its successor's
  lock; no call waits for ever and no lock stays for ever.
* Circuit breaker: old failures do not trip a closed breaker early; late results do not
  prolong the open period; it closes when operations succeed.
* Registry: an agent that stops is deregistered and disappears from every cache within a
  bound, and is not reported as running after it; an agent that is alive stays; an unassigned agent does not come back.
* Lifecycle: the cluster converges to the assignments in the database; a community keeps
  its topology; a failed deployment can be repeated.
* Sessions: no request is admitted under a session that was logged out; a refresh token is used once;
  a logout by user finds all sessions.
* Catalogue: a cache never answers with what the table no longer holds; a sync that answers
  success leaves exactly what it was given; one that failed can be repeated.
* Spoke memory: questions and answers alternate; a turn that the brain is no longer shown
  has been consolidated.

## 2. Modules

| Module | Models | Composition |
|---|---|---|
| `ThreadLock` | `RedisMemoryAdapter.Lock` and `Unlock` in discrete time | on its own: what a lock may promise |
| `HubOrchestration` | the orchestrator, the pull loops, the Redis state, spokes and keeper as environment | uses the lock as an atomic resource; its expiry is the action `LockExpires`; spokes and users are its environment |
| `ScatterGather` | what the saved state of a thread promises, without loops, lock, messages or failures | implemented by `HubOrchestration`: `Join == INSTANCE ScatterGather WITH ...` |
| `CircuitBreaker` | the breaker shared by goroutines | on its own |
| `Registry` | heartbeats, registrations, pruner, request handler, the caches of the keeper and of the hubs | on its own: what `GetCards` gives the orchestrator, which `HubOrchestration` takes as a constant |
| `SpokeMemory` | the short-term memory of a spoke's thread, its two pull loops, reasoning, consolidation | the other side of `tasks` in `HubOrchestration`, whose answer to a task is its `PublishResponse` |
| `AgentLifecycle` | assignment, deployment, status, edit and deletion of agents; custom resources; the operator; Kubernetes | composes keeper, coordinator, operator and cluster |
| `BffSession` | login, middleware, refresh, logout, back-channel logout over the Redis indexes; the identity provider | composes replicas, store and provider |
| `Catalogue` | the keeper's catalogue services and caches, and the BFF's sync over them | composes configurator, HTTP client, services and tables |
| `MCHubOrchestration`, `MCSpokeMemory`, `MCCatalogue` | constants for TLC | EXTEND the module they name |
| `...Proofs` | theorems | EXTEND the modules they name |

### ThreadLock

`lockToken` and `lockTtl` are the Redis key and the rest of its life; `pc`, `token` and
`clock` are each handler's place, the uuid of its call and the time it has spent polling or
working. `Lock` is the first SET NX, `Poll` a tick of the 100 ms ticker, `TimeOut` the
`lockTimeout` timer, `LockFails` a cancelled context or an error, `Unlock` the Lua script.
`LockReplyLost` (the key is set, the caller does not know) and `UnlockFails` (Redis is
unreachable, or the process died) leave a key without an owner. `Tick` advances all clocks;
remaining and elapsed times keep the state space finite without a bound on acquisitions.

### HubOrchestration

One thread of one hub. `stream` is the JetStream consumer (message, delivery count, whether
it may be delivered), `tasks` the spokes' subjects, `dlq` the dead letters, `lock` and
`store` the two Redis keys. Per loop, `pc`, `msg`, `st`, `todo` and `verdict` are the local
variables of the handler. `answers` and `current` are history variables: the answers
published for a message, and the user message that started the latest flow.

A handler is cut wherever it touches something shared. `ProcessUserMessage` is
`AcquireLock`, `InitFlow` (discovery and the first `SaveState`), a turn, `Unlock`, `Settle`.
`ProcessSpokeResponse` is `AcquireLock`, then `IgnoreResponse`, `AcceptResponse` or
`AcceptHandoff`, then `SaveFanIn`, a turn, or save and publish of the handoff. A turn is
`Finalize` (then `Clear`, `PublishFinal`) or `Delegate` (then `SaveWaiting` and one
`Publish` per task), or `BrainFails`. What the code decides from data the model does not
keep (the text of the LLM, the cards of discovery) is nondeterministic.

Failures are the actions with a `Fault(kind)` guard: errors of the lock, of loading, saving
and clearing the state, of discovery, of the brain and of a publish (which may have stored
the message or not), lost replies of Redis, lost acknowledgements, an expired AckWait, a
dead replica and a spoke that dead-letters a task. `Faults` says which kinds a run has and
`MaxFaults` how many may happen. `Crash` stops one pull loop in the middle of a message;
the loops of its process that are idle have nothing to lose.

The model leaves out: short-term memory, which only feeds prompts (a spoke's is `SpokeMemory`); progression events and
the hub's own answers, which the response handler drops by the hub's own name; the
TTL of the state key (24 hours by default); tasks for the hub's own name, which the router would
treat as user messages and which the model leaves unread, like tasks for invented names.

### CircuitBreaker

`state`, `failures` and `age` (time since `lastStateChange`) are the struct's fields;
`calls` says who is inside the operation; `sinceFailure` is a history variable. `Admit`,
`Probe` and `Reject` are `beforeExecute`, `Succeed` and `Fail` are `afterExecute`; the
operation runs in between, so that results arrive late. `age` and `failures` saturate where
the code stops distinguishing values.

### Registry

Time is in ticks of ten seconds, the period of the heartbeat and of the pruner. What is sent or
called in a tick is handled within it (`Settled` guards `Tick`), in any order: a
heartbeat, the pruner, an unassignment and the requests of the hubs interleave. Periods
are not aligned, so something that lasts *n* ticks may end at age *n* and has ended at age
*n + 1*: `MayPrune` and `MustPrune`, `ListExpires` and `Tick`, the guards of `Refresh` and
`Serves`.

`up` and `due` are the agents' processes and the heartbeats they owe; `assigned`, `status`
and `reg` are the columns `agents.community_id`, `agents.status` and the age of
`agent_registrations.last_seen_at`; `list` is the keeper's cached list of cards; `cards` and
`fetched` are the fields of each hub's `ClientCache`. `handleHeartbeat` is `Register`
and `UpdateStatus`, `prune` is `Prune` (or `PruneFails`) and one `Evict` per deleted row,
`Unassign` is `UnassignAgent`, `DeleteRegistration` and `InvalidateList`, `handleRequest`
is `AnswerFromCache`, or `ReadRegistrations` and `FillCache`, and `GetCards` is `Refresh` and
`Refreshed` around them. `missed`, `skipped`, `restored` and `downFor` are history variables.
`Event(kind)` guards each failure and each outside event (stop, start, assign, unassign, the
write of a row); `Events` and `MaxEvents` say which and how many.

`agents.status` has other writers than the heartbeat and the pruner: requests that read an agent, do
something else and write the whole row back (`agent_repository.go:306`), with the status and the community
that they read, or with another status. They are edits (`agent_service.go:71,319,338,357,376`,
`agent_handlers.go:392`), the reconciling branch of `Assign` (`agent_service.go:120`), deploy, undeploy
and `GetAgentStatus` (`lifecycle_service.go:75,117,189`), and all of them are `ReadRow` and `WriteRow`,
as far apart as they like. Which request writes what is in `AgentLifecycle`; here it may be the
status that was read or any that one of them writes. So `DeadIsNotRunning` does not say that a dead agent is never
shown as running: it may be, if after its pruning a request has written `running` from a row that it
had read before, or because the cluster said so (`restored`). No later run of the pruner takes that back, since
there is no registration left to prune; a heartbeat or another write does. What it says is that
nothing else leaves `running` behind.

Left out: status events (`handleStatusMsg` looks for `status` at the top level of a message
whose payload the keeper wraps in an envelope, so that it finds none), the keeper's key per
agent's card (written, never read), names of cards, a second replica of the keeper, and
heartbeats that are under way for longer than a tick.

### ScatterGather

The state of a thread as a reader of Redis sees it: `flow`, the agents it waits for, the round
and the limit of rounds. `Begin` replaces a flow, `Hear` takes one of several answers,
`HandOff` exchanges an agent, `NextRound` and `End` require that at most one answer was
outstanding. The refinement mapping reads all four from `HubOrchestration!store`: the flow and the
limit are fields of the saved state, `waiting` is the domain of its pending map, `round` its
loop counter. The absent key is the idle thread. What it shows is that failures, redeliveries
and copies that outlive the section never make the saved state jump: in particular that the
copy on which a handler saves the next round is still the saved state, or is it but for the answer
that the handler is working on.

### SpokeMemory

`memory` is the Redis list, `stream` and `delivered` the events of the thread and their
deliveries (the text of an event is the same in each), `loop` the local variables of the handlers (`copy` is the window or the history
that was read, `left` counts the turns of a delegation still to be appended, or the steps of
the reasoning loop). There is no thread lock on a spoke, so the loop of its own subject and the
loop of everybody's subject handle two events of a thread at once. `Clear` and
`AppendContext` are `handleStartThread` and the beginning of `handleAgentDelegation`; `Get`,
`AppendUser`, `ExecuteStep`, `BrainFails`, `AppendAssistant`, `TriggerMemoryConsolidation`
and `PublishResponse` are `ProcessIncomingMessage` and its caller, `RollbackLast` the error path of
both; `GetHistory`, `ConsolidateThread` and `Clear` are `handleEndThread`. A Redis command that fails may
have been carried out. `handed` (the turns given to a consolidation) and `disturbed` (the
memory came about with a failure of Redis or a crash, or while two handlers were at work) are
history variables; `disturbed` is reset when a lone handler clears the memory.

What a reader should know of the code, and the model keeps: a history that cannot be read when a
thread ends is cleared unseen (`schema_router_impl.go:214-217`); the consolidation on
eviction does not trim the memory, so that the same turns are consolidated after each further
message; `RollbackLast` takes whatever turn is last, which after a failed append, or beside another
handler, is somebody else's.

A turn without text is refused before Redis is asked (`memory_adapter.go:95-100`, `model/memory.go:17-31`), and
the processor only logs it (`message_processor.go:77,96`). Two turns can be without text. The message of
a delegation, which nothing checks (a user's is, `event_service.go:122`): `blank` is the set of delegations that are so, chosen in `Init`. And the answer of
the brain, which may be empty without an error (`openai_adapter.go:314-323`); each empty answer counts as one
of the failures. `HasText` and `Appends` model both, with Redis healthy and the memory not disturbed. `missing`, a history variable, is
what was refused, and what `RollbackLast` of such a delegation has taken instead of its own question
(`schema_router_impl.go:409`). `TurnsPaired` says that a question is followed by its answer unless the answer is missing,
and an answer preceded by its question unless that is. `handed` and `missing` are emptied with the memory.

Left out: the expiry of AckWait on a second replica, the TTL of
the list, and as data the prompts, the tools and whether a consolidation succeeds.

### AgentLifecycle

`row` and `community` are the tables; `task[r][a]` is the place of request `r` with agent `a` and
the row it has read; `fan` the rest of a request about a whole community; `crd` and `dep` the
TacitoAgent resources and their Deployments; `queue` and `op` the operator's work queue
and reconciliation. A request is cut at each statement and each call of Kubernetes, and ends
with the part that runs in a goroutine. `Update` writes the whole row, as
`AgentRepository.Update` does. `SubmitGets`, `SubmitCreates`, `SubmitUpdates` are
`SubmitAgentCRD`; `ReconcileBegins`, `ReconcileApplies`, `ReconcileReports` the operator;
`Collect`, `PodReady`, `PodFails` Kubernetes. `KeeperCrashes` and `OperatorCrashes` forget what
was under way; the operator's first list queues all resources.

The model keeps, and a reader should know: `GET /agents/:id/status` writes the row it has read, whatever
has changed since (`lifecycle_service.go:186-190`); a `Submit` in the background is not
ordered with a later `Teardown` (`agent_service.go:271`); a failed submit leaves
`pending` behind, which refuses a further deploy (`lifecycle_service.go:75`); `Delete` leaves the
resource and the pod (`agent_service.go:78`). Left out: the headless Service (not among the types the operator
owns and watches), the role (`spec.Role` is always empty, so that the operator takes
`spoke`), the check that a single-agent community is empty, which reads a list that nothing locks.
`Assign` and `Unassign` are modelled as the operations of the agent service; the HTTP routes go
through the community service, whose assignment repository is nil at this commit.

### BffSession

`store`, `userIndex` and `oidcIndex` are the keys of the Redis session store; `login` the
pending logins; `handler` the local variables of a request, with its replica; `provider` the sessions at
the identity provider, which numbers the tokens it has issued and those that have expired. A handler is
cut at each Redis command, each pipeline and each call of the provider. `GetSession` is the
middleware; `Join`, `RefreshReads`, `RefreshToken` and `Save` are `RefreshSession` behind the
merging of concurrent calls; `DeleteReads` and `Delete` are the store's `Delete`, which logout, logout by
sid and logout by user (one session after the other) share. `Fails` ends a call with an
error, and executes a prefix of a pipeline. `gone`, `raced` and `presented` are history variables.

`Respond` ends a request that is answered. A request for the event stream (`routes.go:39`) passes the same middleware
once and is then served for as long as its client stays and its source goes on (`sse_handler.go:56-70`), without another look at
the session; so is one whose client does not finish sending its body. The server sets no timeouts
(`cmd/bff/main.go:154-157`). `StreamEvents` begins this, `StreamEnds` ends it, and it need not end. A stream that was open at the
logout is therefore not cut: `LogoutTakesEffect` says that after the provider has ended the session
no request is admitted under it from some time on, and that what was admitted before is over, but for the streams.

A reader should know: the first caller's cancelled context fails the calls merged with it
(`session_service.go:162`); two logins with one provider session share a key of the
index (`redis_session_store.go:80,125`); the index of a user's sessions has no TTL (78);
`Session.Invalidate` is never called; a 401 for an old session clears the cookie of a newer
login (`session_middleware.go:50-56`).

### Catalogue

One kind of entry in each behaviour, chosen in `Init` (LLM binding, MCP client, skill, prompt
template, prompt collection, community, agent): the kinds have the same routes and do not
meet, but for the prompts that agents and collections are linked with. `rows` is the table,
`versions` the texts of each template, `cached` the binding cache or the effective prompts of
agents, `request` the local variables of the keeper's handlers, `sync` those of
`AdvancedSync`. The steps of a request are the same for several kinds (`Inserts`, `Fetches`,
`Writes`, `Removes`, `LooksUp`, `Fills`, `Drops`) and each kind puts them together as its service
does: `CreateMCPClient`, `UpdateMCPClient`, `WriteMCPClient`, ... A sync lists the entries,
updates or creates the items of its list one after another, then deletes what was listed
and is not in the list, and ends at the first error; `Again` sends it again with the ids
that the entries have by then. Other clients use the same routes (`AskCreate` and so on).
`gone` and `raced` are history variables.

`SyncExact` is about a sync that no other request has disturbed. Two things disturb it (`sync.disturbed`): a
request of another client that writes, and a copy of a listed binding, in the cache or on its
way to it, that still says that the binding was deleted (`Misread`). Such a copy is left by an update that
brings a deleted binding back while a read fills the cache. An update by the sync then reads the copy and
writes its status back (`llm_binding_handlers.go:227`, `llm_binding_repository.go:142-152`): it deletes the
binding again, and the sync reports success. It takes an update, a deletion and a read besides the sync, three
events where the run has two; the proof of `SyncIsExact` found it, and TLC shows it with three.

The model keeps, and a reader should know: every Create of the keeper answers 201 without a body
(`agent_handlers.go:195`, `llm_binding_handlers.go:130`) while the BFF decodes one
(`keeper_http_client.go:71-127`), so that a create succeeds and is reported as a failure (`Decoded`) and a
sync ends at its first create. Repeated without the new id it would meet the unique name for ever,
as would a sync that takes the name of an entry it is yet to delete, or that swaps two names: hence the ids of `Again`,
which are those of a page that was loaded again.

A community that agents are assigned to (`staffed`) cannot be deleted, as `agents.community_id` is a
foreign key ON DELETE RESTRICT (`00001_init.sql:158`) whose error the repository returns
(`community_repository.go:205-220`), nor be given another topology (`TopologyKept`, 176-185). `AgentAssigned`
and `AgentUnassigned` are requests of others, at any time. The agents are counted by a statement before the one that
writes, in no transaction with it, so that an assignment in between is not seen: two steps in the model, too. A sync that asks for
either fails at every attempt until somebody has unassigned the agents; `SyncConverges` therefore says that repeating it
succeeds unless, from some time on, there always is a community that agents keep other than the list says (`Standing`).

Not in the model, but in the code: errors of assigning agents to a community are ignored by the
sync, and at this commit the calls always fail (the assignment repository is nil,
`internal/keeper/bootstrap.go:155,196`). The kind of a sync is guessed from the keys of its first item
(`configurator_handler.go:412-430`). The effective
prompts of an agent are not invalidated when a template or a collection changes. A deleted MCP client
stays in the agents that name it.
Left out: skill collections and attachments, the wizard's options, validation, system-locked
templates, and a BFF timeout that leaves the keeper's handler running.

## 3. Runs

| Run | Instance | Shows |
|---|---|---|
| `thread_lock` | 3 handlers, 4 tokens, TTL 3, timeout 2, work up to 4 | leases are exclusive even when work outlasts them, and keys are freed |
| `hub_flow` | 1 message, 2 spokes, 1 loop each, 2 failures out of those the hub reports by Nak, 2 deliveries | join, nothing lost, whoever is awaited can answer, and every message ends answered or dead-lettered |
| `hub_faults` | 2 messages, 2 spokes, an invented name, a handoff target, 2 replicas on responses, every kind of failure, 1 failure, 2 deliveries, 2 tasks | the saved state implements `ScatterGather`, no flow overwrites a newer one, duplicates need a failure |
| `hub_answer_lost` | 1 message, 1 failure, of a publish among others | **violated**: `NothingLost` |
| `circuit_breaker` | 3 callers, threshold 3, recovery 2 ticks | counter, open period, recovery |
| `registry` | 2 agents, one of which is moved, no hub, 2 requests that write rows, 3 events of all kinds the keeper sees | a dead agent is not reported as running unless a request wrote so, a live one survives lost heartbeats, heartbeats repair the rest |
| `registry_caches` | 1 agent, 2 hubs, 2 events: stop, start, lost heartbeats, failed prunes, cache errors, lost requests | the staleness of a hub's cards is bounded, a live agent is known again and again |
| `lifecycle` | 1 agent, 2 communities, 2 requests at once, 2 requests or failures besides retries, 1 edit | the operator misses no change and converges; a lost update needs overlapping requests; retries repair |
| `session` | 2 sessions, 1 session of the provider with 2 tokens, 2 replicas, 2 handlers, 1 logout or failure | a session can be found by its user; a deleted one stays deleted unless a refresh had read it; a token is used once; a logout takes effect, but on open streams |
| `session_logout_undone` | 1 session, 1 replica, 2 handlers | **violated**: `LogoutIsFinal` |
| `catalogue` | 7 kinds, 4 ids, 2 names, 2 texts, 1 attached prompt, sync and another client, 1 or 2 failures or requests of others, but for skills | caches agree with tables, deleted bindings stay deleted, a sync is exact, and converges when repeated unless agents keep a community from it |
| `spoke_memory` | 4 events (start, message, delegation with 1 turn and with or without text, end), 2 loops, window 1, 2 steps, 2 deliveries, 2 failures or empty answers | questions are paired with answers but for those without text, nothing is forgotten that was not handed to a consolidation |

**Bounds.** The lock's numbers keep the order of the real ones (a timeout of 5 s below a TTL
of 30 s) and let work exceed the TTL; three handlers are an expired holder, its successor
and a third that polls. In the hub, two messages are the flow and the one that supersedes
it; two spokes are the least for which the join can be wrong; two deliveries let a message be
retried once and dead-lettered after that; `MaxTasks` bounds the tasks of a behaviour (6 in
`hub_flow`: three rounds of two, which exceed the loop limit of discovery failures; 2 in
`hub_faults`, where a failed discovery makes the limit 1, so that the second delegation is
beyond it) and is a guard of `DelegateTo` and `AcceptHandoff`. `LoopSlack` is 1 where the
code has 3, `MaxDeliver` 2 where the code has 5: the same comparisons earlier. One failure
per behaviour, of all thirteen kinds, at every place, in `hub_faults`; two of the kinds that
end in a Nak in `hub_flow`. The breaker's three callers are a trial, a late success and
a late failure. In the registry the ages are those of the code in ticks: 30 s, 10 s and 30 s.
The bounds that its properties name are exact: `PruneNeedsSilence` fails with `Threshold`
missed heartbeats, `DeadIsNotRunning` with one tick less than `PruneBound`, and
`StalenessBounded` with one tick less than `StaleBound`, for which two hubs are needed, as
one of them fills the list that the other is served. `PruneBound` counts the failed
runs of the pruner, each of which leaves a registration for another tick. Two requests that write rows
are one that read before the pruning and one that reads what the first has written; of the three events the agent's stop is one.

In `lifecycle` two requests are what it takes to overlap, two communities what it takes to
move; one agent suffices because requests about different agents share nothing but the community's
status. In `session` two handlers are a refresh and a logout, or a refresh in each of two replicas or twice in one;
two tokens are one refresh. In `catalogue` `MaxItems` (2 for MCP clients and prompts, else 1) and
`MaxEvents` (2 for LLM bindings and collections, 1 for MCP clients, prompts, agents and communities, 0 for skills,
whose paths are those of the others) are per kind; in the first state any communities have agents, and the one event
of a community is a failure, an assignment or the end of the last one; four ids are two entries deleted and
created again. In `spoke_memory` a window of one turn makes each second turn evict one, a brain of two steps
can go on and stop, and with two deliveries and two failures an event fails, is retried and is
dead-lettered; the delegation is tried with and without text.

**`hub_flow` and the failures it excludes.** `NothingLost` and `EventuallyAnswered` hold for
failures that the handler reports with a Nak before it has published anything: errors of the
lock, of loading and saving, of discovery, of the brain, of Unlock. A failed publish breaks
`NothingLost` (next paragraph). A lost acknowledgement may repeat an answer: at-least-once
delivery makes duplicates possible and the code does not remove them, so `hub_faults`
checks `DuplicateNeedsFailure`. `FanInComplete` holds for one user message only: a response
is matched by the spoke's name (`orchestrator.go:179`), so that a late response to a task of an
earlier message completes the join of the current flow, although the event carries the id
of its delegation. `FlowNotOverwritten` and `ImplementsScatterGather` need work that fits in the
lock's TTL (`Overrun` FALSE): after the lease has expired, `SaveState` replaces whatever is there.

**Findings.** `hub_answer_lost`: `runOrchestrationTurn` clears the state before it publishes
the final answer; when that publish fails, the redelivered response meets no state, is ignored
and acknowledged, and no answer is ever sent. `session_logout_undone`: `RefreshSession` reads the
session, waits for the identity provider and saves the session without looking whether it
still exists, so that a logout in between is undone and the session is served until its access
token expires. Each quotes in `PROJECT.json` the documentation it contradicts.

**Fairness.** `HubOrchestration!Fairness` says that Redis expires keys, that each pull loop
keeps running (`for` without exit while the context lives; its calls return), and
that spokes answer the tasks that reach them. Discovery is the one call without a deadline:
there the keeper is assumed to answer (if it does not, `Refresh` waits with the mutex of the
card cache held, `client_cache.go:225`). Failures, `Crash` and `UserSends` are not fair.
It is weak fairness of each loop as a whole: which branch a handler takes is free.
In `ThreadLock` time passes and a handler's due timers fire and its work ends; `Poll` is
not fair, as the lock is not FIFO and a poller may starve until its timeout. In
`CircuitBreaker` time passes and operations return; that the callers call again is an
assumption on traffic, since the breaker has no timer of its own. In `Registry` time passes and the heartbeat loops,
the subscriber, the pruner, the rest of an `Unassign`, the handler and the hubs' callbacks
go on; failures, `Assign`, `UnassignAgent` and `Refresh` (a hub's decision) are not fair.
In `AgentLifecycle` what a request has begun goes on, the operator's workers, the garbage
collector and the pods run (weak), and one client repeats its last Assign or Unassign until
it is accepted (strong fairness of `Retry`, as the place for a request may be taken again and again): an
assumption on the client, under which `RetriesRepair` is stated; two clients that retry for different
communities could move the agent for ever. In `BffSession` handlers go on, since every call of Redis,
the provider and the keeper has a timeout, and access tokens expire; that a stream ends is not assumed. In `Catalogue` requests and the sync go on and a failed sync is sent again.
`SpokeMemory` states no fairness and no liveness.

## 4. Theorems

All for arbitrary constants, under the named `ConstantsAssumption` of each module.

* `ThreadLockProofs`. Inductive invariant `Inv`: the tokens of the calls in progress are distinct, the
  key is absent exactly when its life is 0, and a handler within its lease owns the key, whose
  remaining life is the TTL minus the handler's clock. The last part is what `LeaseExclusive` lacks: without it nothing
  says that a key is gone exactly when the lease is over. `LeaseIsExclusive` and
  `OwnerReleases` follow. `MutexForShortWork` adds `MaxWork < LockTTL` and concludes mutual
  exclusion: the condition the orchestrator relies on and the code does not enforce.
* `CircuitBreakerProofs`. `TypeCorrect`, `ClosedIsBelowThreshold` and `RejectionsJustified`: the two
  safety properties are inductive together with the types.
* `HubOrchestrationProofs`. One invariant upon the other:
  * `Inv`: types, what each loop holds at each place of its handler (a message of the right kind, a
    copy of the state exactly while it works on one, a non-empty list of tasks before a publish) and
    the loop limit of saved states and of copies; it gives `TypeCorrect` and `LoopIsBounded`, with one
    lemma per action.
  * `SectionInv`, with the assumption `~Overrun`: whoever is between Lock and Unlock holds the lock;
    it gives `LockProtectsState`. `FlowInv`: the saved state and the copy of whoever is in the critical
    section belong to the latest user message, by mutual exclusion from `SectionInv`; it
    gives `FlowIsNotOverwritten`. `~Overrun` is needed here and in all that follows: an expired
    holder still saves.
  * `Refinement`: `HubOrchestration!Spec` implies `ImplementsScatterGather`. `FlowInv` says whose flow
    a copy belongs to, not what it contains; `CopyInv` adds how the copy of the handler in the critical
    section differs from the saved state at each place: one answer less after the fan-in, a name
    exchanged after a handoff, the next round after a delegation, and at most one agent awaited
    whenever a turn runs or ends. Then each write of `store` is a step of `ScatterGather`,
    and everything else a stutter. `NoneAssumption` (no saved state is the absent key) makes the mapping
    well defined.
  * `DuplicatesNeedFailures`, for every kind and number of failures. `AnswerInv` is a balance per user
    message: the answers it has had, and all that can still bring one (the unread message, each of
    its handlers, the saved state that waits for spokes, the handler about to answer), are at most
    one more than the failures so far. It needs `StreamInv` and `PhaseInv`: who works
    on a message, and that a handler past the load of the state works for the saved flow.
  * `NothingIsLost`, for any users, handoffs, lists and number of failures, of every kind but
    three: a publish that fails or a replica that dies between `ClearState` and the
    publish loses the answer (`hub_answer_lost` shows it), and a turn that outlasts AckWait ("slow")
    gives its message to a second handler, whose acknowledgement then removes a message that
    the first one may still refuse. `SafeInv` says what an acknowledged message has left behind, from
    `TaskInv` and `UniqueInv` (a task is queued once and answered once, a message has one entry) and
    `HandlerInv` (a message has one handler).
  * `TheAwaitedAreServed`, for any number of failures that lose no task, no response and no deletion of
    the state: a failed publish, a crash or a lost reply of Redis saves a state
    whose tasks are never published, a failed clear leaves a state that nobody will answer, a
    spoke that dead-letters its task never answers. `Ghost = {}` and `Handoff \subseteq Spoke` say that
    the brain and the spokes name agents that exist; the code does not check it, and an agent that does
    not exist is awaited for ever (`orchestrator.go:350`). `NamesInv`: a task's number stands for
    one spoke in the saved state, the copies and the lists. `ReachInv`: each number that somebody
    waits for is in the queue, about to be published, or in a response that is unread or dead-lettered;
    `FinishedInv` says why a response may then be forgotten.
  * `TheJoinIsComplete`, the one about `FanInComplete`, is stated for any number of spokes,
    loops, rounds and failures, under two hypotheses. `OneFlow`: one user message, no handoffs, no
    list that repeats a name. Otherwise a response is matched by the spoke's name and not by the
    task (`orchestrator.go:179`), so that an earlier task's response completes a later join.
    `Quiet`: no lost acknowledgement and no expired AckWait (a response read twice, or beside its
    first reader, counts for the next task of the same spoke) and no failed publish, crash or lost reply (a
    state that is waiting while the message that made it runs again, and publishes anew). `JoinInv`: every open task is
    awaited, under its number, by the saved state; a flow starts without open tasks; the copy of a
    handler leaves out the spoke it has heard, and no other.
* `RegistryProofs`. `Inv` bounds the age of a registration by the threshold and the failed
  runs of the pruner, depending on whether the pruner has run in this tick. `SilenceInv`: a registration is
  at most as many ticks old as heartbeats were missed, plus one while that of this tick is
  under way; it gives `PruningNeedsSilence`. `AliveInv`: what is under way comes from a
  live agent, and a registration is at least as old as its agent is dead; with `StatusInv` it gives `DeadAreNotRunning`: an agent that is not
  moved is running only while registered or `restored`, and a request that has read `running` has read it of an
  agent that is registered or holds a row it marks as old. The mark is what makes it inductive: a pruning
  outdates the rows that requests have read, and a row written from an outdated one is `restored`.
  `CacheInv`: each cache adds its own age to that of what it was filled with; it gives
  `StalenessIsBounded` for any number of hubs and failures.
* `AgentLifecycleProofs`. `WakeInv` gives `WakeupsAreKept`: with an empty queue, what the operator holds
  of an agent in the middle of a reconciliation (`Held`, `Awake`) is what the resource and the
  Deployment are now; any write in between puts the agent into the queue again. It is proved with the
  types, because the operator writes the phase of a resource that could be gone. `SoloInv` gives
  `LossNeedsOverlap`: as long as no two requests about an agent have overlapped, at most one is at
  work and its copy is the row as it is but for its own change.
* `BffSessionProofs`. `Shape`: what a handler holds at each place. `LoginInv`: while a login's callback
  runs, no index and no other handler knows the session. With it `GoneInv` (nobody who could store a
  session marked as deleted is at work) gives `DeletedIsFinal`. `OverlapInv` (a save and a deletion of a
  session that are both under way have marked it as raced) and `IndexInv` (a stored session is in the
  index of its user, and a logout by user has it still before it, or it has raced) give
  `UserFindsSessions`. For `TokensAreUsedOnce` steps are sorted into four kinds (those that issue,
  read or store tokens, and all others); `IssuedInv`, `FreshInv`, `SidInv` and `OnceInv` say that
  a token that was presented and is still stored is in the hands of the flight that presented it.
* `CatalogueProofs`. `Shape`: what a request names and holds at each place (`EntryTypes` has the types but for
  `staffed`, on which no safety property depends; `StaffingTypes` adds it); every kind's operations
  are reduced to the statements they share (`StepIs`). `SafeInv` adds to each property what makes
  it inductive: `Fresh` extends `CacheFresh` to what is on its way to the cache, and to entries that do not exist yet;
  `Final` extends `DeletedStaysDeleted` to every copy of a deleted binding. They give `CachesAreFresh` and
  `DeletedIsFinal`. `SyncIsExact` spans a whole sync. `SyncInv` says of one that is not disturbed
  (`Steady`): no other request writes and no copy misreads a listed binding; each item that the user
  asked for is met by an entry, still to be sent, or in the hands of the request under way; and what
  was listed is kept, still to be deleted, or gone. As every Create is answered
  without a body (section 2), a sync that reports success has only updated and deleted; the proof uses that.
* `SpokeMemoryProofs`. Without hypotheses on the constants. `Inv`: types, and what a handler holds
  at each place. `MemoryInv` speaks of a memory that is not disturbed: one handler at most is at
  work, and every turn has its partner beside it or `missing` (`Ordered`), but for the question of a handler that
  reasons, which is the last turn (`Asked`) or was refused (`Refused`); all of it but the last `Limit` turns has been handed to a
  consolidation, one more while an answer is outstanding, two more between the answer and the
  check of the window (`Handed`). The window of what the brain is shown and that of what is consolidated are
  computed at two moments from two reads (`message_processor.go:125`), and the counts are what
  makes them fit. It gives `QuestionsAreAnswered`, `TheUnseenWasHanded` and `NoTurnIsForgotten`.

Model-checked only: all liveness (`LockIsFreed`, `EventuallyAnswered`, `Recovers`,
`LiveIsRegistered`, `LiveIsKnown`, `Converges`, `RetriesRepair`, `LogoutTakesEffect`, `SyncConverges`),
which needs ENABLED and fairness, which the prover cannot treat; and the two properties that the code
violates. Every other invariant and action property that a run checks is a theorem.

The modules use no RECURSIVE operators, keep one action per operation and name their
assumptions, so that each can be proved about.

## 5. Not modelled

* LLM, MCP and long-term memory adapters (`ollama`, `openai`, `mcp`, `qdrant`, `s3`): a request
  is built, sent and parsed; none keeps state between calls. The circuit breaker in front of them is modelled.
  Their failures are the failures of the brain, of tools and of the consolidation.
* Prompts, tool calls and their results, agent cards, manifests and the contents of custom resources: data on which no
  step of the modelled protocols depends but through choices that the models leave free.
* The event bridge of the BFF: it forwards events to open streams and keeps none; a browser that
  reconnects loses what was sent in between.
* Routes that only read, validation and authorization, configuration, tracing, metrics, health.
* A task addressed to the hub itself and the end of a thread on a hub
  (`schema_router_impl.go:200,337`), the status events of the registry, the claim check of large payloads.
* Two locks in one model: `HubOrchestration` takes the thread lock as atomic, with its expiry; that
  `ThreadLock` gives no more and no less is checked in its own module, not by composing the two.
