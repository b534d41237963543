------------------------------- MODULE Registry -------------------------------
(***************************************************************************)
(* Discovery of the agents of one community: the agents' heartbeats        *)
(* (internal/agent/adapters/outbound/nats/heartbeat.go), the keeper's      *)
(* subscriber, pruner and request handler                                  *)
(* (internal/keeper/adapters/inbound/nats/registry_subscriber.go and       *)
(* registry_handler.go, internal/keeper/application/service/               *)
(* registry_pruner.go), and the cards the hubs keep                        *)
(* (internal/agent/adapters/outbound/cache/client_cache.go).               *)
(*                                                                         *)
(* A tick is the 10 s of the heartbeat and of the pruner, and what is sent *)
(* or called within a tick is handled before the next one.  When in its    *)
(* tick a thing happens is not known: what should last n ticks may end     *)
(* when its age is n, and has ended when its age is n + 1.                 *)
(*                                                                         *)
(* Status events are left out, as they change nothing: handleStatusMsg     *)
(* reads a status at the top level of the message, where the keeper's      *)
(* events have an envelope.  The keeper's key of each agent's card is left *)
(* out too: it is written, and never read.                                 *)
(***************************************************************************)
EXTENDS Naturals, FiniteSets

CONSTANTS Agent,      \* the agents of the community
          Movable,    \* those that the API unassigns and assigns
          Client,     \* concurrent requests of the API that write an agent's row
          Hub,        \* the hub replicas, each with a ClientCache
          Threshold,  \* age at which registrations are pruned (30 s)
          CacheTTL,   \* life of the keeper's list of cards (10 s)
          Freshness,  \* age up to which GetCards serves its own cards (30 s)
          Events,     \* the kinds of failure and of outside event that may happen
          MaxEvents,  \* bound: how many of them
          None

EventKind == {"stop", "start", "assign", "unassign",
              "write", "beat", "register", "status", "prune", "delete", "cache", "request"}

Status == {"defined", "pending", "running", "stopped", "error"}

\* An agents row as a request read it; the agent was pruned since, or was shown
\* running by such an old row already.
Row == [agent : Agent, status : Status, assigned : BOOLEAN, old : BOOLEAN]

ASSUME ConstantsAssumption ==
  /\ Movable \subseteq Agent
  /\ Threshold \in Nat \ {0} /\ CacheTTL \in Nat /\ Freshness \in Nat \ {0}
  /\ Events \subseteq EventKind /\ MaxEvents \in Nat
  /\ None \notin Agent /\ None \notin Nat /\ None \notin [cards : SUBSET Agent, age : Nat] /\ None \notin Row

VARIABLES up,        \* the agent's process runs
          due,       \* its heartbeat of this tick is still to be sent
          beats,     \* heartbeats on their way to the keeper
          assigned,  \* agents.community_id is the community
          status,    \* agents.status
          reg,       \* age of the agent_registrations row (last_seen_at), or None
          sub,       \* the agent whose heartbeat is being handled, or None
          pruneDue,  \* the pruner's run of this tick is still to come
          pruned,    \* registrations it deleted and has still to evict
          unassign,  \* place of the Unassign call of each agent
          row,       \* the agents row each request of the API has read, or None
          list,      \* the keeper's cached list of cards and its age, or None
          request,   \* place of the registry request of each hub
          reply,     \* the cards of its reply
          cards,     \* ClientCache.cards
          fetched,   \* age of ClientCache.lastFetched
          heard,     \* heartbeats on their way to each hub
          events,    \* failures and outside events so far
          missed,    \* history: heartbeats that did not register, since one did
          skipped,   \* history: runs of the pruner that failed
          restored,  \* history: agents whose status a request wrote back as running
          downFor    \* history: how long the agent's process has been down

agentVars == <<up, due>>
database == <<assigned, status, reg>>
keeperVars == <<sub, pruneDue, pruned, unassign, row>>
hubVars == <<request, reply, cards, fetched>>
history == <<missed, skipped, restored, downFor>>
vars == <<agentVars, beats, database, keeperVars, list, hubVars, heard, events, history>>

Never == Freshness + 1           \* the zero time.Time of lastFetched
PruneBound == Threshold + 1 + skipped  \* a registration is not older
StaleBound == PruneBound + CacheTTL + Freshness
LongDown == Threshold + MaxEvents + CacheTTL + Freshness + 2  \* where downFor saturates

Event(kind) == kind \in Events /\ events < MaxEvents /\ events' = events + 1
NoEvent == UNCHANGED events

UpTo(n, limit) == IF n < limit THEN n + 1 ELSE limit

\* All agents are assigned and starting, nothing is registered or cached.
Init ==
  /\ up = [a \in Agent |-> TRUE]
  /\ due = [a \in Agent |-> TRUE]
  /\ beats = {}
  /\ assigned = [a \in Agent |-> TRUE]
  /\ status = [a \in Agent |-> "pending"]
  /\ reg = [a \in Agent |-> None]
  /\ sub = None
  /\ pruneDue = TRUE
  /\ pruned = {}
  /\ unassign = [a \in Agent |-> "idle"]
  /\ row = [c \in Client |-> None]
  /\ list = None
  /\ request = [h \in Hub |-> "idle"]
  /\ reply = [h \in Hub |-> {}]
  /\ cards = [h \in Hub |-> {}]
  /\ fetched = [h \in Hub |-> Never]
  /\ heard = [h \in Hub |-> {}]
  /\ events = 0
  /\ missed = [a \in Agent |-> 0]
  /\ skipped = 0
  /\ restored = {}
  /\ downFor = [a \in Agent |-> 0]

-----------------------------------------------------------------------------
(* The agents' processes and their HeartbeatPublisher.                     *)

Missed(a) == missed' = [missed EXCEPT ![a] = UpTo(@, Threshold)]

\* The process ends, by the teardown of its deployment or by a failure.
StopAgent(a) ==
  /\ up[a]
  /\ Event("stop")
  /\ up' = [up EXCEPT ![a] = FALSE]
  /\ due' = [due EXCEPT ![a] = FALSE]
  /\ IF due[a] THEN Missed(a) ELSE UNCHANGED missed
  /\ UNCHANGED <<beats, database, keeperVars, list, hubVars, heard, skipped, restored, downFor>>

\* The process starts and publishes its first heartbeat at once.
StartAgent(a) ==
  /\ ~up[a]
  /\ Event("start")
  /\ up' = [up EXCEPT ![a] = TRUE]
  /\ due' = [due EXCEPT ![a] = TRUE]
  /\ downFor' = [downFor EXCEPT ![a] = 0]
  /\ UNCHANGED <<beats, database, keeperVars, list, hubVars, heard, missed, skipped, restored>>

\* publishHeartbeat.  Its message may be lost on the way to the keeper or to a
\* hub (core NATS delivers at most once), or the card could not be compiled.
Heartbeat(a) ==
  /\ due[a]
  /\ due' = [due EXCEPT ![a] = FALSE]
  /\ \E told \in SUBSET Hub :
       /\ heard' = [h \in Hub |-> heard[h] \cup (IF h \in told THEN {a} ELSE {})]
       /\ \/ /\ IF told = Hub THEN NoEvent ELSE Event("beat")
             /\ beats' = beats \cup {a}
             /\ UNCHANGED missed
          \/ Event("beat") /\ Missed(a) /\ UNCHANGED beats
  /\ UNCHANGED <<up, database, keeperVars, list, hubVars, skipped, restored, downFor>>

-----------------------------------------------------------------------------
(* The keeper: RegistrySubscriber.                                         *)

\* ON CONFLICT DO NOTHING (a mutation of Register).
RegisterOnce(a) ==
  /\ sub = None
  /\ a \in beats
  /\ beats' = beats \ {a}
  /\ reg' = [reg EXCEPT ![a] = IF @ = None THEN 0 ELSE @]
  /\ missed' = [missed EXCEPT ![a] = 0]
  /\ sub' = a
  /\ NoEvent
  /\ UNCHANGED <<agentVars, assigned, status, pruneDue, pruned, unassign, row, list, hubVars, heard, skipped, restored, downFor>>

\* UpsertRegistration, whether the agent is assigned or not.
Register(a) ==
  /\ sub = None
  /\ a \in beats
  /\ beats' = beats \ {a}
  /\ \/ /\ reg' = [reg EXCEPT ![a] = 0]
        /\ missed' = [missed EXCEPT ![a] = 0]
        /\ sub' = a
        /\ NoEvent
     \/ Event("register") /\ Missed(a) /\ UNCHANGED <<reg, sub>>
  /\ UNCHANGED <<agentVars, assigned, status, pruneDue, pruned, unassign, row, list, hubVars, heard, skipped, restored, downFor>>

\* The status is not updated (a mutation of UpdateStatus).
UpdateStatusNot ==
  /\ sub # None
  /\ sub' = None
  /\ NoEvent
  /\ UNCHANGED <<agentVars, beats, database, pruneDue, pruned, unassign, row, list, hubVars, heard, history>>

\* UpdateStatus, a statement of its own.
UpdateStatus ==
  /\ sub # None
  /\ \/ /\ status' = [status EXCEPT ![sub] = "running"]
        /\ restored' = restored \ {sub}
        /\ NoEvent
     \/ Event("status") /\ UNCHANGED <<status, restored>>
  /\ sub' = None
  /\ UNCHANGED <<agentVars, beats, assigned, reg, pruneDue, pruned, unassign, row, list, hubVars, heard, missed, skipped, downFor>>

-----------------------------------------------------------------------------
(* The keeper: RegistryPruner.                                             *)

\* Nothing is ever old enough (a mutation of MustPrune).
MustPruneNone == {}

MayPrune == {a \in Agent : reg[a] # None /\ reg[a] >= Threshold}
MustPrune == {a \in Agent : reg[a] # None /\ reg[a] > Threshold}

\* History: what requests have read and written of these agents is from before
\* their pruning.
Outdate(gone) ==
  /\ restored' = restored \ gone
  /\ row' = [c \in Client |-> IF row[c] # None /\ row[c].agent \in gone
                            THEN [row[c] EXCEPT !.old = TRUE] ELSE row[c]]

\* The pruned agents keep their status (a mutation of Prune).
PruneKeepsStatus ==
  /\ pruneDue
  /\ pruneDue' = FALSE
  /\ \E gone \in SUBSET MayPrune :
       /\ MustPrune \subseteq gone
       /\ reg' = [a \in Agent |-> IF a \in gone THEN None ELSE reg[a]]
       /\ pruned' = pruned \cup gone
       /\ Outdate(gone)
  /\ UNCHANGED <<agentVars, beats, assigned, status, sub, unassign, list, hubVars, heard, events, missed, skipped, downFor>>

\* PruneStaleRegistrations: one transaction deletes the stale rows and stops
\* their agents.
Prune ==
  /\ pruneDue
  /\ pruneDue' = FALSE
  /\ \E gone \in SUBSET MayPrune :
       /\ MustPrune \subseteq gone
       /\ reg' = [a \in Agent |-> IF a \in gone THEN None ELSE reg[a]]
       /\ status' = [a \in Agent |-> IF a \in gone THEN "stopped" ELSE status[a]]
       /\ pruned' = pruned \cup gone
       /\ Outdate(gone)
  /\ UNCHANGED <<agentVars, beats, assigned, sub, unassign, list, hubVars, heard, events, missed, skipped, downFor>>

\* The transaction fails, and prune returns until its next tick.
PruneFails ==
  /\ pruneDue
  /\ Event("prune")
  /\ pruneDue' = FALSE
  /\ skipped' = skipped + 1
  /\ UNCHANGED <<agentVars, beats, database, sub, pruned, unassign, row, list, hubVars, heard, missed, restored, downFor>>

\* Invalidate, whose error is only logged.
Invalidate ==
  \/ list' = None /\ NoEvent
  \/ Event("cache") /\ UNCHANGED list

\* The rest of prune, for one of the deleted registrations.
Evict(a) ==
  /\ a \in pruned
  /\ pruned' = pruned \ {a}
  /\ Invalidate
  /\ UNCHANGED <<agentVars, beats, database, sub, pruneDue, unassign, row, hubVars, heard, history>>

-----------------------------------------------------------------------------
(* The keeper: AgentService.Assign and Unassign, as far as they touch the  *)
(* registry.                                                               *)

Assign(a) ==
  /\ ~assigned[a] /\ unassign[a] = "idle"
  /\ Event("assign")
  /\ assigned' = [assigned EXCEPT ![a] = TRUE]
  /\ status' = [status EXCEPT ![a] = "pending"]
  /\ UNCHANGED <<agentVars, beats, reg, keeperVars, list, hubVars, heard, history>>

\* UnassignFromCommunity, or nothing if the agent is unassigned already and
\* its deployment still there (the reconciling branch).
UnassignAgent(a) ==
  /\ unassign[a] = "idle"
  /\ Event("unassign")
  /\ assigned' = [assigned EXCEPT ![a] = FALSE]
  /\ status' = [status EXCEPT ![a] = IF assigned[a] THEN "defined" ELSE @]
  /\ unassign' = [unassign EXCEPT ![a] = "delete"]
  /\ UNCHANGED <<agentVars, beats, reg, sub, pruneDue, pruned, row, list, hubVars, heard, history>>

\* DeleteRegistration, a statement of its own; its error ends the call.
DeleteRegistration(a) ==
  /\ unassign[a] = "delete"
  /\ \/ /\ reg' = [reg EXCEPT ![a] = None]
        /\ unassign' = [unassign EXCEPT ![a] = "invalidate"]
        /\ NoEvent
     \/ /\ Event("delete")
        /\ unassign' = [unassign EXCEPT ![a] = "idle"]
        /\ UNCHANGED reg
  /\ UNCHANGED <<agentVars, beats, assigned, status, sub, pruneDue, pruned, row, list, hubVars, heard, history>>

InvalidateList(a) ==
  /\ unassign[a] = "invalidate"
  /\ unassign' = [unassign EXCEPT ![a] = "idle"]
  /\ Invalidate
  /\ UNCHANGED <<agentVars, beats, database, sub, pruneDue, pruned, row, hubVars, heard, history>>

-----------------------------------------------------------------------------
(* The keeper: requests that read an agent, work on their copy and write   *)
(* the whole row back (AgentRepository.Update), with its status and its    *)
(* community: edits of the agent, of its prompts and collections           *)
(* (AgentService), DeployAgent, UndeployAgent, GetAgentStatus and the      *)
(* reconciling branch of Assign.  They take no lock, and any time may pass *)
(* in between.                                                             *)

ReadRow(c, a) ==
  /\ row[c] = None
  /\ Event("write")
  /\ row' = [row EXCEPT ![c] = [agent |-> a, status |-> status[a],
                               assigned |-> assigned[a], old |-> a \in restored]]
  /\ UNCHANGED <<agentVars, beats, database, sub, pruneDue, pruned, unassign, list, hubVars, heard, history>>

\* An edit writes the status that it read; the others write pending, stopped,
\* or the phase that the cluster reports.  Or the request fails before.
WriteRow(c) ==
  /\ row[c] # None
  /\ row' = [row EXCEPT ![c] = None]
  /\ NoEvent
  /\ \/ UNCHANGED <<assigned, status, restored>>
     \/ \E s \in {row[c].status, "pending", "running", "stopped", "error"} :
          LET agent == row[c].agent IN
          /\ status' = [status EXCEPT ![agent] = s]
          /\ assigned' = [assigned EXCEPT ![agent] = row[c].assigned]
          /\ restored' = IF s = "running" /\ (row[c].old \/ row[c].status # s)
                         THEN restored \cup {agent} ELSE restored \ {agent}
  /\ UNCHANGED <<agentVars, beats, reg, sub, pruneDue, pruned, unassign, list, hubVars, heard, missed, skipped, downFor>>

-----------------------------------------------------------------------------
(* The keeper: RegistryHandler.                                            *)

Registered == {a \in Agent : reg[a] # None}

\* handleRequest, on a hit of the cache.
AnswerFromCache(h) ==
  /\ request[h] = "sent"
  /\ list # None
  /\ reply' = [reply EXCEPT ![h] = list.cards]
  /\ request' = [request EXCEPT ![h] = "answered"]
  /\ UNCHANGED <<agentVars, beats, database, keeperVars, list, cards, fetched, heard, events, history>>

\* On a miss, or an error of the cache, the rows are read ...
ReadRegistrations(h) ==
  /\ request[h] = "sent"
  /\ IF list = None THEN NoEvent ELSE Event("cache")
  /\ reply' = [reply EXCEPT ![h] = Registered]
  /\ request' = [request EXCEPT ![h] = "read"]
  /\ UNCHANGED <<agentVars, beats, database, keeperVars, list, cards, fetched, heard, history>>

\* ... and cached, whatever was invalidated in between, and the reply is sent.
FillCache(h) ==
  /\ request[h] = "read"
  /\ \/ list' = [cards |-> reply[h], age |-> 0] /\ NoEvent
     \/ Event("cache") /\ UNCHANGED list
  /\ request' = [request EXCEPT ![h] = "answered"]
  /\ UNCHANGED <<agentVars, beats, database, keeperVars, reply, cards, fetched, heard, history>>

\* The rows cannot be read, and handleRequest returns without a reply; or the
\* request or its reply is lost.
NoReply(h) ==
  /\ request[h] = "sent"
  /\ Event("request")
  /\ request' = [request EXCEPT ![h] = "lost"]
  /\ UNCHANGED <<agentVars, beats, database, keeperVars, list, reply, cards, fetched, heard, history>>

\* No keeper is subscribed, which NATS tells the hub: Refresh returns the error.
NoResponder(h) ==
  /\ request[h] = "sent"
  /\ Event("request")
  /\ request' = [request EXCEPT ![h] = "idle"]
  /\ UNCHANGED <<agentVars, beats, database, keeperVars, list, reply, cards, fetched, heard, history>>

-----------------------------------------------------------------------------
(* The hubs: ClientCache.                                                  *)

\* The cards GetCards returns without a request.
Serves(h) == IF request[h] = "idle" /\ fetched[h] <= Freshness THEN cards[h] ELSE {}

\* GetCards on stale or no cards calls Refresh, which takes the mutex and waits
\* for the reply.  Its throttle of 1 s is rounded up to the tick.
Refresh(h) ==
  /\ request[h] = "idle"
  /\ fetched[h] >= Freshness \/ cards[h] = {}
  /\ fetched[h] > 0
  /\ request' = [request EXCEPT ![h] = "sent"]
  /\ UNCHANGED <<agentVars, beats, database, keeperVars, list, reply, cards, fetched, heard, events, history>>

\* The reply adds to the cards and removes none (a mutation of Refreshed).
RefreshedAdds(h) ==
  /\ request[h] = "answered"
  /\ cards' = [cards EXCEPT ![h] = @ \cup reply[h]]
  /\ fetched' = [fetched EXCEPT ![h] = 0]
  /\ request' = [request EXCEPT ![h] = "idle"]
  /\ reply' = [reply EXCEPT ![h] = {}]
  /\ UNCHANGED <<agentVars, beats, database, keeperVars, list, heard, events, history>>

\* The reply replaces the cards.
Refreshed(h) ==
  /\ request[h] = "answered"
  /\ cards' = [cards EXCEPT ![h] = reply[h]]
  /\ fetched' = [fetched EXCEPT ![h] = 0]
  /\ request' = [request EXCEPT ![h] = "idle"]
  /\ reply' = [reply EXCEPT ![h] = {}]
  /\ UNCHANGED <<agentVars, beats, database, keeperVars, list, heard, events, history>>

\* Only the cards of known agents are updated (a mutation of HearHeartbeat).
HearHeartbeatKnown(h) ==
  /\ request[h] = "idle"
  /\ \E a \in heard[h] : heard' = [heard EXCEPT ![h] = @ \ {a}]
  /\ UNCHANGED <<agentVars, beats, database, keeperVars, list, hubVars, events, history>>

\* handleHeartbeatMsg, which waits for the mutex while a Refresh holds it.
HearHeartbeat(h) ==
  /\ request[h] = "idle"
  /\ \E a \in heard[h] :
       /\ cards' = [cards EXCEPT ![h] = @ \cup {a}]
       /\ heard' = [heard EXCEPT ![h] = @ \ {a}]
  /\ UNCHANGED <<agentVars, beats, database, keeperVars, list, request, reply, fetched, events, history>>

-----------------------------------------------------------------------------
\* The entry's time to live is over.
ListExpires ==
  /\ list # None /\ list.age = CacheTTL
  /\ list' = None
  /\ UNCHANGED <<agentVars, beats, database, keeperVars, hubVars, heard, events, history>>

\* What was sent and called in this tick is done.  A hub that waits for a lost
\* reply stays behind.
Settled ==
  /\ \A a \in Agent : ~due[a] /\ unassign[a] = "idle"
  /\ beats = {} /\ sub = None /\ ~pruneDue /\ pruned = {}
  /\ \A h \in Hub : request[h] = "lost" \/ (request[h] = "idle" /\ heard[h] = {})

Tick ==
  /\ Settled
  /\ due' = up
  /\ pruneDue' = TRUE
  /\ reg' = [a \in Agent |-> IF reg[a] = None THEN None ELSE reg[a] + 1]
  /\ list' = IF list = None \/ list.age = CacheTTL THEN None ELSE [list EXCEPT !.age = @ + 1]
  /\ fetched' = [h \in Hub |-> UpTo(fetched[h], Never)]
  /\ missed' = [a \in Agent |-> IF up[a] THEN missed[a] ELSE UpTo(missed[a], Threshold)]
  /\ downFor' = [a \in Agent |-> IF up[a] THEN 0 ELSE UpTo(downFor[a], LongDown)]
  /\ UNCHANGED <<up, skipped, beats, assigned, status, sub, pruned, unassign, row, request, reply, cards, heard, restored, events>>

Keeper == (\E a \in Agent : Register(a)) \/ UpdateStatus
Handler(h) == AnswerFromCache(h) \/ ReadRegistrations(h) \/ FillCache(h) \/ NoReply(h) \/ NoResponder(h) \/ Refreshed(h)

Next ==
  \/ Tick \/ ListExpires
  \/ Prune \/ PruneFails \/ UpdateStatus
  \/ \E a \in Agent : \/ StopAgent(a) \/ StartAgent(a) \/ Heartbeat(a)
                      \/ Register(a) \/ Evict(a)
  \/ \E a \in Movable : Assign(a) \/ UnassignAgent(a) \/ DeleteRegistration(a) \/ InvalidateList(a)
  \/ \E c \in Client : (\E a \in Agent : ReadRow(c, a)) \/ WriteRow(c)
  \/ \E h \in Hub : Refresh(h) \/ Handler(h) \/ HearHeartbeat(h)

\* Time passes, and what is under way is carried on: the subscriber, the
\* pruner, the handler and the hubs are loops and callbacks that do not stop.
Fairness ==
  /\ WF_vars(Tick)
  /\ WF_vars(Keeper) /\ WF_vars(Prune \/ PruneFails)
  /\ \A a \in Agent : WF_vars(Heartbeat(a)) /\ WF_vars(Evict(a))
  /\ \A a \in Movable : WF_vars(DeleteRegistration(a)) /\ WF_vars(InvalidateList(a))
  /\ \A h \in Hub : WF_vars(Handler(h)) /\ WF_vars(HearHeartbeat(h))

Spec == Init /\ [][Next]_vars

FairSpec == Spec /\ Fairness

-----------------------------------------------------------------------------
TypeOK ==
  /\ up \in [Agent -> BOOLEAN]
  /\ due \in [Agent -> BOOLEAN]
  /\ beats \subseteq Agent
  /\ assigned \in [Agent -> BOOLEAN]
  /\ status \in [Agent -> Status]
  /\ reg \in [Agent -> 0..Threshold + 1 + MaxEvents \cup {None}]
  /\ sub \in Agent \cup {None}
  /\ pruneDue \in BOOLEAN
  /\ pruned \subseteq Agent
  /\ unassign \in [Agent -> {"idle", "delete", "invalidate"}]
  /\ row \in [Client -> Row \cup {None}]
  /\ list \in [cards : SUBSET Agent, age : 0..CacheTTL] \cup {None}
  /\ request \in [Hub -> {"idle", "sent", "read", "answered", "lost"}]
  /\ reply \in [Hub -> SUBSET Agent]
  /\ cards \in [Hub -> SUBSET Agent]
  /\ fetched \in [Hub -> 0..Never]
  /\ heard \in [Hub -> SUBSET Agent]
  /\ events \in 0..MaxEvents
  /\ missed \in [Agent -> 0..Threshold]
  /\ skipped \in 0..MaxEvents
  /\ restored \subseteq Agent
  /\ downFor \in [Agent -> 0..LongDown]

\* An agent that is alive is pruned only after several heartbeats in a row did
\* not register: a lost message, a failed statement or a pruner that runs early
\* in its period does not deregister it (30 s against 10 s in prune and
\* publishHeartbeat).
PruneNeedsSilence ==
  [][\A a \in Agent : a \in pruned' \ pruned => missed[a] >= Threshold - 1]_vars

\* A hub never delegates to an agent that has been dead for longer than the
\* pruner, the keeper's cache and its own take together: whatever the handler
\* read before a deletion and cached after it (prune, handleRequest, GetCards).
StalenessBounded ==
  \A h \in Hub : \A a \in Serves(h) : downFor[a] <= StaleBound

\* The keeper does not report a dead agent as running for longer than it takes
\* to prune it, although the registration and the status are written by
\* separate statements (handleHeartbeat) and edits write back the status they
\* read: unless a request wrote, after the pruning, what it had read before, or
\* what the cluster said (GetAgentStatus).  No later run of the pruner takes
\* that back.  Not so for an agent that is unassigned between the two
\* statements.
DeadIsNotRunning ==
  \A a \in Agent \ Movable :
    downFor[a] > PruneBound /\ status[a] = "running" => a \in restored

\* Once an agent stays up and assigned, its heartbeats repair whatever lost
\* messages, failed statements, interrupted calls and stale copies of its row
\* left behind.
LiveIsRegistered ==
  \A a \in Agent :
    <>[](up[a] /\ assigned[a]) => <>[](reg[a] # None /\ status[a] = "running")

\* A hub that is not stuck in a refresh knows an agent that stays up again and
\* again, although a refresh may take away a card that the keeper's cached
\* list does not have yet.
LiveIsKnown ==
  \A a \in Agent, h \in Hub : <>[](up[a]) => []<>(a \in cards[h] \/ request[h] = "lost")
=============================================================================
