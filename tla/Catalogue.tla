------------------------------ MODULE Catalogue ------------------------------
(***************************************************************************)
(* The catalogue of the Keeper (its HTTP handlers, services and Postgres   *)
(* repositories for LLM bindings, MCP clients, skills, prompt templates,   *)
(* prompt collections, agents and communities), and the editor of the BFF  *)
(* that keeps a whole table in step with a list: AdvancedSync of           *)
(* internal/bff/adapters/inbound/http/configurator_handler.go, through     *)
(* internal/bff/adapters/outbound/keeper_http_client.go.                   *)
(*                                                                         *)
(* One tenant and, in each behaviour, one kind of entry.  A request is cut *)
(* at every statement or transaction of the database and every command of  *)
(* the cache.                                                              *)
(***************************************************************************)
EXTENDS Naturals, Sequences, FiniteSets, Functions

CONSTANTS Kinds,      \* the kinds of entry
          Ids,        \* ids of entries, each given to one entry
          Names,      \* what entries may be called
          Prompts,    \* prompts that agents and collections are linked with
          Values,     \* what an entry can say, beside its name: by kind
          Requests,   \* requests that may be handled at once
          Editor,     \* the one of them that a sync has sent
          MaxEvents,  \* bounds, by kind: requests of others, and failures,
          MaxItems,   \* and items of a sync
          None

ASSUME ConstantsAssumption ==
  /\ Kinds \subseteq {"llm", "mcp", "skill", "prompt", "collection", "agent", "community"}
  /\ \A k \in {"agent", "collection"} \cap Kinds : Values[k] = SUBSET Prompts
  /\ \A k \in Kinds : Values[k] # {}
  /\ Editor \in Requests
  /\ MaxEvents \in [Kinds -> Nat] /\ MaxItems \in [Kinds -> Nat]
  /\ None \notin Ids /\ None \notin Names

VARIABLES kind,      \* the kind of the entries
          rows,      \* the table of that kind
          versions,  \* the table prompt_versions: the texts of each template
          staffed,   \* communities that some agent's row refers to: those with agents assigned
          cached,    \* the cache of the LLM bindings, or of the agents' effective prompts
          request,   \* the local variables of the handlers
          sync,      \* the local variables of AdvancedSync
          events,    \* requests of others, and failures, so far
          gone,      \* history: how each entry was deleted
          raced      \* history: entries whose cache may be stale

tables == <<kind, rows, versions, staffed>>
history == <<gone, raced>>
vars == <<tables, cached, request, sync, events, history>>

\* Entries that are linked with prompts.
Linked == kind \in {"agent", "collection"}
Row(k) == [name : Names, value : Values[k], live : BOOLEAN]
NoRow == [name |-> None]
Wish(k) == [name : Names, value : Values[k]]
Item(k) == [id : Ids \cup {None}, name : Names, value : Values[k]]
\* What a request names: an entry, with a prompt, or with all that it is to say.
Input(k) == [id : Ids] \cup [id : Ids, value : Values[k]] \cup Item(k)

Operations == {"create", "update", "delete", "get", "attach", "detach"}
Idle == [pc |-> "idle"]
Request == {Idle} \cup
  [pc : {"create", "lookup", "fetch", "fill", "write", "commit", "delete", "drop"},
   op : Operations, item : Input(kind), copy : Row(kind) \cup {NoRow}, seen : Nat]

NoSync == [pc |-> "idle", wish |-> {}, todo |-> {}, listed |-> {}, kept |-> {}, disturbed |-> FALSE]

TypeOK ==
  /\ kind \in Kinds
  /\ rows \in [Ids -> Row(kind) \cup {NoRow}]
  /\ versions \in [Ids -> Seq(Values[kind])]
  /\ staffed \subseteq Ids
  /\ cached \in [Ids -> Row(kind) \cup {NoRow}]
  /\ request \in [Requests -> Request]
  /\ sync \in [pc : {"idle", "list", "items", "deletes", "done", "failed"},
               wish : SUBSET Wish(kind), todo : SUBSET Item(kind),
               listed : SUBSET Ids, kept : SUBSET Ids, disturbed : BOOLEAN]
  /\ events \in 0..MaxEvents[kind]
  /\ gone \in [Ids -> {"no", "deleted", "revivable"}]
  /\ raced \subseteq Ids

Exists(i) == rows[i] # NoRow
\* What List returns: no binding that was deleted, which only loses its status.
Listed == {i \in Ids : Exists(i) /\ rows[i].live}
\* The entries that keep others from having the name.
Holders(n) == {i \in Listed : rows[i].name = n}

\* The text of a template is that of its latest version.
Value(i) == IF kind = "prompt" /\ versions[i] # <<>> THEN versions[i][Len(versions[i])]
            ELSE rows[i].value
Current(i) == IF Exists(i) THEN [rows[i] EXCEPT !.value = Value(i)] ELSE NoRow

\* Some entries are there before: which ids they have does not matter.
Init ==
  /\ kind \in Kinds
  /\ \E first \in SUBSET Names :
       LET id == CHOOSE f \in [first -> Ids] : IsInjective(f)
           row(n) == [name |-> n, value |-> CHOOSE v \in Values[kind] : TRUE, live |-> TRUE]
       IN
       /\ rows = [i \in Ids |-> IF \E n \in first : id[n] = i
                                THEN row(CHOOSE n \in first : id[n] = i) ELSE NoRow]
       /\ versions = [i \in Ids |-> IF kind = "prompt" /\ rows[i] # NoRow
                                    THEN <<rows[i].value>> ELSE <<>>]
  /\ staffed \in SUBSET {i \in Ids : kind = "community" /\ rows[i] # NoRow}
  /\ cached = [i \in Ids |-> NoRow]
  /\ request = [r \in Requests |-> Idle]
  /\ sync = NoSync
  /\ events = 0
  /\ gone = [i \in Ids |-> "no"]
  /\ raced = {}

-----------------------------------------------------------------------------
(* Requests, and the answers that the BFF reads                            *)

Event == events < MaxEvents[kind] /\ events' = events + 1
pc(r) == request[r].pc
id(r) == request[r].item.id
Goes(r, place) == request' = [request EXCEPT ![r].pc = place]

First(op) == CASE op = "create" -> "create"
               [] op = "delete" -> "delete"
               [] op = "get" -> "lookup"
               [] OTHER -> IF kind = "llm" THEN "lookup" ELSE "fetch"
Begins(r, op, item) ==
  /\ pc(r) = "idle"
  /\ request' = [request EXCEPT ![r] = [pc |-> First(op), op |-> op, item |-> item,
                                        copy |-> NoRow, seen |-> 0]]

\* Mutant of Decoded: the answers to updates are empty, too.
DecodedNeither(op, ok) == ok /\ op \notin {"create", "update"}
\* The BFF wants a body in the answer to a create, where the Keeper sends none.
Decoded(op, ok) == ok /\ op # "create"

\* Mutant of Answered: errors are ignored, as those of the assignments are.
AnsweredAnyhow(r, ok) ==
  sync' = IF r # Editor THEN sync ELSE [sync EXCEPT !.kept = @ \cup {id(r)}]
\* What AdvancedSync does with an answer: the first error ends it.
Answered(r, ok) ==
  sync' = IF r # Editor THEN sync
          ELSE IF ok THEN [sync EXCEPT !.kept = @ \cup {id(r)}]
          ELSE [sync EXCEPT !.pc = "failed"]

Refused(r) ==
  /\ request' = [request EXCEPT ![r] = Idle]
  /\ Answered(r, FALSE)
\* The answer may come too late, or get lost.
Done(r) ==
  /\ request' = [request EXCEPT ![r] = Idle]
  /\ \/ Answered(r, Decoded(request[r].op, TRUE)) /\ UNCHANGED events
     \/ r = Editor /\ Event /\ Answered(r, FALSE)
Continues(r, place) == Goes(r, place) /\ UNCHANGED <<sync, events>>

-----------------------------------------------------------------------------
(* Statements of the database, and commands of the cache                   *)

Stored(i, row) == rows' = [rows EXCEPT ![i] = row]

\* A new row.  A name is taken once.
Inserts(r) ==
  LET item == request[r].item IN
  /\ pc(r) = "create"
  /\ IF Holders(item.name) = {}
     THEN /\ \E i \in Ids :
               /\ ~Exists(i) /\ gone[i] = "no"
               /\ Stored(i, [name |-> item.name, value |-> item.value, live |-> TRUE])
               /\ versions' = IF kind = "prompt" THEN [versions EXCEPT ![i] = <<item.value>>]
                              ELSE versions
          /\ Done(r)
     ELSE Refused(r) /\ UNCHANGED <<rows, versions, events>>
  /\ UNCHANGED <<kind, staffed, cached, history>>

Fetching(r, op) == pc(r) = "fetch" /\ request[r].op = op

\* A community with agents keeps its topology, which is what it says here.
TopologyKept(r) == id(r) \in staffed => request[r].item.value = rows[id(r)].value

\* The handler's copy of the row.  What an update must not change is compared, and the
\* agents counted, by statements of their own before the one that writes.
Fetches(r, next) ==
  /\ pc(r) = "fetch"
  /\ IF Exists(id(r)) /\ TopologyKept(r)
     THEN /\ request' = [request EXCEPT ![r].pc = next, ![r].copy = Current(id(r))]
          /\ UNCHANGED sync
     ELSE Refused(r)
  /\ UNCHANGED <<tables, cached, events, history>>

\* Mutant of Changed: the list that is asked for becomes an element of the list.
ChangedByAppending(r) ==
  LET copy == request[r].copy value == request[r].item.value IN
  CASE request[r].op = "attach" -> [copy EXCEPT !.value = @ \cup {value}]
    [] request[r].op = "detach" -> [copy EXCEPT !.value = @ \ value]
    [] OTHER -> [copy EXCEPT !.name = request[r].item.name, !.value = value]
\* What the handler makes of its copy.
Changed(r) ==
  LET copy == request[r].copy value == request[r].item.value IN
  CASE request[r].op = "attach" -> [copy EXCEPT !.value = @ \cup value]
    [] request[r].op = "detach" -> [copy EXCEPT !.value = @ \ value]
    [] OTHER -> [copy EXCEPT !.name = request[r].item.name, !.value = value]

\* The whole row is written, with what was not asked to change as it was read.
Writes(r, next) ==
  LET i == id(r) row == Changed(r) IN
  /\ pc(r) = "write"
  /\ IF Exists(i) /\ (row.live => Holders(row.name) \subseteq {i})
     THEN /\ Stored(i, row)
          /\ raced' = raced \cup {id(k) : k \in {k \in Requests : pc(k) = "fill" /\ id(k) = i}}
          /\ IF next = "end" THEN Done(r) ELSE Continues(r, next)
     ELSE Refused(r) /\ UNCHANGED <<rows, raced, events>>
  /\ UNCHANGED <<kind, versions, staffed, cached, gone>>

\* The row goes, with all that refers to it, unless agents do.  Nothing is taken from the cache.
Removes(r) ==
  LET i == id(r) IN
  /\ pc(r) = "delete"
  /\ IF Exists(i) /\ i \notin staffed
     THEN /\ Stored(i, NoRow)
          /\ versions' = [versions EXCEPT ![i] = <<>>]
          /\ gone' = [gone EXCEPT ![i] = "deleted"]
          /\ raced' = raced \cup {i}
          /\ Done(r)
     ELSE Refused(r) /\ UNCHANGED <<rows, versions, history, events>>
  /\ UNCHANGED <<kind, staffed, cached>>

LooksUp(r) ==
  /\ pc(r) = "lookup"
  /\ IF cached[id(r)] = NoRow THEN Continues(r, "fetch")
     ELSE IF request[r].op = "get" THEN Done(r)
     ELSE /\ request' = [request EXCEPT ![r].pc = "write", ![r].copy = cached[id(r)]]
          /\ UNCHANGED <<sync, events>>
  /\ UNCHANGED <<tables, cached, history>>

Fills(r) ==
  /\ pc(r) = "fill"
  /\ cached' = [cached EXCEPT ![id(r)] = request[r].copy]
  /\ IF request[r].op = "get" THEN Done(r) ELSE Continues(r, "write")
  /\ UNCHANGED <<tables, history>>

\* Who may bring a deleted binding back (or already has): whoever has read it before.
Revivable(r) == \E k \in Requests \ {r} : pc(k) \in {"fill", "write"} /\ id(k) = id(r) /\ request[k].copy.live

\* Mutant of Dropped: an entry that was deleted stays in the cache.
DroppedIfWritten(r) ==
  IF request[r].op = "delete" THEN cached ELSE [cached EXCEPT ![id(r)] = NoRow]
\* Mutant of Dropped: an entry that was updated stays in the cache.
DroppedIfDeleted(r) ==
  IF request[r].op = "delete" THEN [cached EXCEPT ![id(r)] = NoRow] ELSE cached
Dropped(r) == [cached EXCEPT ![id(r)] = NoRow]

Drops(r) ==
  LET i == id(r) IN
  /\ pc(r) = "drop"
  /\ cached' = Dropped(r)
  /\ raced' = IF \E k \in Requests : pc(k) = "fill" /\ id(k) = i THEN raced ELSE raced \ {i}
  /\ gone' = IF request[r].op # "delete" THEN gone
             ELSE [gone EXCEPT ![i] = IF Revivable(r) \/ i \in Listed THEN "revivable" ELSE "deleted"]
  /\ Done(r)
  /\ UNCHANGED tables

-----------------------------------------------------------------------------
(* LLM bindings: read through the cache, and deleted by their status       *)

CreateBinding(r) == kind = "llm" /\ Inserts(r)
GetBinding(r) == kind = "llm" /\ LooksUp(r)
FetchBinding(r) == kind = "llm" /\ Fetches(r, "fill")
CacheBinding(r) == kind = "llm" /\ Fills(r)
UpdateBinding(r) == kind = "llm" /\ Writes(r, "drop")
\* A deletion that is repeated succeeds.
DeleteBinding(r) ==
  /\ kind = "llm" /\ pc(r) = "delete"
  /\ IF Exists(id(r))
     THEN Stored(id(r), [rows[id(r)] EXCEPT !.live = FALSE]) /\ Continues(r, "drop")
     ELSE Refused(r) /\ UNCHANGED <<rows, events>>
  /\ raced' = raced \cup {id(k) : k \in {k \in Requests : pc(k) = "fill" /\ id(k) = id(r)}}
  /\ UNCHANGED <<kind, versions, staffed, cached, gone>>
DropBinding(r) == kind = "llm" /\ Drops(r)

-----------------------------------------------------------------------------
(* MCP clients, skills and communities: a row, read and written back       *)

CreateMCPClient(r) == kind = "mcp" /\ Inserts(r)
UpdateMCPClient(r) == kind = "mcp" /\ Fetches(r, "write")
WriteMCPClient(r) == kind = "mcp" /\ Writes(r, "end")
DeleteMCPClient(r) == kind = "mcp" /\ Removes(r)

CreateSkill(r) == kind = "skill" /\ Inserts(r)
UpdateSkill(r) == kind = "skill" /\ Fetches(r, "write")
WriteSkill(r) == kind = "skill" /\ Writes(r, "end")
DeleteSkill(r) == kind = "skill" /\ Removes(r)

CreateCommunity(r) == kind = "community" /\ Inserts(r)
UpdateCommunity(r) == kind = "community" /\ Fetches(r, "write")
WriteCommunity(r) == kind = "community" /\ Writes(r, "end")
DeleteCommunity(r) == kind = "community" /\ Removes(r)

-----------------------------------------------------------------------------
(* Prompt templates: their texts are kept, as versions                     *)

CreateTemplate(r) == kind = "prompt" /\ Inserts(r)
UpdateTemplate(r) == kind = "prompt" /\ Fetches(r, "write")

\* The transaction reads the latest version,
ReadVersion(r) ==
  /\ kind = "prompt" /\ pc(r) = "write"
  /\ IF Exists(id(r))
     THEN /\ request' = [request EXCEPT ![r].pc = "commit", ![r].seen = Len(versions[id(r)])]
          /\ UNCHANGED sync
     ELSE Refused(r)
  /\ UNCHANGED <<tables, cached, events, history>>

NextVersion(i, seen) == seen + 1

\* and writes the row, and a version if the text is another.  A number is given once.
WriteTemplate(r) ==
  LET i == id(r) item == request[r].item seen == request[r].seen IN
  /\ kind = "prompt" /\ pc(r) = "commit"
  /\ LET new == item.value # versions[i][seen] IN
     IF /\ Exists(i) /\ Holders(item.name) \subseteq {i}
        /\ new => NextVersion(i, seen) = Len(versions[i]) + 1
     THEN /\ Stored(i, [rows[i] EXCEPT !.name = item.name])
          /\ versions' = IF new THEN [versions EXCEPT ![i] = Append(@, item.value)] ELSE versions
          /\ Done(r)
     ELSE Refused(r) /\ UNCHANGED <<rows, versions, events>>
  /\ UNCHANGED <<kind, staffed, cached, history>>

DeleteTemplate(r) == kind = "prompt" /\ Removes(r)

-----------------------------------------------------------------------------
(* Collections of prompts: one statement links a prompt                    *)

CreateCollection(r) == kind = "collection" /\ Inserts(r)
UpdateCollection(r) ==
  kind = "collection" /\ Fetching(r, "update") /\ Fetches(r, "write")
WriteCollection(r) == kind = "collection" /\ Writes(r, "end")
DeleteCollection(r) == kind = "collection" /\ Removes(r)

\* A link that is there, or one that is not, is an error.
Links(r, op, value, allowed) ==
  /\ kind = "collection" /\ Fetching(r, op)
  /\ IF Exists(id(r)) /\ allowed
     THEN Stored(id(r), [rows[id(r)] EXCEPT !.value = value]) /\ Done(r)
     ELSE Refused(r) /\ UNCHANGED <<rows, events>>
  /\ UNCHANGED <<kind, versions, staffed, cached, history>>
AddPromptToCollection(r) ==
  LET old == rows[id(r)].value new == request[r].item.value IN
  Links(r, "attach", old \cup new, old \cap new = {})
RemovePromptFromCollection(r) ==
  LET old == rows[id(r)].value prompt == request[r].item.value IN
  Links(r, "detach", old \ prompt, prompt \subseteq old)

-----------------------------------------------------------------------------
(* Agents: their effective prompts are cached                              *)

CreateAgent(r) == kind = "agent" /\ Inserts(r)
UpdateAgent(r) == kind = "agent" /\ Fetching(r, "update") /\ Fetches(r, "write")
\* A prompt that is attached already: nothing is written.
AttachPromptToAgent(r) ==
  /\ kind = "agent" /\ Fetching(r, "attach")
  /\ IF Exists(id(r)) /\ request[r].item.value \subseteq rows[id(r)].value
     THEN Done(r) /\ UNCHANGED <<tables, cached, history>>
     ELSE Fetches(r, "write")
DetachPromptFromAgent(r) == kind = "agent" /\ Fetching(r, "detach") /\ Fetches(r, "write")
WriteAgent(r) == kind = "agent" /\ Writes(r, "drop")
InvalidatePrompts(r) == kind = "agent" /\ Drops(r)
DeleteAgent(r) == kind = "agent" /\ Removes(r)

ResolveEffectivePrompts(r) == kind = "agent" /\ LooksUp(r)
ResolvePrompts(r) == kind = "agent" /\ Fetching(r, "get") /\ Fetches(r, "fill")
CachePrompts(r) == kind = "agent" /\ Fills(r)

-----------------------------------------------------------------------------
(* AdvancedSync                                                            *)

Syncing == sync.pc \in {"items", "deletes"}
\* Operations of others that write.
Writing(op) == op # "get"

\* A user sends the list of entries that there should be, with the ids that they have.
AdvancedSync ==
  /\ sync.pc = "idle"
  /\ \E names \in {S \in SUBSET Names : Cardinality(S) \in 1..MaxItems[kind]} :
     \E value \in [names -> Values[kind]], of \in [names -> {i \in Ids : Exists(i)} \cup {None}] :
       /\ \A n, m \in names : of[n] = of[m] => n = m \/ of[n] = None
       /\ sync' = [sync EXCEPT !.pc = "list",
                               !.wish = {[name |-> n, value |-> value[n]] : n \in names},
                               !.todo = {[id |-> of[n], name |-> n, value |-> value[n]] : n \in names}]
  /\ UNCHANGED <<tables, cached, request, events, history>>

\* The user tries again, with the ids that the entries have now.
Again ==
  /\ sync.pc = "failed" /\ pc(Editor) = "idle"
  /\ LET of(n) == IF Holders(n) = {} THEN None ELSE CHOOSE i \in Holders(n) : TRUE IN
     sync' = [sync EXCEPT !.pc = "list",
                          !.todo = {[id |-> of(w.name), name |-> w.name, value |-> w.value] : w \in sync.wish}]
  /\ UNCHANGED <<tables, cached, request, events, history>>

\* A copy, in the cache or on its way to it, says of a listed binding that it was deleted:
\* a sync that updates the binding by that copy deletes it.
Misread ==
  \E i \in Listed : \/ cached[i] # NoRow /\ ~cached[i].live
                    \/ \E r \in Requests : pc(r) = "fill" /\ id(r) = i /\ ~request[r].copy.live

SyncLists ==
  /\ sync.pc = "list"
  /\ \/ /\ sync' = [sync EXCEPT !.pc = "items", !.listed = Listed, !.kept = {},
                      !.disturbed = \/ Misread
                                    \/ \E r \in Requests : pc(r) # "idle" /\ Writing(request[r].op)]
        /\ UNCHANGED events
     \/ Event /\ sync' = [sync EXCEPT !.pc = "failed"]
  /\ UNCHANGED <<tables, cached, request, history>>

\* The items of the list one after another: an entry that was listed is updated, any
\* other is created.
SyncItem ==
  /\ sync.pc = "items"
  /\ \E item \in sync.todo :
       /\ Begins(Editor, IF item.id \in sync.listed THEN "update" ELSE "create", item)
       /\ sync' = [sync EXCEPT !.todo = @ \ {item}]
  /\ UNCHANGED <<tables, cached, events, history>>

SyncItemsDone ==
  /\ sync.pc = "items" /\ sync.todo = {} /\ pc(Editor) = "idle"
  /\ sync' = [sync EXCEPT !.pc = "deletes"]
  /\ UNCHANGED <<tables, cached, request, events, history>>

\* Then what was listed and is not in the list is deleted.
SyncDelete ==
  /\ sync.pc = "deletes"
  /\ \E i \in sync.listed \ sync.kept : Begins(Editor, "delete", [id |-> i])
  /\ UNCHANGED <<tables, cached, sync, events, history>>

SyncDone ==
  /\ sync.pc = "deletes" /\ sync.listed \subseteq sync.kept /\ pc(Editor) = "idle"
  /\ sync' = [sync EXCEPT !.pc = "done"]
  /\ UNCHANGED <<tables, cached, request, events, history>>

\* The same code for each kind.
SyncAgents == kind = "agent" /\ SyncItem
SyncBindings == kind = "llm" /\ SyncItem
SyncMCPServers == kind = "mcp" /\ SyncItem
SyncSkills == kind = "skill" /\ SyncItem
SyncPrompts == kind = "prompt" /\ SyncItem
\* The assignments of agents, whose errors are ignored, fail: see the README.
SyncCommunities == kind = "community" /\ SyncItem

-----------------------------------------------------------------------------
(* Other requests, failures and time                                       *)

Asks(r, op, item) ==
  /\ r # Editor
  /\ Event
  /\ Begins(r, op, item)
  /\ sync' = [sync EXCEPT !.disturbed = @ \/ (Syncing /\ Writing(op))]
  /\ UNCHANGED <<tables, cached, history>>

Used == {i \in Ids : Exists(i) \/ gone[i] # "no"}
AskCreate(r) == \E n \in Names, v \in Values[kind] : Asks(r, "create", [id |-> None, name |-> n, value |-> v])
AskUpdate(r) ==
  \E i \in Used, n \in Names, v \in Values[kind] : Asks(r, "update", [id |-> i, name |-> n, value |-> v])
AskDelete(r) == \E i \in Used : Asks(r, "delete", [id |-> i])
AskGet(r) == kind \in {"llm", "agent"} /\ \E i \in Used : Asks(r, "get", [id |-> i])
AskLink(r) ==
  /\ Linked
  /\ \E i \in Used, p \in Prompts, op \in {"attach", "detach"} : Asks(r, op, [id |-> i, value |-> {p}])

\* A statement fails and, with it, the request.  Without its cache a service goes on.
Fails(r) ==
  /\ pc(r) # "idle"
  /\ Event
  /\ CASE pc(r) = "lookup" -> Goes(r, "fetch") /\ UNCHANGED <<sync, gone, raced>>
       [] pc(r) = "fill" /\ request[r].op # "get" -> Goes(r, "write") /\ UNCHANGED <<sync, gone, raced>>
       [] pc(r) = "drop" ->
            /\ request' = [request EXCEPT ![r] = Idle]
            /\ Answered(r, Decoded(request[r].op, TRUE))
            /\ raced' = raced \cup {id(r)}
            /\ gone' = IF request[r].op = "delete" THEN [gone EXCEPT ![id(r)] = "revivable"] ELSE gone
       [] OTHER -> Refused(r) /\ UNCHANGED <<gone, raced>>
  /\ UNCHANGED <<tables, cached>>

\* Agents are assigned to a community, or the last of them leaves it.
AgentAssigned(i) ==
  /\ kind = "community" /\ Exists(i)
  /\ Event
  /\ staffed' = staffed \cup {i}
  /\ UNCHANGED <<kind, rows, versions, cached, request, sync, history>>
AgentUnassigned(i) ==
  /\ i \in staffed
  /\ Event
  /\ staffed' = staffed \ {i}
  /\ UNCHANGED <<kind, rows, versions, cached, request, sync, history>>

Expires(i) ==
  /\ cached[i] # NoRow
  /\ cached' = [cached EXCEPT ![i] = NoRow]
  /\ UNCHANGED <<tables, request, sync, events, history>>

-----------------------------------------------------------------------------
StepOfBinding(r) ==
  \/ CreateBinding(r) \/ GetBinding(r) \/ FetchBinding(r) \/ CacheBinding(r)
  \/ UpdateBinding(r) \/ DeleteBinding(r) \/ DropBinding(r)
StepOfRow(r) ==
  \/ CreateMCPClient(r) \/ UpdateMCPClient(r) \/ WriteMCPClient(r) \/ DeleteMCPClient(r)
  \/ CreateSkill(r) \/ UpdateSkill(r) \/ WriteSkill(r) \/ DeleteSkill(r)
  \/ CreateCommunity(r) \/ UpdateCommunity(r) \/ WriteCommunity(r) \/ DeleteCommunity(r)
StepOfPrompt(r) ==
  \/ CreateTemplate(r) \/ UpdateTemplate(r) \/ ReadVersion(r) \/ WriteTemplate(r) \/ DeleteTemplate(r)
  \/ CreateCollection(r) \/ UpdateCollection(r) \/ WriteCollection(r) \/ DeleteCollection(r)
  \/ AddPromptToCollection(r) \/ RemovePromptFromCollection(r)
StepOfAgent(r) ==
  \/ CreateAgent(r) \/ UpdateAgent(r) \/ AttachPromptToAgent(r) \/ DetachPromptFromAgent(r)
  \/ WriteAgent(r) \/ InvalidatePrompts(r) \/ DeleteAgent(r)
  \/ ResolveEffectivePrompts(r) \/ ResolvePrompts(r) \/ CachePrompts(r)
Step(r) == StepOfBinding(r) \/ StepOfRow(r) \/ StepOfPrompt(r) \/ StepOfAgent(r)

SyncStep ==
  \/ SyncLists \/ SyncItemsDone \/ SyncDelete \/ SyncDone
  \/ SyncAgents \/ SyncBindings \/ SyncMCPServers \/ SyncSkills \/ SyncPrompts \/ SyncCommunities

Next ==
  \/ kind # "collection" /\ AdvancedSync
  \/ Again \/ SyncStep
  \/ \E r \in Requests :
       Step(r) \/ Fails(r) \/ AskCreate(r) \/ AskUpdate(r) \/ AskDelete(r) \/ AskGet(r) \/ AskLink(r)
  \/ \E i \in Ids : Expires(i) \/ AgentAssigned(i) \/ AgentUnassigned(i)

\* Every call has a timeout, and the user tries again.
Fairness ==
  /\ \A r \in Requests : WF_vars(Step(r))
  /\ WF_vars(SyncStep)
  /\ WF_vars(Again)

Spec == Init /\ [][Next]_vars /\ Fairness

-----------------------------------------------------------------------------
\* The cache agrees with the table, unless a row was written while it was on its way
\* to the cache, the deletion from the cache failed, or the agent is gone
\* (llm_binding_service.go:42-52 and 72-76, agent_service.go:404-426 and 299-304).
CacheFresh ==
  \A i \in Ids :
    cached[i] # NoRow /\ i \notin raced =>
      \/ cached[i] = rows[i]
      \/ \E r \in Requests : pc(r) = "drop" /\ id(r) = i

\* A binding that was deleted comes back only if an update or the cache had read it
\* before (llm_binding_repository.go:135-160 writes the status that was read).
DeletedStaysDeleted ==
  \A i \in Ids : gone[i] = "deleted" => i \notin Listed

\* A sync that reports success leaves exactly the entries of the list
\* (configurator_handler.go:436-541), unless another request has written meanwhile, or the
\* cache took a listed binding for deleted, whose update then keeps that status
\* (llm_binding_handlers.go:227 reads through the cache, llm_binding_repository.go:142-152
\* writes the status that was read).
SyncExact ==
  [][sync.pc # "done" /\ sync'.pc = "done" /\ ~sync.disturbed
       => {[name |-> rows[i].name, value |-> Value(i)] : i \in Listed} = sync.wish]_vars

\* A community with agents is not what the list says: a sync neither deletes it nor gives
\* it another topology (community_repository.go:176-185, 205-220).
Standing ==
  \E i \in staffed \cap Listed : [name |-> rows[i].name, value |-> Value(i)] \notin sync.wish

\* A user whose sync has failed half-way gets there by trying again, with the ids that
\* the entries have by then, unless from some time on agents keep a community other than
\* the list says: nothing else that the attempts leave behind stands in the way.
SyncConverges == []<>~Standing => ((sync.pc = "list") ~> (sync.pc = "done"))
=============================================================================
