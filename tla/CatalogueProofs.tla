---------------------------- MODULE CatalogueProofs ----------------------------
(***************************************************************************)
(* The safety of Catalogue for any entries, names, requests and failures:  *)
(* what is cached is what the table says, what was deleted comes back only *)
(* through a request that had read it before, and a sync that nobody       *)
(* disturbs and that reports success leaves what it was given.             *)
(***************************************************************************)
EXTENDS Catalogue, TLAPS

USE ConstantsAssumption

\* The kinds that have a cache.
Cached == {"llm", "agent"}
Places == {"create", "lookup", "fetch", "fill", "write", "commit", "delete", "drop"}

\* What a request names, by what it asks for, and where it can be.
Asked(q) ==
  /\ q.op \in {"create", "update"} => q.item \in Item(kind)
  /\ q.op \in {"attach", "detach"} => Linked /\ q.item \in [id : Ids, value : Values[kind]]
  /\ q.op # "create" => q.item.id \in Ids
  /\ q.op = "get" => kind \in Cached

Sited(q) ==
  /\ q.pc = "create" <=> q.op = "create"
  /\ q.op = "delete" => q.pc \in {"delete", "drop"}
  /\ q.pc \in {"fill", "write", "commit"} => q.copy \in Row(kind)
  /\ q.pc \in {"write", "commit"} => q.op \in {"update", "attach", "detach"}
  /\ q.pc = "delete" => q.op = "delete"
  /\ q.pc \in {"lookup", "fill", "drop"} => kind \in Cached
  /\ q.pc = "drop" /\ q.op = "delete" => kind = "llm"

Good(q) == q \in Request /\ (q # Idle => Asked(q) /\ Sited(q))
Shape == \A r \in Requests : Good(request[r])

\* TypeOK without the communities that have agents, which nothing here depends on.
EntryTypes ==
  /\ kind \in Kinds
  /\ rows \in [Ids -> Row(kind) \cup {NoRow}]
  /\ versions \in [Ids -> Seq(Values[kind])]
  /\ cached \in [Ids -> Row(kind) \cup {NoRow}]
  /\ request \in [Requests -> Request]
  /\ sync \in [pc : {"idle", "list", "items", "deletes", "done", "failed"},
               wish : SUBSET Wish(kind), todo : SUBSET Item(kind),
               listed : SUBSET Ids, kept : SUBSET Ids, disturbed : BOOLEAN]
  /\ events \in 0..MaxEvents[kind]
  /\ gone \in [Ids -> {"no", "deleted", "revivable"}]
  /\ raced \subseteq Ids
Types == EntryTypes /\ Shape

\* The parts of EntryTypes.
TableTypes ==
  /\ kind \in Kinds
  /\ rows \in [Ids -> Row(kind) \cup {NoRow}]
  /\ versions \in [Ids -> Seq(Values[kind])]
RequestTypes == request \in [Requests -> Request] /\ Shape
SyncTypes ==
  sync \in [pc : {"idle", "list", "items", "deletes", "done", "failed"},
            wish : SUBSET Wish(kind), todo : SUBSET Item(kind),
            listed : SUBSET Ids, kept : SUBSET Ids, disturbed : BOOLEAN]
CacheTypes == cached \in [Ids -> Row(kind) \cup {NoRow}]
OtherTypes ==
  /\ events \in 0..MaxEvents[kind]
  /\ gone \in [Ids -> {"no", "deleted", "revivable"}]
  /\ raced \subseteq Ids

LEMMA TypesSplit ==
  /\ Types <=> TableTypes /\ RequestTypes /\ SyncTypes /\ CacheTypes /\ OtherTypes
  /\ Types' <=> TableTypes' /\ RequestTypes' /\ SyncTypes' /\ CacheTypes' /\ OtherTypes'
BY DEF Types, EntryTypes, TableTypes, RequestTypes, SyncTypes, CacheTypes, OtherTypes

-----------------------------------------------------------------------------
LEMMA IdleGood == Good(Idle)
BY DEF Good, Request

\* A request that is under way has all its fields.
FullRequest == [pc : Places, op : Operations, item : Input(kind), copy : Row(kind) \cup {NoRow}, seen : Nat]

LEMMA BusyIsFull ==
  ASSUME Types, NEW r \in Requests, pc(r) # "idle"
  PROVE  request[r] \in FullRequest /\ request[r] # Idle /\ Asked(request[r]) /\ Sited(request[r])
BY DEF Types, EntryTypes, Shape, Good, Request, FullRequest, Places, Idle, pc

LEMMA FullIsGood ==
  ASSUME NEW q \in FullRequest, Asked(q), Sited(q)
  PROVE  Good(q) /\ q # Idle
BY DEF FullRequest, Good, Request, Places, Idle

\* A request that goes to another place, with what it has or with another copy or version.
LEMMA Goes1 ==
  ASSUME NEW q \in FullRequest, Asked(q), NEW p \in Places, Sited([q EXCEPT !.pc = p])
  PROVE  Good([q EXCEPT !.pc = p])
<1>1. [q EXCEPT !.pc = p] \in FullRequest /\ Asked([q EXCEPT !.pc = p])
  BY DEF FullRequest, Asked
<1> QED
  BY <1>1, FullIsGood

LEMMA Goes2 ==
  ASSUME NEW q \in FullRequest, Asked(q), NEW p \in Places, NEW c \in Row(kind) \cup {NoRow},
         Sited([q EXCEPT !.pc = p, !.copy = c])
  PROVE  Good([q EXCEPT !.pc = p, !.copy = c])
<1>1. [q EXCEPT !.pc = p, !.copy = c] \in FullRequest /\ Asked([q EXCEPT !.pc = p, !.copy = c])
  BY DEF FullRequest, Asked
<1> QED
  BY <1>1, FullIsGood

LEMMA Goes3 ==
  ASSUME NEW q \in FullRequest, Asked(q), NEW p \in Places, NEW n \in Nat,
         Sited([q EXCEPT !.pc = p, !.seen = n])
  PROVE  Good([q EXCEPT !.pc = p, !.seen = n])
<1>1. [q EXCEPT !.pc = p, !.seen = n] \in FullRequest /\ Asked([q EXCEPT !.pc = p, !.seen = n])
  BY DEF FullRequest, Asked
<1> QED
  BY <1>1, FullIsGood

LEMMA RequestChange ==
  ASSUME RequestTypes, NEW r \in Requests, NEW q, Good(q), request' = [request EXCEPT ![r] = q], kind' = kind
  PROVE  RequestTypes'
<1>1. q \in Request /\ Request' = Request
  BY DEF Good, Request, Input, Item, Row
<1>2. \A x \in Requests : request'[x] = IF x = r THEN q ELSE request[x]
  BY DEF RequestTypes
<1>3. \A x \in Requests : Good(request'[x])
  BY <1>2 DEF RequestTypes, Shape
<1>4. Shape'
  <2>1. ASSUME NEW x \in Requests PROVE Good(request[x])'
    BY <1>1, <1>3 DEF Good, Asked, Sited, Linked, Item, Row
  <2> QED
    BY <2>1 DEF Shape
<1>5. request' \in [Requests -> Request']
  BY <1>1, <1>2 DEF RequestTypes
<1> QED
  BY <1>4, <1>5 DEF RequestTypes

LEMMA Single == ASSUME NEW S, NEW v \in S PROVE <<v>> \in Seq(S)
OBVIOUS

LEMMA AnsweredTypes ==
  ASSUME Types, NEW r \in Requests, NEW ok \in BOOLEAN, Answered(r, ok), ok => id(r) \in Ids, kind' = kind
  PROVE  SyncTypes'
<1>1. SyncTypes
  BY TypesSplit
<1>2. sync' \in {sync, [sync EXCEPT !.pc = "failed"]} \/ (ok /\ sync' = [sync EXCEPT !.kept = @ \cup {id(r)}])
  BY DEF Answered
<1>3. ASSUME ok, sync' = [sync EXCEPT !.kept = @ \cup {id(r)}] PROVE SyncTypes'
  BY <1>1, <1>3 DEF SyncTypes, Wish, Item
<1> QED
  BY <1>1, <1>2, <1>3 DEF SyncTypes, Wish, Item

LEMMA RefusedTypes ==
  ASSUME Types, NEW r \in Requests, Refused(r), kind' = kind
  PROVE  RequestTypes' /\ SyncTypes'
BY TypesSplit, IdleGood, RequestChange, AnsweredTypes DEF Refused

LEMMA EventTypes == ASSUME Types, Event, kind' = kind PROVE events' \in 0..MaxEvents[kind]'
<1>1. MaxEvents[kind] \in Nat
  BY DEF Types, EntryTypes
<1> QED
  BY <1>1 DEF Types, EntryTypes, Event

LEMMA DoneTypes ==
  ASSUME Types, NEW r \in Requests, pc(r) # "idle", Done(r), kind' = kind
  PROVE  RequestTypes' /\ SyncTypes' /\ events' \in 0..MaxEvents[kind]'
<1>1. PICK ok \in BOOLEAN : Answered(r, ok) /\ (ok => request[r].op # "create")
  BY DEF Done, Decoded
<1>2. ok => id(r) \in Ids
  BY <1>1, BusyIsFull DEF Asked, id
<1>3. RequestTypes'
  BY TypesSplit, IdleGood, RequestChange DEF Done
<1>4. events' \in 0..MaxEvents[kind]'
  BY EventTypes DEF Done, Types, EntryTypes
<1> QED
  BY <1>1, <1>2, <1>3, <1>4, AnsweredTypes

\* A request that goes to another place and changes nothing else of itself.
LEMMA ContinuesTypes ==
  ASSUME Types, NEW r \in Requests, NEW p \in Places, pc(r) # "idle", Goes(r, p), kind' = kind,
         Sited([request[r] EXCEPT !.pc = p])
  PROVE  RequestTypes'
BY TypesSplit, BusyIsFull, Goes1, RequestChange DEF Goes, RequestTypes

LEMMA CurrentType ==
  ASSUME Types, NEW i \in Ids, Exists(i)
  PROVE  Current(i) \in Row(kind) /\ (kind # "prompt" => Current(i) = rows[i]) /\ Current(i).live = rows[i].live
<1>1. rows[i] \in Row(kind) /\ versions[i] \in Seq(Values[kind])
  BY DEF Types, EntryTypes, Exists
<1>2. Value(i) \in Values[kind]
  BY <1>1 DEF Value, Row
<1>3. Current(i) = [rows[i] EXCEPT !.value = Value(i)]
  BY DEF Current
<1> QED
  BY <1>1, <1>2, <1>3 DEF Row, Value

LEMMA ChangedType ==
  ASSUME Types, NEW r \in Requests, pc(r) \in {"write", "commit"}
  PROVE  /\ Changed(r) \in Row(kind) /\ Changed(r).live = request[r].copy.live
         /\ request[r].copy \in Row(kind) /\ id(r) \in Ids
<1>1. /\ request[r] \in FullRequest /\ request[r].copy \in Row(kind) /\ id(r) \in Ids
      /\ request[r].op \in {"update", "attach", "detach"} /\ Asked(request[r])
  BY BusyIsFull DEF Sited, pc, Asked, id
<1>2. CASE request[r].op = "update"
  <2>1. request[r].item \in Item(kind)
    BY <1>1, <1>2 DEF Asked
  <2> QED
    BY <1>1, <1>2, <2>1 DEF Changed, Row, Item
<1>3. CASE request[r].op \in {"attach", "detach"}
  <2>1. request[r].item.value \in Values[kind] /\ kind \in {"agent", "collection"} \cap Kinds
    BY <1>1, <1>3 DEF Asked, Linked, Types, EntryTypes
  <2>2. Values[kind] = SUBSET Prompts
    BY <2>1
  <2>3. request[r].copy.value \in SUBSET Prompts /\ request[r].item.value \in SUBSET Prompts
    BY <1>1, <2>1, <2>2 DEF Row
  <2>4. \/ Changed(r) = [request[r].copy EXCEPT !.value = request[r].copy.value \cup request[r].item.value]
        \/ Changed(r) = [request[r].copy EXCEPT !.value = request[r].copy.value \ request[r].item.value]
    BY <1>3 DEF Changed
  <2> QED
    BY <1>1, <2>2, <2>3, <2>4 DEF Row
<1> QED
  BY <1>1, <1>2, <1>3

-----------------------------------------------------------------------------
(* The steps of a request                                                  *)

LEMMA StoredTypes ==
  ASSUME Types, NEW i \in Ids, NEW q \in Row(kind) \cup {NoRow}, Stored(i, q), kind' = kind
  PROVE  rows' \in [Ids -> Row(kind)' \cup {NoRow}]
BY DEF Types, EntryTypes, Stored, Row

LEMMA InsertsTypes == ASSUME Types, NEW r \in Requests, Inserts(r) PROVE Types'
<1>1. /\ pc(r) = "create" /\ request[r].item \in Item(kind) /\ kind' = kind /\ UNCHANGED <<cached, history>>
  BY BusyIsFull DEF Inserts, Sited, Asked, pc
<1>2. CacheTypes' /\ gone' \in [Ids -> {"no", "deleted", "revivable"}] /\ raced' \subseteq Ids
  BY <1>1 DEF Types, EntryTypes, CacheTypes, history, Row
<1>3. CASE Refused(r) /\ UNCHANGED <<rows, versions, events>>
  BY <1>1, <1>2, <1>3, RefusedTypes, TypesSplit DEF TableTypes, OtherTypes, Row
<1>4. CASE /\ \E i \in Ids : /\ Stored(i, [name |-> request[r].item.name, value |-> request[r].item.value, live |-> TRUE])
                             /\ versions' = IF kind = "prompt" THEN [versions EXCEPT ![i] = <<request[r].item.value>>] ELSE versions
           /\ Done(r)
  <2>1. PICK i \in Ids : /\ Stored(i, [name |-> request[r].item.name, value |-> request[r].item.value, live |-> TRUE])
                         /\ versions' = IF kind = "prompt" THEN [versions EXCEPT ![i] = <<request[r].item.value>>] ELSE versions
    BY <1>4
  <2>2. /\ request[r].item.value \in Values[kind]
        /\ [name |-> request[r].item.name, value |-> request[r].item.value, live |-> TRUE] \in Row(kind)
    BY <1>1 DEF Item, Row
  <2>3. <<request[r].item.value>> \in Seq(Values[kind])
    BY <2>2, Single
  <2>4. versions' \in [Ids -> Seq(Values[kind]')]
    BY <1>1, <2>1, <2>3 DEF Types, EntryTypes
  <2>5. TableTypes'
    BY <1>1, <2>1, <2>2, <2>4, StoredTypes, TypesSplit DEF TableTypes
  <2> QED
    BY <1>1, <1>2, <1>4, <2>5, DoneTypes, TypesSplit DEF OtherTypes
<1> QED
  BY <1>3, <1>4 DEF Inserts

LEMMA FetchesTypes ==
  ASSUME Types, NEW r \in Requests, NEW next \in {"fill", "write"}, Fetches(r, next),
         next = "fill" => kind \in Cached, next = "write" => request[r].op \in {"update", "attach", "detach"}
  PROVE  Types'
<1>1. /\ pc(r) = "fetch" /\ request[r] \in FullRequest /\ Asked(request[r]) /\ Sited(request[r]) /\ id(r) \in Ids
      /\ UNCHANGED <<kind, rows, versions, cached, events, gone, raced>>
  BY BusyIsFull DEF Fetches, Sited, Asked, pc, id, tables, history
<1>2. TableTypes' /\ CacheTypes' /\ OtherTypes'
  BY <1>1, TypesSplit DEF TableTypes, CacheTypes, OtherTypes, Row
<1>3. CASE Refused(r)
  BY <1>1, <1>2, <1>3, RefusedTypes, TypesSplit
<1>4. CASE Exists(id(r)) /\ request' = [request EXCEPT ![r].pc = next, ![r].copy = Current(id(r))] /\ UNCHANGED sync
  <2> DEFINE copy == Current(id(r))
             q == [request[r] EXCEPT !.pc = next, !.copy = copy]
  <2>1. copy \in Row(kind)
    BY <1>1, <1>4, CurrentType
  <2>2. request' = [request EXCEPT ![r] = q]
    BY <1>4 DEF Types, EntryTypes
  <2> HIDE DEF copy
  <2>3. q.pc = next /\ q.copy = copy /\ q.op = request[r].op
    BY <1>1 DEF FullRequest
  <2>4. Sited(q)
    <3> HIDE DEF q
    <3> QED
      BY <1>1, <2>1, <2>3 DEF Sited, pc
  <2>5. Good(q)
    BY <1>1, <2>1, <2>4, Goes2 DEF Places
  <2> HIDE DEF q
  <2> QED
    BY <1>1, <1>2, <1>4, <2>2, <2>5, RequestChange, TypesSplit DEF SyncTypes, Wish, Item
<1> QED
  BY <1>3, <1>4 DEF Fetches
LEMMA WritesTypes ==
  ASSUME Types, NEW r \in Requests, NEW next \in {"end", "drop"}, Writes(r, next), next = "drop" => kind \in Cached
  PROVE  Types'
<1>1. /\ pc(r) = "write" /\ request[r] \in FullRequest /\ Asked(request[r]) /\ Sited(request[r]) /\ id(r) \in Ids
      /\ Changed(r) \in Row(kind) /\ kind' = kind /\ versions' = versions /\ cached' = cached /\ gone' = gone
  BY BusyIsFull, ChangedType DEF Writes, pc
<1>2. CacheTypes' /\ gone' \in [Ids -> {"no", "deleted", "revivable"}]
  BY <1>1, TypesSplit DEF CacheTypes, OtherTypes, Row
<1>3. CASE Refused(r) /\ UNCHANGED <<rows, raced, events>>
  BY <1>1, <1>2, <1>3, RefusedTypes, TypesSplit DEF TableTypes, OtherTypes, Row
<1>4. CASE /\ Stored(id(r), Changed(r))
           /\ raced' = raced \cup {id(k) : k \in {k \in Requests : pc(k) = "fill" /\ id(k) = id(r)}}
           /\ IF next = "end" THEN Done(r) ELSE Continues(r, next)
  <2>1. raced' \subseteq Ids
    BY <1>1, <1>4, TypesSplit DEF OtherTypes
  <2>2. TableTypes'
    BY <1>1, <1>4, StoredTypes, TypesSplit DEF TableTypes
  <2>3. CASE Done(r)
    BY <1>1, <1>2, <2>1, <2>2, <2>3, DoneTypes, TypesSplit DEF OtherTypes
  <2>4. CASE next = "drop" /\ Goes(r, "drop") /\ UNCHANGED <<sync, events>>
    <3>1. Sited([request[r] EXCEPT !.pc = "drop"])
      BY <1>1, <2>4 DEF Sited, FullRequest, pc
    <3>2. RequestTypes'
      BY <1>1, <2>4, <3>1, ContinuesTypes DEF Places
    <3> QED
      BY <1>1, <1>2, <2>1, <2>2, <2>4, <3>2, TypesSplit DEF OtherTypes, SyncTypes, Wish, Item
  <2> QED
    BY <1>4, <2>3, <2>4 DEF Continues
<1> QED
  BY <1>3, <1>4 DEF Writes

LEMMA RemovesTypes == ASSUME Types, NEW r \in Requests, Removes(r) PROVE Types'
<1>1. pc(r) = "delete" /\ id(r) \in Ids /\ UNCHANGED <<kind, cached>>
  BY BusyIsFull DEF Removes, Sited, Asked, pc, id
<1>2. CacheTypes'
  BY <1>1, TypesSplit DEF CacheTypes, Row
<1>3. CASE Refused(r) /\ UNCHANGED <<rows, versions, history, events>>
  BY <1>1, <1>2, <1>3, RefusedTypes, TypesSplit DEF TableTypes, OtherTypes, Row, history
<1>4. CASE /\ Stored(id(r), NoRow) /\ versions' = [versions EXCEPT ![id(r)] = <<>>]
           /\ gone' = [gone EXCEPT ![id(r)] = "deleted"] /\ raced' = raced \cup {id(r)} /\ Done(r)
  <2>1. raced' \subseteq Ids /\ gone' \in [Ids -> {"no", "deleted", "revivable"}]
    BY <1>1, <1>4, TypesSplit DEF OtherTypes
  <2>2. versions' \in [Ids -> Seq(Values[kind])]
    <3>1. <<>> \in Seq(Values[kind])
      OBVIOUS
    <3> QED
      BY <1>1, <1>4, <3>1, TypesSplit DEF TableTypes
  <2>3. TableTypes'
    BY <1>1, <1>4, <2>2, StoredTypes, TypesSplit DEF TableTypes
  <2> QED
    BY <1>1, <1>2, <1>4, <2>1, <2>3, DoneTypes, TypesSplit DEF OtherTypes
<1> QED
  BY <1>3, <1>4 DEF Removes

LEMMA LooksUpTypes == ASSUME Types, NEW r \in Requests, LooksUp(r) PROVE Types'
<1>1. /\ pc(r) = "lookup" /\ request[r] \in FullRequest /\ Asked(request[r]) /\ Sited(request[r]) /\ id(r) \in Ids
      /\ UNCHANGED <<kind, rows, versions, cached, gone, raced>>
  BY BusyIsFull DEF LooksUp, Sited, Asked, pc, id, tables, history
<1>2. TableTypes' /\ CacheTypes' /\ gone' \in [Ids -> {"no", "deleted", "revivable"}] /\ raced' \subseteq Ids
  BY <1>1, TypesSplit DEF TableTypes, CacheTypes, OtherTypes, Row
<1>3. CASE Continues(r, "fetch")
  <2>1. Sited([request[r] EXCEPT !.pc = "fetch"])
    BY <1>1 DEF Sited, FullRequest, pc
  <2>2. RequestTypes'
    BY <1>1, <1>3, <2>1, ContinuesTypes DEF Places, Continues
  <2> QED
    BY <1>1, <1>2, <1>3, <2>2, TypesSplit DEF OtherTypes, SyncTypes, Wish, Item, Continues
<1>4. CASE Done(r)
  BY <1>1, <1>2, <1>4, DoneTypes, TypesSplit DEF OtherTypes
<1>5. CASE /\ request' = [request EXCEPT ![r].pc = "write", ![r].copy = cached[id(r)]] /\ UNCHANGED <<sync, events>>
           /\ cached[id(r)] # NoRow /\ request[r].op # "get"
  <2> DEFINE copy == cached[id(r)]
             q == [request[r] EXCEPT !.pc = "write", !.copy = copy]
  <2>1. copy \in Row(kind)
    BY <1>1, <1>5, TypesSplit DEF CacheTypes
  <2>2. request' = [request EXCEPT ![r] = q]
    BY <1>5 DEF Types, EntryTypes
  <2> HIDE DEF copy
  <2>3. q.pc = "write" /\ q.copy = copy /\ q.op = request[r].op
    BY <1>1 DEF FullRequest
  <2>4. Sited(q)
    <3>1. request[r].op \in {"update", "attach", "detach"}
      BY <1>1, <1>5 DEF Sited, FullRequest, Operations, pc
    <3> HIDE DEF q
    <3> QED
      BY <1>1, <2>1, <2>3, <3>1 DEF Sited, pc
  <2>5. Good(q)
    BY <1>1, <2>1, <2>4, Goes2 DEF Places
  <2> HIDE DEF q
  <2> QED
    BY <1>1, <1>2, <1>5, <2>2, <2>5, RequestChange, TypesSplit DEF SyncTypes, Wish, Item, OtherTypes
<1> QED
  BY <1>3, <1>4, <1>5 DEF LooksUp

LEMMA FillsTypes == ASSUME Types, NEW r \in Requests, Fills(r) PROVE Types'
<1>1. /\ pc(r) = "fill" /\ request[r] \in FullRequest /\ Asked(request[r]) /\ Sited(request[r]) /\ id(r) \in Ids
      /\ UNCHANGED <<kind, rows, versions, gone, raced>> /\ cached' = [cached EXCEPT ![id(r)] = request[r].copy]
  BY BusyIsFull DEF Fills, Sited, Asked, pc, id, tables, history
<1>2. TableTypes' /\ CacheTypes' /\ gone' \in [Ids -> {"no", "deleted", "revivable"}] /\ raced' \subseteq Ids
  BY <1>1, TypesSplit DEF TableTypes, CacheTypes, OtherTypes, Row, Sited, pc
<1>3. CASE Done(r)
  BY <1>1, <1>2, <1>3, DoneTypes, TypesSplit DEF OtherTypes
<1>4. CASE Continues(r, "write") /\ request[r].op # "get"
  <2>1. Sited([request[r] EXCEPT !.pc = "write"])
    BY <1>1, <1>4 DEF Sited, FullRequest, Operations, pc
  <2>2. RequestTypes'
    BY <1>1, <1>4, <2>1, ContinuesTypes DEF Places, Continues
  <2> QED
    BY <1>1, <1>2, <1>4, <2>2, TypesSplit DEF OtherTypes, SyncTypes, Wish, Item, Continues
<1> QED
  BY <1>3, <1>4 DEF Fills

LEMMA DropsTypes == ASSUME Types, NEW r \in Requests, Drops(r) PROVE Types'
<1>1. pc(r) = "drop" /\ id(r) \in Ids /\ UNCHANGED <<kind, rows, versions>> /\ Done(r)
  BY BusyIsFull DEF Drops, Sited, Asked, pc, id, tables
<1>2. TableTypes' /\ CacheTypes'
  BY <1>1, TypesSplit DEF TableTypes, CacheTypes, Row, Drops, Dropped
<1>3. gone' \in [Ids -> {"no", "deleted", "revivable"}] /\ raced' \subseteq Ids
  BY <1>1, TypesSplit DEF OtherTypes, Drops
<1> QED
  BY <1>1, <1>2, <1>3, DoneTypes, TypesSplit DEF OtherTypes

LEMMA DeleteBindingTypes == ASSUME Types, NEW r \in Requests, DeleteBinding(r) PROVE Types'
<1>1. /\ pc(r) = "delete" /\ request[r] \in FullRequest /\ Asked(request[r]) /\ Sited(request[r]) /\ id(r) \in Ids
      /\ UNCHANGED <<kind, versions, cached, gone>> /\ kind = "llm"
  BY BusyIsFull DEF DeleteBinding, Sited, Asked, pc, id
<1>2. CacheTypes' /\ gone' \in [Ids -> {"no", "deleted", "revivable"}] /\ raced' \subseteq Ids
  BY <1>1, TypesSplit DEF CacheTypes, OtherTypes, Row, DeleteBinding
<1>3. CASE Refused(r) /\ UNCHANGED <<rows, events>>
  BY <1>1, <1>2, <1>3, RefusedTypes, TypesSplit DEF TableTypes, OtherTypes, Row
<1>4. CASE Exists(id(r)) /\ Stored(id(r), [rows[id(r)] EXCEPT !.live = FALSE]) /\ Continues(r, "drop")
  <2>1. [rows[id(r)] EXCEPT !.live = FALSE] \in Row(kind)
    <3>1. rows[id(r)] \in Row(kind)
      BY <1>1, <1>4, TypesSplit DEF TableTypes, Exists
    <3> QED
      BY <3>1 DEF Row
  <2>2. TableTypes'
    BY <1>1, <1>4, <2>1, StoredTypes, TypesSplit DEF TableTypes
  <2>3. Sited([request[r] EXCEPT !.pc = "drop"])
    BY <1>1 DEF Sited, FullRequest, pc, Cached
  <2>4. RequestTypes'
    BY <1>1, <1>4, <2>3, ContinuesTypes DEF Places, Continues
  <2> QED
    BY <1>1, <1>2, <1>4, <2>2, <2>4, TypesSplit DEF OtherTypes, SyncTypes, Wish, Item, Continues
<1> QED
  BY <1>3, <1>4 DEF DeleteBinding
LEMMA ReadVersionTypes == ASSUME Types, NEW r \in Requests, ReadVersion(r) PROVE Types'
<1>1. /\ pc(r) = "write" /\ request[r] \in FullRequest /\ Asked(request[r]) /\ Sited(request[r]) /\ id(r) \in Ids
      /\ UNCHANGED <<kind, rows, versions, cached, events, gone, raced>>
  BY BusyIsFull DEF ReadVersion, Sited, Asked, pc, id, tables, history
<1>2. TableTypes' /\ CacheTypes' /\ OtherTypes'
  BY <1>1, TypesSplit DEF TableTypes, CacheTypes, OtherTypes, Row
<1>3. CASE Refused(r)
  BY <1>1, <1>2, <1>3, RefusedTypes, TypesSplit
<1>4. CASE request' = [request EXCEPT ![r].pc = "commit", ![r].seen = Len(versions[id(r)])] /\ UNCHANGED sync
  <2> DEFINE n == Len(versions[id(r)])
             q == [request[r] EXCEPT !.pc = "commit", !.seen = n]
  <2>1. n \in Nat
    BY <1>1, TypesSplit DEF TableTypes
  <2>2. request' = [request EXCEPT ![r] = q]
    BY <1>4 DEF Types, EntryTypes
  <2> HIDE DEF n
  <2>3. q.pc = "commit" /\ q.copy = request[r].copy /\ q.op = request[r].op
    BY <1>1 DEF FullRequest
  <2>4. Sited(q)
    <3> HIDE DEF q
    <3> QED
      BY <1>1, <2>3 DEF Sited, pc
  <2>5. Good(q)
    BY <1>1, <2>1, <2>4, Goes3 DEF Places
  <2> HIDE DEF q
  <2> QED
    BY <1>1, <1>2, <1>4, <2>2, <2>5, RequestChange, TypesSplit DEF SyncTypes, Wish, Item
<1> QED
  BY <1>3, <1>4 DEF ReadVersion

LEMMA Longer == ASSUME NEW S, NEW s \in Seq(S), NEW v \in S PROVE Append(s, v) \in Seq(S)
OBVIOUS

LEMMA WriteTemplateTypes == ASSUME Types, NEW r \in Requests, WriteTemplate(r) PROVE Types'
<1>1. /\ pc(r) = "commit" /\ id(r) \in Ids /\ request[r].item \in Item(kind)
      /\ UNCHANGED <<kind, cached, gone, raced>>
  BY BusyIsFull DEF WriteTemplate, Sited, Asked, Linked, pc, id, history
<1>2. CacheTypes' /\ gone' \in [Ids -> {"no", "deleted", "revivable"}] /\ raced' \subseteq Ids
  BY <1>1, TypesSplit DEF CacheTypes, OtherTypes, Row
<1>3. CASE Refused(r) /\ UNCHANGED <<rows, versions, events>>
  BY <1>1, <1>2, <1>3, RefusedTypes, TypesSplit DEF TableTypes, OtherTypes, Row
<1>4. CASE /\ Exists(id(r)) /\ Stored(id(r), [rows[id(r)] EXCEPT !.name = request[r].item.name]) /\ Done(r)
           /\ versions' \in {versions, [versions EXCEPT ![id(r)] = Append(versions[id(r)], request[r].item.value)]}
  <2>1. [rows[id(r)] EXCEPT !.name = request[r].item.name] \in Row(kind)
    <3>1. rows[id(r)] \in Row(kind) /\ request[r].item.name \in Names
      BY <1>1, <1>4, TypesSplit DEF TableTypes, Exists, Item
    <3> QED
      BY <3>1 DEF Row
  <2>2. Append(versions[id(r)], request[r].item.value) \in Seq(Values[kind])
    <3>1. versions[id(r)] \in Seq(Values[kind]) /\ request[r].item.value \in Values[kind]
      BY <1>1, TypesSplit DEF TableTypes, Item
    <3> QED
      BY <3>1, Longer
  <2>3. versions' \in [Ids -> Seq(Values[kind])]
    <3> DEFINE text == Append(versions[id(r)], request[r].item.value)
    <3>1. versions' = versions \/ versions' = [versions EXCEPT ![id(r)] = text]
      BY <1>4
    <3>2. text \in Seq(Values[kind])
      BY <2>2
    <3> HIDE DEF text
    <3> QED
      BY <1>1, <3>1, <3>2, TypesSplit DEF TableTypes
  <2>4. TableTypes'
    BY <1>1, <1>4, <2>1, <2>3, StoredTypes, TypesSplit DEF TableTypes
  <2> QED
    BY <1>1, <1>2, <1>4, <2>4, DoneTypes, TypesSplit DEF OtherTypes
<1> QED
  BY <1>3, <1>4 DEF WriteTemplate, Types, EntryTypes

LEMMA LinksTypes ==
  ASSUME Types, NEW r \in Requests, AddPromptToCollection(r) \/ RemovePromptFromCollection(r)
  PROVE  Types'
<1> DEFINE old == rows[id(r)].value
           new == request[r].item.value
<1>1. /\ pc(r) = "fetch" /\ id(r) \in Ids /\ kind \in {"agent", "collection"} \cap Kinds
      /\ new \in Values[kind] /\ UNCHANGED <<kind, versions, cached, gone, raced>>
  BY BusyIsFull DEF AddPromptToCollection, RemovePromptFromCollection, Links, Fetching, Asked, pc, id, history,
                    Types, EntryTypes
<1>2. CacheTypes' /\ gone' \in [Ids -> {"no", "deleted", "revivable"}] /\ raced' \subseteq Ids
  BY <1>1, TypesSplit DEF CacheTypes, OtherTypes, Row
<1>3. CASE Refused(r) /\ UNCHANGED <<rows, events>>
  BY <1>1, <1>2, <1>3, RefusedTypes, TypesSplit DEF TableTypes, OtherTypes, Row
<1>4. ASSUME NEW value \in {old \cup new, old \ new},
             Exists(id(r)), Stored(id(r), [rows[id(r)] EXCEPT !.value = value]), Done(r)
      PROVE  Types'
  <2>1. rows[id(r)] \in Row(kind) /\ Values[kind] = SUBSET Prompts
    BY <1>1, <1>4, TypesSplit DEF TableTypes, Exists
  <2>2. value \in Values[kind]
    BY <1>1, <1>4, <2>1 DEF Row
  <2>3. [rows[id(r)] EXCEPT !.value = value] \in Row(kind)
    BY <2>1, <2>2 DEF Row
  <2>4. TableTypes'
    BY <1>1, <1>4, <2>3, StoredTypes, TypesSplit DEF TableTypes
  <2> QED
    BY <1>1, <1>2, <1>4, <2>4, DoneTypes, TypesSplit DEF OtherTypes
<1> QED
  BY <1>3, <1>4 DEF AddPromptToCollection, RemovePromptFromCollection, Links

LEMMA NothingToAttachTypes ==
  ASSUME Types, NEW r \in Requests, pc(r) = "fetch", Done(r), UNCHANGED <<tables, cached, history>>
  PROVE  Types'
<1>1. UNCHANGED <<kind, rows, versions, cached, gone, raced>>
  BY DEF tables, history
<1> QED
  BY <1>1, DoneTypes, TypesSplit DEF TableTypes, CacheTypes, OtherTypes, Row

\* A step is one of these, whatever the kind.
LEMMA StepIs ==
  ASSUME Types, NEW r \in Requests, Step(r)
  PROVE  \/ Inserts(r) \/ Fills(r) \/ Drops(r) \/ DeleteBinding(r) \/ ReadVersion(r) \/ WriteTemplate(r)
         \/ LooksUp(r) /\ kind \in Cached
         \/ Removes(r) /\ kind # "llm"
         \/ Fetches(r, "fill") /\ kind \in Cached
         \/ Fetches(r, "write") /\ request[r].op \in {"update", "attach", "detach"}
         \/ Writes(r, "drop") /\ kind \in Cached
         \/ Writes(r, "end") /\ kind \notin Cached \cup {"prompt"}
         \/ (AddPromptToCollection(r) \/ RemovePromptFromCollection(r)) /\ kind = "collection"
         \/ pc(r) = "fetch" /\ request[r].op = "attach" /\ Done(r) /\ UNCHANGED <<tables, cached, history>>
<1>1. ASSUME kind \notin Cached, Fetches(r, "write") PROVE request[r].op \in {"update", "attach", "detach"}
  <2>1. pc(r) = "fetch" /\ request[r] \in FullRequest /\ Asked(request[r]) /\ Sited(request[r])
    BY <1>1, BusyIsFull DEF Fetches
  <2> QED
    BY <1>1, <2>1 DEF Sited, Asked, FullRequest, Operations, pc
<1>2. CASE StepOfBinding(r)
  BY <1>2 DEF StepOfBinding, CreateBinding, GetBinding, FetchBinding, CacheBinding, UpdateBinding, DropBinding, Cached
<1>3. CASE StepOfRow(r)
  BY <1>1, <1>3 DEF StepOfRow, CreateMCPClient, UpdateMCPClient, WriteMCPClient, DeleteMCPClient, CreateSkill,
     UpdateSkill, WriteSkill, DeleteSkill, CreateCommunity, UpdateCommunity, WriteCommunity, DeleteCommunity, Cached
<1>4. CASE StepOfPrompt(r)
  BY <1>1, <1>4 DEF StepOfPrompt, CreateTemplate, UpdateTemplate, DeleteTemplate, CreateCollection,
     UpdateCollection, WriteCollection, DeleteCollection, AddPromptToCollection, RemovePromptFromCollection, Links, Cached
<1>5. CASE StepOfAgent(r)
  BY <1>5 DEF StepOfAgent, CreateAgent, UpdateAgent, AttachPromptToAgent, DetachPromptFromAgent, WriteAgent,
     InvalidatePrompts, DeleteAgent, ResolveEffectivePrompts, ResolvePrompts, CachePrompts, Fetching, Fetches, Cached
<1> QED
  BY <1>2, <1>3, <1>4, <1>5 DEF Step

LEMMA StepTypes == ASSUME Types, NEW r \in Requests, Step(r) PROVE Types'
BY StepIs, InsertsTypes, FillsTypes, DropsTypes, DeleteBindingTypes, ReadVersionTypes, WriteTemplateTypes,
   LooksUpTypes, RemovesTypes, FetchesTypes, WritesTypes, LinksTypes, NothingToAttachTypes
-----------------------------------------------------------------------------
(* The editor, the other requests, failures                                *)

LEMMA FirstSited ==
  ASSUME kind \in Kinds, NEW op \in Operations, NEW item \in Input(kind),
         LET q == [pc |-> First(op), op |-> op, item |-> item, copy |-> NoRow, seen |-> 0] IN Asked(q)
  PROVE  Good([pc |-> First(op), op |-> op, item |-> item, copy |-> NoRow, seen |-> 0])
<1> DEFINE q == [pc |-> First(op), op |-> op, item |-> item, copy |-> NoRow, seen |-> 0]
<1>1. /\ op = "create" => First(op) = "create"
      /\ op = "delete" => First(op) = "delete"
      /\ op = "get" => First(op) = "lookup"
      /\ op \notin {"create", "delete", "get"} => First(op) \in {"lookup", "fetch"}
      /\ op \notin {"create", "delete", "get"} /\ First(op) = "lookup" => kind = "llm"
  BY DEF First
<1>2. First(op) \in Places
  BY <1>1 DEF Places
<1>3. q \in FullRequest
  BY <1>2 DEF FullRequest
<1>4. Sited(q)
  BY <1>1 DEF Sited, Asked, Cached
<1> QED
  BY <1>3, <1>4, FullIsGood

LEMMA BeginsTypes ==
  ASSUME Types, NEW r \in Requests, NEW op \in Operations, NEW item \in Input(kind), Begins(r, op, item), kind' = kind,
         op \in {"create", "update"} => item \in Item(kind),
         op \in {"attach", "detach"} => Linked /\ item \in [id : Ids, value : Values[kind]],
         op # "create" => item.id \in Ids,
         op = "get" => kind \in Cached
  PROVE  RequestTypes'
<1> DEFINE q == [pc |-> First(op), op |-> op, item |-> item, copy |-> NoRow, seen |-> 0]
<1>1. Asked(q)
  BY DEF Asked
<1>2. Good(q)
  BY <1>1, FirstSited, TypesSplit DEF TableTypes
<1>3. request' = [request EXCEPT ![r] = q]
  BY DEF Begins
<1> HIDE DEF q
<1> QED
  BY <1>2, <1>3, RequestChange, TypesSplit

LEMMA AsksTypes ==
  ASSUME Types, NEW r \in Requests, AskCreate(r) \/ AskUpdate(r) \/ AskDelete(r) \/ AskGet(r) \/ AskLink(r)
  PROVE  Types'
<1>1. ASSUME NEW op \in Operations, NEW item \in Input(kind), Asks(r, op, item),
             op \in {"create", "update"} => item \in Item(kind),
             op \in {"attach", "detach"} => Linked /\ item \in [id : Ids, value : Values[kind]],
             op # "create" => item.id \in Ids,
             op = "get" => kind \in Cached
      PROVE  Types'
  <2>1. UNCHANGED <<kind, rows, versions, cached, gone, raced>>
    BY <1>1 DEF Asks, tables, history
  <2>2. RequestTypes'
    BY <1>1, <2>1, BeginsTypes DEF Asks
  <2>3. events' \in 0..MaxEvents[kind]'
    BY <1>1, <2>1, EventTypes DEF Asks
  <2>4. SyncTypes'
    <3>1. sync' = [sync EXCEPT !.disturbed = @ \/ (Syncing /\ Writing(op))]
      BY <1>1 DEF Asks
    <3>2. (sync.disturbed \/ (Syncing /\ Writing(op))) \in BOOLEAN
      OBVIOUS
    <3>3. PICK b \in BOOLEAN : sync' = [sync EXCEPT !.disturbed = b]
      BY <3>1, <3>2
    <3> QED
      BY <2>1, <3>3, TypesSplit DEF SyncTypes, Wish, Item
  <2> QED
    BY <2>1, <2>2, <2>3, <2>4, TypesSplit DEF TableTypes, CacheTypes, OtherTypes, Row
<1>2. ASSUME NEW n \in Names, NEW v \in Values[kind], NEW i \in Ids \cup {None}
      PROVE  [id |-> i, name |-> n, value |-> v] \in Item(kind) /\ [id |-> i, name |-> n, value |-> v] \in Input(kind)
  BY DEF Item, Input
<1>3. CASE AskCreate(r)
  BY <1>1, <1>2, <1>3 DEF AskCreate, Operations
<1>4. CASE AskUpdate(r)
  BY <1>1, <1>2, <1>4 DEF AskUpdate, Operations, Used
<1>5. CASE AskDelete(r)
  BY <1>1, <1>5 DEF AskDelete, Operations, Used, Input
<1>6. CASE AskGet(r)
  BY <1>1, <1>6 DEF AskGet, Operations, Used, Input, Cached
<1>7. CASE AskLink(r)
  <2>1. PICK i \in Used, p \in Prompts, op \in {"attach", "detach"} : Asks(r, op, [id |-> i, value |-> {p}])
    BY <1>7 DEF AskLink
  <2>2. Linked /\ Values[kind] = SUBSET Prompts
    BY <1>7, TypesSplit DEF AskLink, Linked, TableTypes
  <2>3. {p} \in Values[kind]
    BY <2>2
  <2>4. [id |-> i, value |-> {p}] \in [id : Ids, value : Values[kind]] /\ op \in Operations
    BY <2>3 DEF Used, Operations
  <2>5. [id |-> i, value |-> {p}] \in Input(kind)
    BY <2>4 DEF Input
  <2> QED
    BY <1>1, <2>1, <2>2, <2>4, <2>5
<1> QED
  BY <1>3, <1>4, <1>5, <1>6, <1>7

LEMMA SyncChanges ==
  ASSUME Types, UNCHANGED <<kind, rows, versions, cached, request, events, gone, raced>>, SyncTypes'
  PROVE  Types'
BY TypesSplit DEF TableTypes, RequestTypes, CacheTypes, OtherTypes, Row, Shape, Good, Asked, Sited, Request, Input, Item, Linked

LEMMA SyncItemTypes == ASSUME Types, SyncItem PROVE Types'
<1>1. UNCHANGED <<kind, rows, versions, cached, events, gone, raced>>
  BY DEF SyncItem, tables, history
<1>2. PICK item \in sync.todo :
        /\ Begins(Editor, IF item.id \in sync.listed THEN "update" ELSE "create", item)
        /\ sync' = [sync EXCEPT !.todo = sync.todo \ {item}]
  BY DEF SyncItem
<1>3. item \in Item(kind) /\ item \in Input(kind) /\ sync.listed \subseteq Ids
  BY TypesSplit DEF SyncTypes, Input
<1>4. RequestTypes'
  BY <1>1, <1>2, <1>3, BeginsTypes DEF Operations
<1>5. SyncTypes'
  BY <1>1, <1>2, TypesSplit DEF SyncTypes, Wish, Item
<1> QED
  BY <1>1, <1>4, <1>5, TypesSplit DEF TableTypes, CacheTypes, OtherTypes, Row

LEMMA SyncDeleteTypes == ASSUME Types, SyncDelete PROVE Types'
<1>1. UNCHANGED <<kind, rows, versions, cached, sync, events, gone, raced>>
  BY DEF SyncDelete, tables, history
<1>2. PICK i \in sync.listed : Begins(Editor, "delete", [id |-> i])
  BY DEF SyncDelete
<1>3. i \in Ids /\ [id |-> i] \in Input(kind)
  BY TypesSplit DEF SyncTypes, Input
<1>4. RequestTypes'
  BY <1>1, <1>2, <1>3, BeginsTypes DEF Operations
<1> QED
  BY <1>1, <1>4, TypesSplit DEF TableTypes, CacheTypes, OtherTypes, Row, SyncTypes, Wish, Item

LEMMA SyncStepTypes == ASSUME Types, (kind # "collection" /\ AdvancedSync) \/ Again \/ SyncStep PROVE Types'
<1> USE TypesSplit
<1>2. CASE AdvancedSync
  <2> DEFINE Known == {i \in Ids : Exists(i)} \cup {None}
             Sent(names, value, of) ==
               sync' = [sync EXCEPT !.pc = "list",
                                    !.wish = {[name |-> n, value |-> value[n]] : n \in names},
                                    !.todo = {[id |-> of[n], name |-> n, value |-> value[n]] : n \in names}]
  <2>1. PICK names \in SUBSET Names : \E value \in [names -> Values[kind]], of \in [names -> Known] : Sent(names, value, of)
    <3>1. PICK names \in {S \in SUBSET Names : Cardinality(S) \in 1..MaxItems[kind]} :
            \E value \in [names -> Values[kind]], of \in [names -> Known] :
              /\ \A n, m \in names : of[n] = of[m] => n = m \/ of[n] = None
              /\ Sent(names, value, of)
      BY <1>2, Zenon DEF AdvancedSync
    <3> HIDE DEF Sent, Known
    <3>2. \E value \in [names -> Values[kind]], of \in [names -> Known] : Sent(names, value, of)
      BY <3>1, Zenon
    <3> QED
      BY <3>2
  <2>2. PICK value \in [names -> Values[kind]], of \in [names -> Known] : Sent(names, value, of)
    BY <2>1
  <2>3. {[name |-> n, value |-> value[n]] : n \in names} \in SUBSET Wish(kind)
    BY DEF Wish
  <2>4. {[id |-> of[n], name |-> n, value |-> value[n]] : n \in names} \in SUBSET Item(kind)
    BY DEF Item
  <2>5. PICK wish \in SUBSET Wish(kind), todo \in SUBSET Item(kind) :
          sync' = [sync EXCEPT !.pc = "list", !.wish = wish, !.todo = todo]
    BY <2>2, <2>3, <2>4
  <2>6. UNCHANGED <<kind, rows, versions, cached, request, events, gone, raced>>
    BY <1>2 DEF AdvancedSync, tables, history
  <2> QED
    BY <2>5, <2>6, SyncChanges DEF SyncTypes, Wish, Item
<1>3. CASE Again
  <2> DEFINE of(n) == IF Holders(n) = {} THEN None ELSE CHOOSE i \in Holders(n) : TRUE
             todo == {[id |-> of(w.name), name |-> w.name, value |-> w.value] : w \in sync.wish}
  <2>1. \A n : of(n) \in Ids \cup {None}
    BY DEF Holders, Listed
  <2>2. todo \in SUBSET Item(kind)
    <3> HIDE DEF of
    <3> QED
      BY <2>1 DEF SyncTypes, Wish, Item
  <2>3. sync' = [sync EXCEPT !.pc = "list", !.todo = todo]
    BY <1>3 DEF Again
  <2>4. UNCHANGED <<kind, rows, versions, cached, request, events, gone, raced>>
    BY <1>3 DEF Again, tables, history
  <2> HIDE DEF todo
  <2> QED
    BY <2>2, <2>3, <2>4, SyncChanges DEF SyncTypes, Wish, Item
<1>4. CASE SyncLists
  <2>1. UNCHANGED <<kind, rows, versions, cached, request, gone, raced>>
    BY <1>4 DEF SyncLists, tables, history
  <2>2. CASE Event /\ sync' = [sync EXCEPT !.pc = "failed"]
    <3>1. events' \in 0..MaxEvents[kind]' /\ SyncTypes'
      BY <2>1, <2>2, EventTypes DEF SyncTypes, Wish, Item
    <3> QED
      BY <2>1, <3>1 DEF TableTypes, RequestTypes, CacheTypes, OtherTypes, Row, Shape, Good, Asked, Sited, Request, Input, Item, Linked
  <2>3. CASE UNCHANGED events /\ sync' # [sync EXCEPT !.pc = "failed"]
    <3>1. (\E r \in Requests : pc(r) # "idle" /\ Writing(request[r].op)) \in BOOLEAN /\ Listed \in SUBSET Ids
      BY DEF Listed
    <3>2. PICK b \in BOOLEAN, l \in SUBSET Ids :
            sync' = [sync EXCEPT !.pc = "items", !.listed = l, !.kept = {}, !.disturbed = b]
      BY <1>4, <2>3, <3>1 DEF SyncLists
    <3>3. SyncTypes'
      BY <2>1, <3>2 DEF SyncTypes, Wish, Item
    <3> QED
      BY <2>1, <2>3, <3>3, SyncChanges
  <2>4. CASE UNCHANGED events /\ sync' = [sync EXCEPT !.pc = "failed"]
    BY <2>1, <2>4, SyncChanges DEF SyncTypes, Wish, Item
  <2> QED
    BY <1>4, <2>2, <2>3, <2>4 DEF SyncLists
<1>5. CASE SyncItemsDone \/ SyncDone
  <2>1. UNCHANGED <<kind, rows, versions, cached, request, events, gone, raced>>
    BY <1>5 DEF SyncItemsDone, SyncDone, tables, history
  <2>2. SyncTypes'
    BY <1>5, <2>1 DEF SyncItemsDone, SyncDone, SyncTypes, Wish, Item
  <2> QED
    BY <2>1, <2>2, SyncChanges
<1>6. CASE SyncItem
  BY <1>6, SyncItemTypes
<1>7. CASE SyncDelete
  BY <1>7, SyncDeleteTypes
<1> QED
  BY <1>2, <1>3, <1>4, <1>5, <1>6, <1>7 DEF SyncStep, SyncAgents, SyncBindings, SyncMCPServers, SyncSkills,
     SyncPrompts, SyncCommunities
LEMMA FailsTypes == ASSUME Types, NEW r \in Requests, Fails(r) PROVE Types'
<1>1. /\ pc(r) # "idle" /\ request[r] \in FullRequest /\ Asked(request[r]) /\ Sited(request[r])
      /\ UNCHANGED <<kind, rows, versions, cached>>
  BY BusyIsFull DEF Fails, tables
<1>2. TableTypes' /\ CacheTypes' /\ events' \in 0..MaxEvents[kind]'
  BY <1>1, EventTypes, TypesSplit DEF TableTypes, CacheTypes, Row, Fails
<1>3. CASE Goes(r, "fetch") /\ pc(r) = "lookup" /\ UNCHANGED <<sync, gone, raced>>
  <2>1. Sited([request[r] EXCEPT !.pc = "fetch"])
    BY <1>1, <1>3 DEF Sited, FullRequest, pc
  <2>2. RequestTypes'
    BY <1>1, <1>3, <2>1, ContinuesTypes DEF Places
  <2> QED
    BY <1>1, <1>2, <1>3, <2>2, TypesSplit DEF OtherTypes, SyncTypes, Wish, Item
<1>4. CASE Goes(r, "write") /\ pc(r) = "fill" /\ request[r].op # "get" /\ UNCHANGED <<sync, gone, raced>>
  <2>1. Sited([request[r] EXCEPT !.pc = "write"])
    BY <1>1, <1>4 DEF Sited, FullRequest, Operations, pc
  <2>2. RequestTypes'
    BY <1>1, <1>4, <2>1, ContinuesTypes DEF Places
  <2> QED
    BY <1>1, <1>2, <1>4, <2>2, TypesSplit DEF OtherTypes, SyncTypes, Wish, Item
<1>5. CASE /\ request' = [request EXCEPT ![r] = Idle] /\ pc(r) = "drop"
           /\ Answered(r, Decoded(request[r].op, TRUE)) /\ raced' = raced \cup {id(r)}
           /\ gone' = IF request[r].op = "delete" THEN [gone EXCEPT ![id(r)] = "revivable"] ELSE gone
  <2>1. request[r].op # "create" /\ id(r) \in Ids
    BY <1>1, <1>5 DEF Sited, Asked, pc, id
  <2>2. SyncTypes'
    BY <1>1, <1>5, <2>1, AnsweredTypes DEF Decoded
  <2>3. RequestTypes'
    BY <1>1, <1>5, IdleGood, RequestChange, TypesSplit
  <2> QED
    BY <1>2, <1>5, <2>1, <2>2, <2>3, TypesSplit DEF OtherTypes
<1>6. CASE Refused(r) /\ UNCHANGED <<gone, raced>>
  BY <1>1, <1>2, <1>6, RefusedTypes, TypesSplit DEF OtherTypes
<1> QED
  BY <1>3, <1>4, <1>5, <1>6 DEF Fails

LEMMA ExpiresTypes == ASSUME Types, NEW i \in Ids, Expires(i) PROVE Types'
<1>1. UNCHANGED <<kind, rows, versions, request, sync, events, gone, raced>>
  BY DEF Expires, tables, history
<1>2. CacheTypes'
  BY <1>1, TypesSplit DEF CacheTypes, Expires, Row
<1> QED
  BY <1>1, <1>2, TypesSplit DEF TableTypes, RequestTypes, SyncTypes, OtherTypes, Row, Wish, Shape, Good, Asked, Sited,
     Request, Input, Item, Linked

\* Agents that are assigned, or leave: an event, and nothing else that is looked at here.
LEMMA StaffingChanges ==
  ASSUME NEW i \in Ids, AgentAssigned(i) \/ AgentUnassigned(i)
  PROVE  Event /\ UNCHANGED <<kind, rows, versions, cached, request, sync, gone, raced>>
BY DEF AgentAssigned, AgentUnassigned, history

LEMMA StaffingTypes ==
  ASSUME Types, NEW i \in Ids, AgentAssigned(i) \/ AgentUnassigned(i)
  PROVE  Types'
<1>1. Event /\ UNCHANGED <<kind, rows, versions, cached, request, sync, gone, raced>>
  BY StaffingChanges
<1>2. OtherTypes'
  BY <1>1, EventTypes, TypesSplit DEF OtherTypes
<1> QED
  BY <1>1, <1>2, TypesSplit DEF TableTypes, CacheTypes, RequestTypes, SyncTypes, Row, Wish, Shape, Good, Asked,
     Sited, Request, Input, Item, Linked

LEMMA TypesNext == Types /\ [Next]_vars => Types'
<1> SUFFICES ASSUME Types, [Next]_vars PROVE Types'
  OBVIOUS
<1>1. CASE UNCHANGED vars
  <2>1. UNCHANGED <<kind, rows, versions, cached, request, events, gone, raced, sync>>
    BY <1>1 DEF vars, tables, history
  <2>2. SyncTypes'
    BY <2>1, TypesSplit DEF SyncTypes, Wish, Item
  <2> QED
    BY <2>1, <2>2, SyncChanges
<1>2. CASE Next
  BY <1>2, StepTypes, FailsTypes, AsksTypes, ExpiresTypes, StaffingTypes, SyncStepTypes DEF Next
<1> QED
  BY <1>1, <1>2

LEMMA TypesInit == Init => Types
<1> SUFFICES ASSUME Init PROVE Types
  OBVIOUS
<1> USE DEF Init
<1>1. PICK first \in SUBSET Names :
        LET id1 == CHOOSE f \in [first -> Ids] : IsInjective(f)
            row(n) == [name |-> n, value |-> CHOOSE v \in Values[kind] : TRUE, live |-> TRUE]
        IN  rows = [i \in Ids |-> IF \E n \in first : id1[n] = i
                                  THEN row(CHOOSE n \in first : id1[n] = i) ELSE NoRow]
  OBVIOUS
<1>2. (CHOOSE v \in Values[kind] : TRUE) \in Values[kind]
  OBVIOUS
<1>3. \A i \in Ids : rows[i] \in Row(kind) \cup {NoRow}
  BY <1>1, <1>2 DEF Row
<1>4. rows \in [Ids -> Row(kind) \cup {NoRow}]
  BY <1>1, <1>3
<1>5. versions \in [Ids -> Seq(Values[kind])]
  <2>1. versions = [i \in Ids |-> IF kind = "prompt" /\ rows[i] # NoRow THEN <<rows[i].value>> ELSE <<>>]
    OBVIOUS
  <2>2. ASSUME NEW i \in Ids, rows[i] # NoRow PROVE <<rows[i].value>> \in Seq(Values[kind])
    <3>1. rows[i].value \in Values[kind]
      BY <1>3, <2>2 DEF Row
    <3> QED
      BY <3>1, Single
  <2>3. <<>> \in Seq(Values[kind])
    OBVIOUS
  <2> HIDE DEF Init
  <2> QED
    BY <2>1, <2>2, <2>3
<1>6. TableTypes
  BY <1>4, <1>5 DEF TableTypes
<1>7. RequestTypes /\ Shape
  BY IdleGood DEF RequestTypes, Shape, Good
<1>8. SyncTypes /\ CacheTypes /\ OtherTypes
  BY DEF SyncTypes, NoSync, CacheTypes, OtherTypes
<1> QED
  BY <1>6, <1>7, <1>8, TypesSplit

LEMMA StepStaffs == ASSUME Types, NEW r \in Requests, Step(r) \/ Fails(r) PROVE staffed' = staffed
<1>1. CASE Inserts(r) \/ DeleteBinding(r) \/ WriteTemplate(r) \/ Removes(r) \/ Writes(r, "drop") \/ Writes(r, "end")
  BY <1>1 DEF Inserts, DeleteBinding, WriteTemplate, Removes, Writes
<1>2. CASE Fills(r) \/ Drops(r) \/ ReadVersion(r) \/ LooksUp(r) \/ Fails(r)
  BY <1>2 DEF Fills, Drops, ReadVersion, LooksUp, Fails, tables
<1>3. CASE Fetches(r, "fill") \/ Fetches(r, "write") \/ UNCHANGED tables
  BY <1>3 DEF Fetches, tables
<1>4. CASE AddPromptToCollection(r) \/ RemovePromptFromCollection(r)
  BY <1>4 DEF AddPromptToCollection, RemovePromptFromCollection, Links
<1> QED
  BY <1>1, <1>2, <1>3, <1>4, StepIs

\* The variables stay in their types, for any kinds, ids, names, requests and failures.
THEOREM TypeCorrect == Spec => []TypeOK
<1> DEFINE Staffed == staffed \subseteq Ids
<1>1. Types /\ Staffed => TypeOK
  BY DEF Types, EntryTypes, TypeOK
<1>2. Init => Staffed
  BY DEF Init
<1>3. Types /\ Staffed /\ [Next]_vars => Staffed'
  <2> SUFFICES ASSUME Types, Staffed, [Next]_vars PROVE Staffed'
    OBVIOUS
  <2>1. CASE UNCHANGED vars
    BY <2>1 DEF vars, tables
  <2>2. ASSUME NEW r \in Requests, AskCreate(r) \/ AskUpdate(r) \/ AskDelete(r) \/ AskGet(r) \/ AskLink(r)
        PROVE  Staffed'
    BY <2>2 DEF AskCreate, AskUpdate, AskDelete, AskGet, AskLink, Asks, tables
  <2>3. CASE AdvancedSync \/ Again
    BY <2>3 DEF AdvancedSync, Again, tables
  <2>4. CASE SyncStep
    BY <2>4 DEF SyncStep, SyncLists, SyncItemsDone, SyncDelete, SyncDone, SyncItem, SyncAgents, SyncBindings,
       SyncMCPServers, SyncSkills, SyncPrompts, SyncCommunities, tables
  <2>5. ASSUME NEW i \in Ids, Expires(i) \/ AgentAssigned(i) \/ AgentUnassigned(i) PROVE Staffed'
    BY <2>5 DEF Expires, AgentAssigned, AgentUnassigned, tables
  <2>6. ASSUME NEW r \in Requests, Step(r) \/ Fails(r) PROVE Staffed'
    BY <2>6, StepStaffs
  <2> QED
    BY <2>1, <2>2, <2>3, <2>4, <2>5, <2>6 DEF Next
<1> QED
  BY <1>1, <1>2, <1>3, TypesInit, TypesNext, PTL DEF Spec
-----------------------------------------------------------------------------
(* What is cached, and what was deleted                                    *)

\* What is cached, or on its way to the cache, is what the table says, unless it was
\* written since; there is none of it before the entry exists.
Fresh(i) ==
  /\ cached[i] # NoRow => kind \in Cached
  /\ rows[i] = NoRow /\ gone[i] = "no" =>
       cached[i] = NoRow /\ \A r \in Requests : pc(r) = "fill" => id(r) # i
  /\ i \notin raced =>
       /\ cached[i] # NoRow => cached[i] = rows[i] \/ \E r \in Requests : pc(r) = "drop" /\ id(r) = i
       /\ \A r \in Requests : pc(r) = "fill" /\ id(r) = i => request[r].copy = rows[i]

\* After a deletion nobody has a copy of the entry from before.
Final(i) ==
  gone[i] = "deleted" =>
    \/ rows[i] = NoRow
    \/ /\ kind = "llm" /\ ~rows[i].live
       /\ cached[i] = NoRow \/ ~cached[i].live
       /\ \A r \in Requests : pc(r) \in {"fill", "write"} /\ id(r) = i => ~request[r].copy.live

SafeInv == \A i \in Ids : Fresh(i) /\ Final(i)

LEMMA Becomes ==
  ASSUME Types, NEW r \in Requests, NEW q, request' = [request EXCEPT ![r] = q]
  PROVE  request'[r] = q /\ \A k \in Requests \ {r} : request'[k] = request[k]
BY DEF Types, EntryTypes

LEMMA GoesTo ==
  ASSUME Types, NEW r \in Requests, NEW p, pc(r) # "idle", Goes(r, p)
  PROVE  /\ request'[r].pc = p /\ request'[r].item = request[r].item /\ request'[r].copy = request[r].copy
         /\ request'[r].op = request[r].op /\ request'[r].seen = request[r].seen
         /\ \A k \in Requests \ {r} : request'[k] = request[k]
<1>1. request[r] \in FullRequest
  BY BusyIsFull
<1> QED
  BY <1>1 DEF Types, EntryTypes, Goes, FullRequest

LEMMA EndsIdle ==
  ASSUME Types, NEW r \in Requests, Done(r) \/ Refused(r)
  PROVE  request'[r].pc = "idle" /\ \A k \in Requests \ {r} : request'[k] = request[k]
<1>1. request' = [request EXCEPT ![r] = Idle]
  BY DEF Done, Refused
<1>2. request'[r] = Idle /\ \A k \in Requests \ {r} : request'[k] = request[k]
  BY <1>1, Becomes
<1> QED
  BY <1>2 DEF Idle

\* A step that writes nothing and drops nothing.  What it has read is in the table, or
\* in the cache.
LEMMA Quiet ==
  ASSUME Types, SafeInv, NEW r \in Requests, UNCHANGED <<kind, rows, cached, gone, raced>>,
         \A k \in Requests \ {r} : request'[k] = request[k], pc(r) # "drop",
         request'[r].pc = "fill" =>
           \E i \in Ids : request'[r].item.id = i /\ Exists(i) /\ request'[r].copy = rows[i],
         request'[r].pc = "write" =>
           \E i \in Ids : /\ request'[r].item.id = i
                          /\ gone[i] = "deleted" /\ rows[i] # NoRow => ~request'[r].copy.live
  PROVE  SafeInv'
<1> SUFFICES ASSUME NEW i \in Ids PROVE Fresh(i)' /\ Final(i)'
  BY DEF SafeInv
<1>1. Fresh(i)'
  BY DEF SafeInv, Fresh, pc, id, Exists
<1>2. Final(i)'
  BY DEF SafeInv, Final, pc, id, Exists
<1> QED
  BY <1>1, <1>2

\* Kinds without a cache.
LEMMA Uncached ==
  ASSUME Types, Types', SafeInv, kind \notin Cached, UNCHANGED <<kind, cached>>,
         \A i \in Ids : gone'[i] = "deleted" => rows'[i] = NoRow
  PROVE  SafeInv'
<1>1. \A r \in Requests : request'[r].pc # "fill"
  BY DEF Types, Shape, Good, Sited, Idle
<1> QED
  BY <1>1 DEF SafeInv, Fresh, Final, pc

LEMMA InsertsSafe == ASSUME Types, SafeInv, NEW r \in Requests, Inserts(r) PROVE SafeInv'
<1>1. pc(r) = "create" /\ UNCHANGED <<kind, cached, gone, raced>>
  BY DEF Inserts, history
<1>2. CASE Refused(r) /\ UNCHANGED <<rows, versions, events>>
  BY <1>1, <1>2, EndsIdle, Quiet
<1>3. ASSUME NEW i \in Ids, ~Exists(i), gone[i] = "no", Done(r), NEW q \in Row(kind), Stored(i, q) PROVE SafeInv'
  <2>1. rows'[i] = q /\ \A x \in Ids \ {i} : rows'[x] = rows[x]
    BY <1>3 DEF Stored, Types, EntryTypes
  <2>2. q # NoRow
    BY <1>3 DEF Row, NoRow
  <2>3. request'[r].pc = "idle" /\ \A k \in Requests \ {r} : request'[k] = request[k]
    BY <1>3, EndsIdle
  <2> SUFFICES ASSUME NEW x \in Ids PROVE Fresh(x)' /\ Final(x)'
    BY DEF SafeInv
  <2>4. Fresh(x)'
    BY <1>1, <1>3, <2>1, <2>2, <2>3 DEF SafeInv, Fresh, pc, id, Exists
  <2>5. Final(x)'
    BY <1>1, <1>3, <2>1, <2>2, <2>3 DEF SafeInv, Final, pc, id, Exists
  <2> QED
    BY <2>4, <2>5
<1>4. [name |-> request[r].item.name, value |-> request[r].item.value, live |-> TRUE] \in Row(kind)
  <2>1. request[r].item \in Item(kind)
    BY <1>1, BusyIsFull DEF Sited, Asked, pc
  <2> QED
    BY <2>1 DEF Item, Row
<1> QED
  BY <1>2, <1>3, <1>4 DEF Inserts

LEMMA FetchesSafe ==
  ASSUME Types, SafeInv, NEW r \in Requests, NEW next \in {"fill", "write"}, Fetches(r, next), next = "fill" => kind \in Cached
  PROVE  SafeInv'
<1>1. /\ pc(r) = "fetch" /\ request[r] \in FullRequest /\ id(r) \in Ids
      /\ UNCHANGED <<kind, rows, cached, gone, raced>>
  BY BusyIsFull DEF Fetches, Sited, Asked, pc, id, tables, history
<1>2. CASE Refused(r)
  BY <1>1, <1>2, EndsIdle, Quiet
<1>3. CASE Exists(id(r)) /\ request' = [request EXCEPT ![r].pc = next, ![r].copy = Current(id(r))]
  <2> DEFINE copy == Current(id(r))
             q == [request[r] EXCEPT !.pc = next, !.copy = copy]
  <2>1. (kind # "prompt" => copy = rows[id(r)]) /\ copy.live = rows[id(r)].live
    BY <1>1, <1>3, CurrentType
  <2>2. request' = [request EXCEPT ![r] = q]
    BY <1>3 DEF Types, EntryTypes
  <2> HIDE DEF copy
  <2>3. q.pc = next /\ q.copy = copy /\ q.item = request[r].item
    BY <1>1 DEF FullRequest
  <2> HIDE DEF q
  <2>4. request'[r] = q /\ \A k \in Requests \ {r} : request'[k] = request[k]
    BY <2>2, Becomes
  <2>5. gone[id(r)] = "deleted" /\ rows[id(r)] # NoRow => ~copy.live
    BY <1>1, <2>1 DEF SafeInv, Final
  <2> QED
    <3>1. /\ request'[r].pc = next /\ request'[r].copy = copy /\ request'[r].item.id = id(r)
          /\ pc(r) # "drop" /\ (next = "fill" => copy = rows[id(r)])
      BY <1>1, <2>1, <2>3, <2>4 DEF id, Cached
    <3>2. request'[r].pc = "fill" => \E i \in Ids : request'[r].item.id = i /\ Exists(i) /\ request'[r].copy = rows[i]
      BY <1>1, <1>3, <3>1
    <3>3. request'[r].pc = "write" =>
            \E i \in Ids : /\ request'[r].item.id = i
                           /\ gone[i] = "deleted" /\ rows[i] # NoRow => ~request'[r].copy.live
      BY <1>1, <2>5, <3>1
    <3>4. pc(r) # "drop" /\ \A k \in Requests \ {r} : request'[k] = request[k]
      BY <2>4, <3>1
    <3>5. UNCHANGED <<kind, rows, cached, gone, raced>>
      BY <1>1
    <3> QED
      BY <3>2, <3>3, <3>4, <3>5, Quiet, Zenon
<1> QED
  BY <1>2, <1>3 DEF Fetches

LEMMA WritesSafe ==
  ASSUME Types, SafeInv, NEW r \in Requests, NEW next \in {"end", "drop"}, Writes(r, next),
         next = "drop" <=> kind \in Cached
  PROVE  SafeInv'
<1> DEFINE i == id(r)
<1>1. /\ pc(r) = "write" /\ i \in Ids /\ Changed(r) \in Row(kind) /\ Changed(r).live = request[r].copy.live
      /\ UNCHANGED <<kind, cached, gone>> /\ request[r] \in FullRequest
  BY BusyIsFull, ChangedType DEF Writes, pc
<1>2. CASE Refused(r) /\ UNCHANGED <<rows, raced, events>>
  BY <1>1, <1>2, EndsIdle, Quiet
<1>3. CASE /\ Exists(i) /\ Stored(i, Changed(r))
           /\ raced' = raced \cup {id(k) : k \in {k \in Requests : pc(k) = "fill" /\ id(k) = i}}
           /\ IF next = "end" THEN Done(r) ELSE Continues(r, next)
  <2>1. rows'[i] = Changed(r) /\ \A x \in Ids \ {i} : rows'[x] = rows[x]
    BY <1>1, <1>3 DEF Stored, Types, EntryTypes
  <2>2. Changed(r) # NoRow
    BY <1>1 DEF Row, NoRow
  <2>3. /\ \A k \in Requests \ {r} : request'[k] = request[k]
        /\ IF kind \in Cached THEN request'[r].pc = "drop" /\ request'[r].item.id = i ELSE request'[r].pc = "idle"
    <3>1. CASE kind \in Cached
      BY <1>1, <1>3, <3>1, GoesTo DEF Continues, id
    <3>2. CASE kind \notin Cached
      BY <1>3, <3>2, EndsIdle
    <3> QED
      BY <3>1, <3>2
  <2>4. \A k \in Requests : pc(k) = "fill" /\ id(k) = i => i \in raced'
    BY <1>3
  <2>5. \A x \in Ids : x \in raced => x \in raced'
    BY <1>3
  <2>6. i \in Ids /\ i = request[r].item.id /\ (gone[i] = "deleted" => kind = "llm" /\ ~request[r].copy.live)
    BY <1>1, <1>3 DEF SafeInv, Final, Exists, id
  <2> HIDE DEF i
  <2> SUFFICES ASSUME NEW x \in Ids PROVE Fresh(x)' /\ Final(x)'
    BY DEF SafeInv
  <2>7. CASE x # i
    BY <1>1, <2>1, <2>3, <2>5, <2>6, <2>7 DEF SafeInv, Fresh, Final, pc, id
  <2>8. CASE x = i
    <3>1. Fresh(x) /\ Final(x) /\ rows'[x] # NoRow /\ cached'[x] = cached[x] /\ gone'[x] = gone[x]
      BY <1>1, <2>1, <2>2, <2>8 DEF SafeInv
    <3>2. /\ \A k \in Requests : pc(k) = "fill" /\ request[k].item.id = x => x \in raced'
          /\ kind \in Cached => request'[r].pc = "drop" /\ request'[r].item.id = x
          /\ request'[r].pc \in {"drop", "idle"}
      BY <2>3, <2>4, <2>8 DEF id
    <3>3. Fresh(x)'
      BY <1>1, <2>3, <3>1, <3>2 DEF Fresh, pc, id
    <3>4. gone[x] = "deleted" => kind' = "llm" /\ rows'[x].live = FALSE
      BY <1>1, <2>1, <2>6, <2>8 DEF Row
    <3>5. Final(x)'
      BY <1>3, <2>3, <2>8, <3>1, <3>2, <3>4 DEF Final, Exists, pc, id
    <3> QED
      BY <3>3, <3>5
  <2> QED
    BY <2>7, <2>8
<1> QED
  BY <1>2, <1>3 DEF Writes

LEMMA RemovesSafe == ASSUME Types, SafeInv, NEW r \in Requests, Removes(r) PROVE SafeInv'
<1>1. pc(r) = "delete" /\ id(r) \in Ids /\ UNCHANGED <<kind, cached>>
  BY BusyIsFull DEF Removes, Sited, Asked, pc, id
<1>2. CASE Refused(r) /\ UNCHANGED <<rows, versions, history, events>>
  BY <1>1, <1>2, EndsIdle, Quiet DEF history
<1>3. CASE /\ Stored(id(r), NoRow) /\ gone' = [gone EXCEPT ![id(r)] = "deleted"]
           /\ raced' = raced \cup {id(r)} /\ Done(r)
  <2>1. /\ rows'[id(r)] = NoRow /\ gone'[id(r)] = "deleted"
        /\ \A x \in Ids \ {id(r)} : rows'[x] = rows[x] /\ gone'[x] = gone[x]
    BY <1>1, <1>3 DEF Stored, Types, EntryTypes
  <2>2. request'[r].pc = "idle" /\ \A k \in Requests \ {r} : request'[k] = request[k]
    BY <1>3, EndsIdle
  <2>3. raced' = raced \cup {id(r)}
    BY <1>3
  <2> QED
    BY <1>1, <2>1, <2>2, <2>3 DEF SafeInv, Fresh, Final, pc, id
<1> QED
  BY <1>2, <1>3 DEF Removes
LEMMA LooksUpSafe == ASSUME Types, SafeInv, NEW r \in Requests, LooksUp(r) PROVE SafeInv'
<1>1. /\ pc(r) = "lookup" /\ request[r] \in FullRequest /\ id(r) \in Ids
      /\ UNCHANGED <<kind, rows, cached, gone, raced>>
  BY BusyIsFull DEF LooksUp, Sited, Asked, pc, id, tables, history
<1>2. CASE Continues(r, "fetch")
  <2>1. request'[r].pc = "fetch" /\ \A k \in Requests \ {r} : request'[k] = request[k]
    BY <1>1, <1>2, GoesTo DEF Continues
  <2> QED
    BY <1>1, <2>1, Quiet
<1>3. CASE Done(r)
  BY <1>1, <1>3, EndsIdle, Quiet
<1>4. CASE cached[id(r)] # NoRow /\ request' = [request EXCEPT ![r].pc = "write", ![r].copy = cached[id(r)]]
  <2> DEFINE copy == cached[id(r)]
             q == [request[r] EXCEPT !.pc = "write", !.copy = copy]
  <2>1. request' = [request EXCEPT ![r] = q]
    BY <1>4 DEF Types, EntryTypes
  <2>2. gone[id(r)] = "deleted" /\ rows[id(r)] # NoRow => ~copy.live
    BY <1>1, <1>4 DEF SafeInv, Final
  <2> HIDE DEF copy
  <2>3. q.pc = "write" /\ q.copy = copy /\ q.item = request[r].item
    BY <1>1 DEF FullRequest
  <2> HIDE DEF q
  <2>4. request'[r] = q /\ \A k \in Requests \ {r} : request'[k] = request[k]
    BY <2>1, Becomes
  <2>5. request'[r].pc = "write" /\ request'[r].item.id = id(r) /\ request'[r].copy = copy /\ pc(r) # "drop"
    BY <1>1, <2>3, <2>4 DEF id
  <2>6. \E i \in Ids : /\ request'[r].item.id = i
                       /\ gone[i] = "deleted" /\ rows[i] # NoRow => ~request'[r].copy.live
    BY <1>1, <2>2, <2>5
  <2>7. UNCHANGED <<kind, rows, cached, gone, raced>> /\ request'[r].pc # "fill"
    BY <1>1, <2>5
  <2>8. \A k \in Requests \ {r} : request'[k] = request[k]
    BY <2>4
  <2> QED
    BY <2>5, <2>6, <2>7, <2>8, Quiet, Zenon
<1> QED
  BY <1>2, <1>3, <1>4 DEF LooksUp

LEMMA FillsSafe == ASSUME Types, SafeInv, NEW r \in Requests, Fills(r) PROVE SafeInv'
<1> DEFINE i == request[r].item.id
           copy == request[r].copy
<1>1. /\ pc(r) = "fill" /\ kind \in Cached /\ i \in Ids
      /\ UNCHANGED <<kind, rows, gone, raced>> /\ cached' = [cached EXCEPT ![i] = copy]
  BY BusyIsFull DEF Fills, Sited, Asked, pc, id, tables, history
<1>2. cached'[i] = copy /\ \A x \in Ids \ {i} : cached'[x] = cached[x]
  BY <1>1 DEF Types, EntryTypes
<1>3. /\ \A k \in Requests \ {r} : request'[k] = request[k]
      /\ \/ request'[r].pc = "idle"
         \/ request'[r].pc = "write" /\ request'[r].item.id = i /\ request'[r].copy = copy
  <2>1. CASE Done(r)
    BY <2>1, EndsIdle
  <2>2. CASE Continues(r, "write")
    BY <1>1, <2>2, GoesTo DEF Continues
  <2> QED
    BY <2>1, <2>2 DEF Fills
<1> SUFFICES ASSUME NEW x \in Ids PROVE Fresh(x)' /\ Final(x)'
  BY DEF SafeInv
<1>4. Fresh(x) /\ Final(x)
  BY DEF SafeInv
<1>5. x = i => /\ ~(rows[x] = NoRow /\ gone[x] = "no")
               /\ x \notin raced => copy = rows[x]
               /\ gone[x] = "deleted" /\ rows[x] # NoRow => ~copy.live
  BY <1>1, <1>4 DEF Fresh, Final, pc, id
<1> HIDE DEF i, copy
<1>6. Fresh(x)'
  BY <1>1, <1>2, <1>3, <1>4, <1>5 DEF Fresh, pc, id
<1>7. Final(x)'
  BY <1>1, <1>2, <1>3, <1>4, <1>5 DEF Final, pc, id
<1> QED
  BY <1>6, <1>7

LEMMA DropsSafe == ASSUME Types, SafeInv, NEW r \in Requests, Drops(r) PROVE SafeInv'
<1> DEFINE i == request[r].item.id
<1>1. /\ pc(r) = "drop" /\ kind \in Cached /\ i \in Ids /\ (request[r].op = "delete" => kind = "llm")
      /\ UNCHANGED <<kind, rows>> /\ cached' = [cached EXCEPT ![i] = NoRow]
  BY BusyIsFull DEF Drops, Dropped, Sited, Asked, pc, id, tables
<1>2. cached'[i] = NoRow /\ \A x \in Ids \ {i} : cached'[x] = cached[x]
  BY <1>1 DEF Types, EntryTypes
<1>3. request'[r].pc = "idle" /\ \A k \in Requests \ {r} : request'[k] = request[k]
  BY EndsIdle DEF Drops
<1>4. /\ \A x \in Ids \ {i} : (x \in raced' <=> x \in raced) /\ gone'[x] = gone[x]
      /\ (\E k \in Requests : pc(k) = "fill" /\ id(k) = i) => (i \in raced' <=> i \in raced)
  BY <1>1 DEF Drops, Types, EntryTypes, id
<1>5. \/ gone'[i] = gone[i] \/ gone'[i] = "revivable"
      \/ gone'[i] = "deleted" /\ kind = "llm" /\ ~Revivable(r) /\ i \notin Listed
  BY <1>1 DEF Drops, Types, EntryTypes, id
<1> SUFFICES ASSUME NEW x \in Ids PROVE Fresh(x)' /\ Final(x)'
  BY DEF SafeInv
<1>6. Fresh(x) /\ Final(x)
  BY DEF SafeInv
<1>7. Fresh(x)'
  <2>1. CASE x = i
    <3>1. \A k \in Requests : request'[k].pc = "fill" => k # r /\ request'[k] = request[k]
      BY <1>3
    <3>2. rows'[x] = NoRow /\ gone'[x] = "no" => \A k \in Requests : pc(k) = "fill" => id(k) # x
      BY <1>1, <1>5, <1>6, <2>1 DEF Fresh
    <3>3. x \notin raced' => \A k \in Requests : pc(k) = "fill" /\ id(k) = x => request[k].copy = rows[x]
      BY <1>4, <1>6, <2>1 DEF Fresh
    <3> HIDE DEF i
    <3> QED
      BY <1>1, <1>2, <2>1, <3>1, <3>2, <3>3 DEF Fresh, pc, id
  <2>2. CASE x # i
    <3>1. x \in raced' <=> x \in raced
      BY <1>4, <2>2
    <3> QED
      BY <1>1, <1>2, <1>3, <1>4, <1>6, <2>2, <3>1 DEF Fresh, pc, id
  <2> QED
    BY <2>1, <2>2
<1>8. Final(x)'
  <2>1. CASE x = i
    <3>1. CASE gone'[i] = gone[i]
      BY <1>1, <1>2, <1>3, <1>6, <2>1, <3>1 DEF Final, pc, id
    <3>2. CASE gone'[i] = "revivable"
      BY <2>1, <3>2 DEF Final
    <3>3. CASE gone'[i] = "deleted" /\ kind = "llm" /\ ~Revivable(r) /\ i \notin Listed
      <4>1. rows[x] = NoRow \/ ~rows[x].live
        BY <2>1, <3>3 DEF Listed, Exists
      <4>2. \A k \in Requests \ {r} : pc(k) \in {"fill", "write"} /\ id(k) = x => ~request[k].copy.live
        BY <2>1, <3>3 DEF Revivable, id
      <4> QED
        BY <1>1, <1>2, <1>3, <2>1, <3>3, <4>1, <4>2 DEF Final, pc, id
    <3> QED
      BY <1>5, <3>1, <3>2, <3>3
  <2>2. CASE x # i
    BY <1>1, <1>2, <1>3, <1>4, <1>6, <2>2 DEF Final, pc, id
  <2> QED
    BY <2>1, <2>2
<1> QED
  BY <1>7, <1>8
LEMMA DeleteBindingSafe == ASSUME Types, SafeInv, NEW r \in Requests, DeleteBinding(r) PROVE SafeInv'
<1> DEFINE i == request[r].item.id
<1>1. pc(r) = "delete" /\ i \in Ids /\ UNCHANGED <<kind, cached, gone>> /\ kind = "llm"
  BY BusyIsFull DEF DeleteBinding, Sited, Asked, pc, id
<1>2. CASE Refused(r) /\ UNCHANGED rows
  <2>1. /\ \A x \in raced : x \in raced'
        /\ request'[r].pc = "idle" /\ \A k \in Requests \ {r} : request'[k] = request[k]
    BY <1>2, EndsIdle DEF DeleteBinding
  <2> QED
    BY <1>1, <1>2, <2>1 DEF SafeInv, Fresh, Final, pc, id
<1>3. CASE Exists(i) /\ Stored(i, [rows[i] EXCEPT !.live = FALSE]) /\ Continues(r, "drop")
  <2>1. /\ rows[i] \in Row(kind) /\ rows'[i] = [rows[i] EXCEPT !.live = FALSE]
        /\ \A x \in Ids \ {i} : rows'[x] = rows[x]
    BY <1>1, <1>3 DEF Stored, Types, EntryTypes, Exists
  <2>2. rows'[i].live = FALSE /\ rows'[i] # NoRow
    BY <2>1 DEF Row, NoRow
  <2>3. /\ request'[r].pc = "drop" /\ request'[r].item.id = i
        /\ \A k \in Requests \ {r} : request'[k] = request[k]
    BY <1>1, <1>3, GoesTo DEF Continues
  <2>4. /\ \A k \in Requests : pc(k) = "fill" /\ request[k].item.id = i => i \in raced'
        /\ \A x \in raced : x \in raced'
    BY DEF DeleteBinding, id
  <2>5. gone[i] = "deleted" =>
          /\ cached[i] = NoRow \/ ~cached[i].live
          /\ \A k \in Requests : pc(k) \in {"fill", "write"} /\ id(k) = i => ~request[k].copy.live
    BY <1>1, <1>3 DEF SafeInv, Final, Exists
  <2> HIDE DEF i
  <2> SUFFICES ASSUME NEW x \in Ids PROVE Fresh(x)' /\ Final(x)'
    BY DEF SafeInv
  <2>6. Fresh(x) /\ Final(x)
    BY DEF SafeInv
  <2>7. CASE x # i
    BY <1>1, <2>1, <2>3, <2>4, <2>6, <2>7 DEF Fresh, Final, pc, id
  <2>8. CASE x = i
    <3>1. Fresh(x)'
      BY <1>1, <2>2, <2>3, <2>4, <2>6, <2>8 DEF Fresh, pc, id, Cached
    <3>2. Final(x)'
      BY <1>1, <2>2, <2>3, <2>5, <2>8 DEF Final, pc, id
    <3> QED
      BY <3>1, <3>2
  <2> QED
    BY <2>7, <2>8
<1> QED
  BY <1>2, <1>3 DEF DeleteBinding, id

LEMMA ReadVersionSafe == ASSUME Types, SafeInv, NEW r \in Requests, ReadVersion(r) PROVE SafeInv'
<1>1. pc(r) = "write" /\ request[r] \in FullRequest /\ UNCHANGED <<kind, rows, cached, gone, raced>>
  BY BusyIsFull DEF ReadVersion, pc, tables, history
<1>2. request'[r].pc \in {"idle", "commit"} /\ \A k \in Requests \ {r} : request'[k] = request[k]
  <2>1. CASE Refused(r)
    BY <2>1, EndsIdle
  <2>2. CASE request' = [request EXCEPT ![r].pc = "commit", ![r].seen = Len(versions[id(r)])]
    BY <1>1, <2>2 DEF Types, EntryTypes, FullRequest
  <2> QED
    BY <2>1, <2>2 DEF ReadVersion
<1> QED
  BY <1>1, <1>2, Quiet

\* What was deleted in a kind without a cache has no row, and gets none.
LEMMA GoneIsGone == ASSUME SafeInv, kind # "llm", NEW i \in Ids, gone[i] = "deleted" PROVE ~Exists(i)
BY DEF SafeInv, Final, Exists

LEMMA UncachedSafe ==
  ASSUME Types, Types', SafeInv, NEW r \in Requests,
         \/ WriteTemplate(r)
         \/ (AddPromptToCollection(r) \/ RemovePromptFromCollection(r)) /\ kind = "collection"
  PROVE  SafeInv'
<1>1. kind \notin Cached /\ UNCHANGED <<kind, cached, gone>>
  BY DEF WriteTemplate, AddPromptToCollection, RemovePromptFromCollection, Links, Cached, history
<1>2. \A i \in Ids : rows'[i] # rows[i] => Exists(i)
  BY DEF WriteTemplate, AddPromptToCollection, RemovePromptFromCollection, Links, Stored, Types, EntryTypes
<1>3. \A i \in Ids : gone'[i] = "deleted" => rows'[i] = NoRow
  BY <1>1, <1>2, GoneIsGone DEF Exists, Cached
<1> QED
  BY <1>1, <1>3, Uncached

LEMMA StepSafe == ASSUME Types, Types', SafeInv, NEW r \in Requests, Step(r) PROVE SafeInv'
<1>1. CASE pc(r) = "fetch" /\ Done(r) /\ UNCHANGED <<tables, cached, history>>
  BY <1>1, EndsIdle, Quiet DEF tables, history
<1>2. CASE (Fetches(r, "fill") /\ kind \in Cached) \/ Fetches(r, "write")
  BY <1>2, FetchesSafe
<1>3. CASE Writes(r, "drop") /\ kind \in Cached
  BY <1>3, WritesSafe
<1>4. CASE Writes(r, "end") /\ kind \notin Cached
  BY <1>4, WritesSafe
<1>5. CASE Inserts(r) \/ Fills(r) \/ Drops(r) \/ DeleteBinding(r) \/ LooksUp(r) \/ Removes(r)
  BY <1>5, InsertsSafe, FillsSafe, DropsSafe, DeleteBindingSafe, LooksUpSafe, RemovesSafe
<1>6. CASE ReadVersion(r)
  BY <1>6, ReadVersionSafe
<1>7. CASE WriteTemplate(r)
  BY <1>7, UncachedSafe
<1>8. CASE (AddPromptToCollection(r) \/ RemovePromptFromCollection(r)) /\ kind = "collection"
  BY <1>8, UncachedSafe, Zenon
<1> QED
  BY <1>1, <1>2, <1>3, <1>4, <1>5, <1>6, <1>7, <1>8, StepIs

\* A request begins without a copy of anything.
LEMMA BeginsSafe ==
  ASSUME Types, SafeInv, NEW r \in Requests, NEW op, NEW item, Begins(r, op, item),
         UNCHANGED <<tables, cached, history>>
  PROVE  SafeInv'
<1> DEFINE q == [pc |-> First(op), op |-> op, item |-> item, copy |-> NoRow, seen |-> 0]
<1>1. request' = [request EXCEPT ![r] = q] /\ pc(r) = "idle"
  BY DEF Begins
<1>2. q.pc \in {"create", "delete", "lookup", "fetch"}
  BY DEF First
<1> HIDE DEF q
<1>3. request'[r].pc \in {"create", "delete", "lookup", "fetch"} /\ \A k \in Requests \ {r} : request'[k] = request[k]
  BY <1>1, <1>2, Becomes
<1> QED
  BY <1>1, <1>3, Quiet DEF tables, history

LEMMA FailsSafe == ASSUME Types, SafeInv, NEW r \in Requests, Fails(r) PROVE SafeInv'
<1>1. /\ pc(r) # "idle" /\ request[r] \in FullRequest /\ Asked(request[r]) /\ Sited(request[r])
      /\ UNCHANGED <<kind, rows, cached>>
  BY BusyIsFull DEF Fails, tables
<1>2. CASE Goes(r, "fetch") /\ pc(r) = "lookup" /\ UNCHANGED <<gone, raced>>
  BY <1>1, <1>2, GoesTo, Quiet
<1>3. CASE Goes(r, "write") /\ pc(r) = "fill" /\ UNCHANGED <<gone, raced>>
  <2>1. /\ request'[r].pc = "write" /\ request'[r].item.id = id(r) /\ request'[r].copy = request[r].copy
        /\ \A k \in Requests \ {r} : request'[k] = request[k]
    BY <1>1, <1>3, GoesTo DEF id
  <2>2. id(r) \in Ids
    BY <1>1, <1>3 DEF Asked, Sited, pc, id
  <2>3. gone[id(r)] = "deleted" /\ rows[id(r)] # NoRow => ~request[r].copy.live
    BY <1>3, <2>2 DEF SafeInv, Final
  <2>4. \E i \in Ids : /\ request'[r].item.id = i
                       /\ gone[i] = "deleted" /\ rows[i] # NoRow => ~request'[r].copy.live
    BY <2>1, <2>2, <2>3
  <2>5. UNCHANGED <<kind, rows, cached, gone, raced>> /\ request'[r].pc # "fill" /\ pc(r) # "drop"
    BY <1>1, <1>3, <2>1
  <2>6. \A k \in Requests \ {r} : request'[k] = request[k]
    BY <2>1
  <2> QED
    BY <2>4, <2>5, <2>6, Quiet, Zenon
<1>4. CASE /\ request' = [request EXCEPT ![r] = Idle] /\ pc(r) = "drop" /\ raced' = raced \cup {id(r)}
           /\ gone' = IF request[r].op = "delete" THEN [gone EXCEPT ![id(r)] = "revivable"] ELSE gone
  <2>1. request'[r].pc = "idle" /\ \A k \in Requests \ {r} : request'[k] = request[k]
    <3>1. request'[r] = Idle /\ \A k \in Requests \ {r} : request'[k] = request[k]
      BY <1>4, Becomes
    <3> QED
      BY <3>1 DEF Idle
  <2>2. \A x \in Ids : gone'[x] = gone[x] \/ gone'[x] = "revivable"
    BY <1>4 DEF Types, EntryTypes
  <2>3. \A x \in Ids : x \notin raced' => x \notin raced /\ x # id(r)
    BY <1>4
  <2> SUFFICES ASSUME NEW x \in Ids PROVE Fresh(x)' /\ Final(x)'
    BY DEF SafeInv
  <2>4. Fresh(x) /\ Final(x)
    BY DEF SafeInv
  <2>5. Fresh(x)'
    BY <1>1, <2>1, <2>2, <2>3, <2>4 DEF Fresh, pc, id
  <2>6. Final(x)'
    BY <1>1, <2>1, <2>2, <2>4 DEF Final, pc, id
  <2> QED
    BY <2>5, <2>6
<1>5. CASE Refused(r) /\ UNCHANGED <<gone, raced>> /\ pc(r) # "drop"
  BY <1>1, <1>5, EndsIdle, Quiet
<1> QED
  BY <1>2, <1>3, <1>4, <1>5 DEF Fails

LEMMA ExpiresSafe == ASSUME Types, SafeInv, NEW i \in Ids, Expires(i) PROVE SafeInv'
<1>1. cached'[i] = NoRow /\ (\A x \in Ids \ {i} : cached'[x] = cached[x]) /\ UNCHANGED <<kind, rows, request, gone, raced>>
  BY DEF Expires, Types, EntryTypes, tables, history
<1> SUFFICES ASSUME NEW x \in Ids PROVE Fresh(x)' /\ Final(x)'
  BY DEF SafeInv
<1>2. Fresh(x) /\ Final(x)
  BY DEF SafeInv
<1>3. Fresh(x)'
  BY <1>1, <1>2 DEF Fresh, pc, id
<1>4. Final(x)'
  BY <1>1, <1>2 DEF Final, pc, id
<1> QED
  BY <1>3, <1>4

LEMMA SafeKept == SafeInv /\ UNCHANGED <<kind, rows, cached, request, gone, raced>> => SafeInv'
BY DEF SafeInv, Fresh, Final, pc, id

LEMMA SafeNext == Types /\ Types' /\ SafeInv /\ [Next]_vars => SafeInv'
<1> SUFFICES ASSUME Types, Types', SafeInv, [Next]_vars PROVE SafeInv'
  OBVIOUS
<1>1. CASE UNCHANGED vars
  BY <1>1, SafeKept DEF vars, tables, history
<1>2. ASSUME NEW r \in Requests, AskCreate(r) \/ AskUpdate(r) \/ AskDelete(r) \/ AskGet(r) \/ AskLink(r) PROVE SafeInv'
  BY <1>2, BeginsSafe DEF AskCreate, AskUpdate, AskDelete, AskGet, AskLink, Asks
<1>3. CASE AdvancedSync \/ Again \/ SyncLists \/ SyncItemsDone \/ SyncDone
  BY <1>3, SafeKept DEF AdvancedSync, Again, SyncLists, SyncItemsDone, SyncDone, tables, history
<1>4. CASE SyncItem \/ SyncDelete
  BY <1>4, BeginsSafe DEF SyncItem, SyncDelete
<1>5. CASE SyncStep
  BY <1>3, <1>4, <1>5 DEF SyncStep, SyncAgents, SyncBindings, SyncMCPServers, SyncSkills, SyncPrompts, SyncCommunities
<1>6. ASSUME NEW i \in Ids, AgentAssigned(i) \/ AgentUnassigned(i) PROVE SafeInv'
  BY <1>6, StaffingChanges, SafeKept
<1> QED
  BY <1>1, <1>2, <1>3, <1>5, <1>6, StepSafe, FailsSafe, ExpiresSafe DEF Next

LEMMA SafeInit == Init => SafeInv
<1> SUFFICES ASSUME Init, NEW i \in Ids PROVE Fresh(i) /\ Final(i)
  BY DEF SafeInv
<1>1. cached[i] = NoRow /\ gone[i] = "no" /\ \A r \in Requests : pc(r) = "idle"
  BY DEF Init, Idle, pc
<1> QED
  BY <1>1 DEF Fresh, Final

\* The caches of bindings and of effective prompts agree with the table except where a
\* write has overtaken a fill or a deletion from the cache has failed.
THEOREM CachesAreFresh == Spec => []CacheFresh
<1>1. SafeInv => CacheFresh
  BY DEF SafeInv, Fresh, CacheFresh
<1> QED
  BY <1>1, TypesInit, TypesNext, SafeInit, SafeNext, PTL DEF Spec

\* A binding that was deleted is listed again only if a request that had read it before
\* writes it back.
THEOREM DeletedIsFinal == Spec => []DeletedStaysDeleted
<1>1. SafeInv => DeletedStaysDeleted
  BY DEF SafeInv, Final, DeletedStaysDeleted, Listed, Exists
<1> QED
  BY <1>1, TypesInit, TypesNext, SafeInit, SafeNext, PTL DEF Spec
-----------------------------------------------------------------------------
(* A sync that nobody disturbs                                             *)

Says(q) == [name |-> q.name, value |-> q.value]
Entry(i) == [name |-> rows[i].name, value |-> Value(i)]
\* No two items are about the same entry.
Apart(items) == \A a, b \in items : a.id = b.id => a = b \/ a.id = None

Busy == pc(Editor) # "idle"
Op == request[Editor].op
Mine == request[Editor].item

EditorWrites == Busy => Op \in {"create", "update", "delete"}
Versioned == kind = "prompt" => \A i \in Ids : Exists(i) => versions[i] # <<>>
\* What the user asks for names every entry once, and so do the items that are sent.
Wishes ==
  /\ \A v, w \in sync.wish : v.name = w.name => v = w
  /\ sync.pc = "list" => Apart(sync.todo) /\ {Says(a) : a \in sync.todo} = sync.wish

Alone == \A r \in Requests \ {Editor} : pc(r) # "idle" => request[r].op = "get"

\* While the items are sent all that was listed is there, and the items that are left,
\* the one under way and those done are about different entries.
Items ==
  /\ Listed = sync.listed
  /\ Apart(sync.todo)
  /\ \A a \in sync.todo : a.id \notin sync.kept /\ Says(a) \in sync.wish
  /\ Busy => Op \in {"create", "update"}
  /\ Busy /\ Op = "update" =>
       /\ Mine.id \in sync.listed \ sync.kept /\ Says(Mine) \in sync.wish
       /\ \A a \in sync.todo : a.id # Mine.id
       /\ pc(Editor) \in {"write", "commit"} => request[Editor].copy.live
       /\ pc(Editor) = "commit" => request[Editor].seen = Len(versions[Mine.id])
       /\ pc(Editor) = "drop" => Entry(Mine.id) = Says(Mine)

\* Then the others are deleted, one after another.
Deletes ==
  /\ Listed \subseteq sync.listed /\ sync.todo = {}
  /\ Busy => Op = "delete" /\ Mine.id \notin sync.kept
  /\ Busy /\ pc(Editor) = "drop" => Mine.id \notin Listed

\* A wish is yet to be sent, is under way, or is an entry.
Met(w) ==
  \/ \E a \in sync.todo : Says(a) = w
  \/ Busy /\ Op \in {"create", "update"} /\ Says(Mine) = w
  \/ \E i \in sync.kept \cap Listed : Entry(i) = w

Progress ==
  /\ sync.pc = "items" => Items
  /\ sync.pc = "deletes" => Deletes
  /\ \A w \in sync.wish : Met(w)
  /\ \A i \in sync.kept \cap Listed : Entry(i) \in sync.wish

Undisturbed == Syncing /\ ~sync.disturbed
Steady == Alone /\ ~Misread /\ Progress
SyncInv == EditorWrites /\ Versioned /\ Wishes /\ (Undisturbed => Steady)

\* What a step does not write stays as it is.
LEMMA SameTable ==
  ASSUME UNCHANGED <<kind, rows, versions>>
  PROVE  Listed' = Listed /\ \A i \in Ids : Entry(i)' = Entry(i)
BY DEF Listed, Exists, Entry, Value

LEMMA SameEntry ==
  ASSUME NEW j \in Ids, rows'[j] = rows[j], versions'[j] = versions[j], kind' = kind
  PROVE  (j \in Listed' <=> j \in Listed) /\ Entry(j)' = Entry(j)
BY DEF Listed, Exists, Entry, Value

\* Where the copies are still right.
LEMMA ReadWell ==
  ASSUME ~Misread, Listed' \subseteq Listed,
         \A i \in Listed' : \/ cached'[i] \in {cached[i], NoRow}
                            \/ \E r \in Requests : pc(r) = "fill" /\ id(r) = i /\ cached'[i] = request[r].copy,
         \A r \in Requests : request'[r].pc = "fill" /\ request'[r].item.id \in Listed' =>
           request'[r] = request[r] \/ request'[r].copy.live
  PROVE  ~Misread'
<1> SUFFICES ASSUME NEW i \in Listed'
             PROVE  /\ cached'[i] = NoRow \/ cached'[i].live
                    /\ \A r \in Requests : request'[r].pc = "fill" /\ request'[r].item.id = i => request'[r].copy.live
  BY DEF Misread, pc, id
<1>1. i \in Listed
  OBVIOUS
<1>2. /\ cached[i] = NoRow \/ cached[i].live
      /\ \A r \in Requests : request[r].pc = "fill" /\ request[r].item.id = i => request[r].copy.live
  BY <1>1 DEF Misread, pc, id
<1>3. cached'[i] = NoRow \/ cached'[i].live
  BY <1>2 DEF pc, id
<1>4. ASSUME NEW r \in Requests, request'[r].pc = "fill", request'[r].item.id = i PROVE request'[r].copy.live
  BY <1>2, <1>4
<1> QED
  BY <1>3, <1>4

LEMMA FetchedLive ==
  ASSUME Types, NEW r \in Requests, NEW next, Fetches(r, next), ~Refused(r)
  PROVE  /\ request'[r].pc = next /\ request'[r].op = request[r].op /\ request'[r].item = request[r].item
         /\ request'[r].seen = request[r].seen
         /\ \A k \in Requests \ {r} : request'[k] = request[k]
         /\ sync' = sync /\ UNCHANGED <<kind, rows, versions, cached>>
         /\ id(r) \in Listed => request'[r].copy.live
<1> DEFINE copy == Current(id(r))
<1>1. /\ pc(r) = "fetch" /\ request[r] \in FullRequest /\ Exists(id(r)) /\ id(r) \in Ids
      /\ request' = [request EXCEPT ![r].pc = next, ![r].copy = copy]
  BY BusyIsFull DEF Fetches, Asked, Sited, pc, id
<1>2. copy.live = rows[id(r)].live
  BY <1>1, CurrentType
<1> HIDE DEF copy
<1>3. request'[r] = [request[r] EXCEPT !.pc = next, !.copy = copy] /\ \A k \in Requests \ {r} : request'[k] = request[k]
  BY <1>1 DEF Types, EntryTypes
<1>4. /\ request'[r].copy = copy /\ request'[r].pc = next /\ request'[r].op = request[r].op
      /\ request'[r].item = request[r].item /\ request'[r].seen = request[r].seen
  <2>1. PICK q \in FullRequest : q = request[r]
    BY <1>1
  <2>2. request'[r] = [q EXCEPT !.pc = next, !.copy = copy]
    BY <1>3, <2>1
  <2>3. /\ [q EXCEPT !.pc = next, !.copy = copy].pc = next /\ [q EXCEPT !.pc = next, !.copy = copy].copy = copy
        /\ [q EXCEPT !.pc = next, !.copy = copy].op = q.op /\ [q EXCEPT !.pc = next, !.copy = copy].item = q.item
        /\ [q EXCEPT !.pc = next, !.copy = copy].seen = q.seen
    BY <2>1 DEF FullRequest
  <2> QED
    BY <2>1, <2>2, <2>3
<1> QED
  BY <1>2, <1>3, <1>4 DEF Fetches, tables, Listed

\* What a step makes of its request.
Moved(r) ==
  /\ \A k \in Requests \ {r} : request'[k] = request[k]
  /\ \/ request'[r].pc = "idle"
     \/ request'[r].op = request[r].op /\ request'[r].item = request[r].item

LEMMA StepPlace ==
  ASSUME Types, NEW r \in Requests, Step(r) \/ Fails(r)
  PROVE  pc(r) # "idle" /\ kind' = kind
<1>1. CASE Fails(r)
  BY <1>1 DEF Fails, tables
<1>2. CASE Inserts(r) \/ Fills(r) \/ Drops(r) \/ DeleteBinding(r) \/ ReadVersion(r)
  BY <1>2 DEF Inserts, Fills, Drops, DeleteBinding, ReadVersion, tables
<1>3. CASE WriteTemplate(r) \/ LooksUp(r) \/ Removes(r) \/ Fetches(r, "fill") \/ Fetches(r, "write")
  BY <1>3 DEF WriteTemplate, LooksUp, Removes, Fetches, tables
<1>4. CASE Writes(r, "drop") \/ Writes(r, "end")
  BY <1>4 DEF Writes
<1>5. CASE AddPromptToCollection(r) \/ RemovePromptFromCollection(r)
  BY <1>5 DEF AddPromptToCollection, RemovePromptFromCollection, Links, Fetching
<1>6. CASE pc(r) = "fetch" /\ UNCHANGED <<tables, cached, history>>
  BY <1>6 DEF tables
<1> QED
  BY <1>1, <1>2, <1>3, <1>4, <1>5, <1>6, StepIs

LEMMA StepMoves == ASSUME Types, NEW r \in Requests, Step(r) \/ Fails(r) PROVE Moved(r)
<1>1. pc(r) # "idle" /\ request[r] \in FullRequest
  BY StepPlace, BusyIsFull
<1>2. CASE Done(r) \/ Refused(r)
  BY <1>2, EndsIdle DEF Moved
<1>3. ASSUME NEW p, Goes(r, p) PROVE Moved(r)
  BY <1>1, <1>3, GoesTo DEF Moved
<1>4. CASE Fetches(r, "fill") \/ Fetches(r, "write")
  BY <1>2, <1>4, FetchedLive DEF Moved
<1>5. ASSUME NEW p, NEW c, request' = [request EXCEPT ![r].pc = p, ![r].copy = c] PROVE Moved(r)
  BY <1>1, <1>5 DEF Types, EntryTypes, FullRequest, Moved
<1>6. ASSUME NEW n, request' = [request EXCEPT ![r].pc = "commit", ![r].seen = n] PROVE Moved(r)
  BY <1>1, <1>6 DEF Types, EntryTypes, FullRequest, Moved
<1>7. CASE Fails(r)
  <2>1. CASE request' = [request EXCEPT ![r] = Idle]
    BY <2>1, Becomes DEF Moved, Idle
  <2> QED
    BY <1>2, <1>3, <1>7, <2>1 DEF Fails
<1>8. CASE LooksUp(r)
  BY <1>2, <1>3, <1>5, <1>8 DEF LooksUp, Continues
<1>9. CASE ReadVersion(r)
  BY <1>2, <1>6, <1>9 DEF ReadVersion
<1>10. CASE Inserts(r) \/ Fills(r) \/ Drops(r) \/ Removes(r)
  BY <1>2, <1>3, <1>10 DEF Inserts, Fills, Drops, Removes, Continues
<1>11. CASE Writes(r, "drop") \/ Writes(r, "end") \/ DeleteBinding(r)
  BY <1>2, <1>3, <1>11 DEF Writes, DeleteBinding, Continues
<1>12. CASE WriteTemplate(r)
  BY <1>2, <1>12 DEF WriteTemplate
<1>13. CASE AddPromptToCollection(r) \/ RemovePromptFromCollection(r)
  BY <1>2, <1>13 DEF AddPromptToCollection, RemovePromptFromCollection, Links
<1> QED
  BY <1>2, <1>4, <1>7, <1>8, <1>9, <1>10, <1>11, <1>12, <1>13, StepIs

\* What it makes of the sync: the first error ends it.
SyncMoved(r) ==
  \/ sync' = sync
  \/ r = Editor /\ sync' = [sync EXCEPT !.pc = "failed"]
  \/ r = Editor /\ sync' = [sync EXCEPT !.kept = @ \cup {id(r)}]

LEMMA StepSyncs == ASSUME Types, NEW r \in Requests, Step(r) \/ Fails(r) PROVE SyncMoved(r)
<1>1. CASE Done(r) \/ Refused(r)
  BY <1>1 DEF Done, Refused, Answered, SyncMoved
<1>2. CASE sync' = sync
  BY <1>2 DEF SyncMoved
<1>3. CASE Fails(r)
  <2>1. ASSUME NEW ok \in BOOLEAN, Answered(r, ok) PROVE SyncMoved(r)
    BY <2>1 DEF Answered, SyncMoved
  <2>2. Decoded(request[r].op, TRUE) \in BOOLEAN
    BY DEF Decoded
  <2> QED
    BY <1>1, <1>2, <1>3, <2>1, <2>2 DEF Fails
<1>4. CASE LooksUp(r) \/ ReadVersion(r) \/ WriteTemplate(r)
  BY <1>1, <1>2, <1>4 DEF LooksUp, ReadVersion, WriteTemplate, Continues
<1>5. CASE Inserts(r) \/ Fills(r) \/ Drops(r) \/ Removes(r)
  BY <1>1, <1>2, <1>5 DEF Inserts, Fills, Drops, Removes, Continues
<1>6. CASE Writes(r, "drop") \/ Writes(r, "end") \/ DeleteBinding(r)
  BY <1>1, <1>2, <1>6 DEF Writes, DeleteBinding, Continues
<1>7. CASE Fetches(r, "fill") \/ Fetches(r, "write")
  BY <1>1, <1>2, <1>7 DEF Fetches
<1>8. CASE AddPromptToCollection(r) \/ RemovePromptFromCollection(r)
  BY <1>1, <1>8 DEF AddPromptToCollection, RemovePromptFromCollection, Links
<1> QED
  BY <1>1, <1>3, <1>4, <1>5, <1>6, <1>7, <1>8, StepIs

\* Nothing takes a listed binding for deleted that did not before.
LEMMA StepReadsWell ==
  ASSUME Types, NEW r \in Requests, Step(r) \/ Fails(r), ~Misread, Listed' \subseteq Listed
  PROVE  ~Misread'
<1>1. \A k \in Requests \ {r} : request'[k] = request[k]
  BY StepMoves DEF Moved
<1>2. Listed \subseteq Ids
  BY DEF Listed
<1>3. ASSUME cached' = cached, request'[r].pc # "fill" PROVE ~Misread'
  BY <1>1, <1>2, <1>3, ReadWell
<1>4. CASE Refused(r) \/ Done(r)
  <2>1. request'[r].pc # "fill"
    BY <1>4, EndsIdle
  <2>2. CASE cached' = cached
    BY <1>3, <2>1, <2>2
  <2>3. CASE \E i \in Ids : cached' = [cached EXCEPT ![i] = NoRow]
    <3>1. \A i \in Ids : cached'[i] \in {cached[i], NoRow}
      BY <2>3 DEF Types, EntryTypes
    <3> QED
      BY <1>1, <1>2, <2>1, <3>1, ReadWell
  <2>4. CASE Fills(r)
    <3>1. pc(r) = "fill" /\ id(r) \in Ids /\ cached' = [cached EXCEPT ![id(r)] = request[r].copy]
      BY <2>4, BusyIsFull DEF Fills, Sited, Asked, pc, id
    <3>2. \A i \in Ids : cached'[i] = IF i = id(r) THEN request[r].copy ELSE cached[i]
      BY <3>1 DEF Types, EntryTypes
    <3> QED
      BY <1>1, <1>2, <2>1, <3>1, <3>2, ReadWell
  <2>5. Drops(r) => \E i \in Ids : cached' = [cached EXCEPT ![i] = NoRow]
    BY BusyIsFull DEF Drops, Dropped, Sited, Asked, pc, id
  <2>6. CASE Fails(r)
    BY <2>2, <2>6 DEF Fails
  <2>7. CASE LooksUp(r) \/ ReadVersion(r) \/ WriteTemplate(r) \/ Removes(r) \/ Inserts(r)
    BY <2>2, <2>7 DEF LooksUp, ReadVersion, WriteTemplate, Removes, Inserts
  <2>8. CASE Writes(r, "drop") \/ Writes(r, "end") \/ DeleteBinding(r) \/ Fetches(r, "fill") \/ Fetches(r, "write")
    BY <2>2, <2>8 DEF Writes, DeleteBinding, Fetches
  <2>9. CASE AddPromptToCollection(r) \/ RemovePromptFromCollection(r)
    BY <2>2, <2>9 DEF AddPromptToCollection, RemovePromptFromCollection, Links
  <2> QED
    BY <2>2, <2>3, <2>4, <2>5, <2>6, <2>7, <2>8, <2>9, StepIs
<1>5. CASE Fetches(r, "fill") /\ ~Refused(r)
  <2>1. cached' = cached /\ request'[r].item = request[r].item /\ (id(r) \in Listed => request'[r].copy.live)
    BY <1>5, FetchedLive
  <2> QED
    BY <1>1, <1>2, <2>1, ReadWell DEF id
<1>6. CASE Fetches(r, "write") /\ ~Refused(r)
  BY <1>3, <1>6, FetchedLive
<1>7. ASSUME NEW p \in {"fetch", "write", "drop"}, Goes(r, p), cached' = cached PROVE ~Misread'
  BY <1>3, <1>7, StepPlace, GoesTo
<1>8. CASE LooksUp(r)
  <2>1. CASE request' = [request EXCEPT ![r].pc = "write", ![r].copy = cached[id(r)]]
    <3>1. request'[r].pc = "write"
      BY <2>1, StepPlace, BusyIsFull DEF Types, EntryTypes, FullRequest
    <3> QED
      BY <1>3, <1>8, <3>1 DEF LooksUp
  <2> QED
    BY <1>4, <1>7, <1>8, <2>1 DEF LooksUp, Continues
<1>9. CASE ReadVersion(r)
  <2>1. CASE request' = [request EXCEPT ![r].pc = "commit", ![r].seen = Len(versions[id(r)])]
    <3>1. request'[r].pc = "commit"
      BY <2>1, StepPlace, BusyIsFull DEF Types, EntryTypes, FullRequest
    <3> QED
      BY <1>3, <1>9, <3>1 DEF ReadVersion
  <2> QED
    BY <1>4, <1>9, <2>1 DEF ReadVersion
<1>10. CASE Fails(r)
  <2>1. CASE request' = [request EXCEPT ![r] = Idle]
    <3>1. request'[r].pc # "fill"
      <4>1. request'[r] = Idle
        BY <2>1, Becomes
      <4> QED
        BY <4>1 DEF Idle
    <3> QED
      BY <1>3, <1>10, <3>1 DEF Fails
  <2> QED
    BY <1>4, <1>7, <1>10, <2>1 DEF Fails
<1>11. CASE Fills(r) /\ Goes(r, "write")
  <2>1. pc(r) = "fill" /\ id(r) \in Ids /\ cached' = [cached EXCEPT ![id(r)] = request[r].copy]
    BY <1>11, BusyIsFull DEF Fills, Sited, Asked, pc, id
  <2>2. \A i \in Ids : cached'[i] = IF i = id(r) THEN request[r].copy ELSE cached[i]
    BY <2>1 DEF Types, EntryTypes
  <2>3. request'[r].pc # "fill"
    BY <1>11, StepPlace, GoesTo
  <2> QED
    BY <1>1, <1>2, <2>1, <2>2, <2>3, ReadWell
<1>12. CASE Fills(r) \/ Drops(r) \/ Inserts(r) \/ Removes(r) \/ WriteTemplate(r)
  BY <1>4, <1>11, <1>12 DEF Fills, Drops, Inserts, Removes, WriteTemplate, Continues
<1>13. CASE Writes(r, "drop") \/ Writes(r, "end") \/ DeleteBinding(r)
  BY <1>4, <1>7, <1>13 DEF Writes, DeleteBinding, Continues
<1>14. CASE AddPromptToCollection(r) \/ RemovePromptFromCollection(r)
  BY <1>4, <1>14 DEF AddPromptToCollection, RemovePromptFromCollection, Links
<1> QED
  BY <1>4, <1>5, <1>6, <1>8, <1>9, <1>10, <1>12, <1>13, <1>14, StepIs

\* A step of which the editor's request sees nothing.
LEMMA ProgressKept ==
  ASSUME Progress, UNCHANGED <<kind, rows, versions, sync>>, request'[Editor] = request[Editor], sync.kept \subseteq Ids,
         Busy /\ Op = "update" => Mine.id \in Ids
  PROVE  Progress'
<1>1. Listed' = Listed /\ \A i \in Ids : Entry(i)' = Entry(i)
  BY SameTable
<1>2. \A w : Met(w)' <=> Met(w)
  BY <1>1 DEF Met, Busy, Op, Mine, pc, Says
<1>3. Items => Items'
  BY <1>1 DEF Items, Apart, Says, Busy, Op, Mine, pc
<1>4. Deletes => Deletes'
  BY <1>1 DEF Deletes, Busy, Op, Mine, pc
<1> QED
  BY <1>1, <1>2, <1>3, <1>4 DEF Progress

LEMMA EditorNamed == Types => sync.kept \subseteq Ids /\ (Busy /\ Op # "create" => Mine.id \in Ids)
BY BusyIsFull, TypesSplit DEF SyncTypes, Busy, Op, Mine, Asked

LEMMA OtherSteady ==
  ASSUME Types, Steady, NEW r \in Requests \ {Editor}, Step(r) \/ Fails(r)
  PROVE  Steady'
<1>1. pc(r) # "idle" /\ request[r].op = "get" /\ Asked(request[r]) /\ Sited(request[r])
  BY StepPlace, BusyIsFull DEF Steady, Alone
<1>2. UNCHANGED <<kind, rows, versions>>
  <2>1. CASE Fills(r) \/ Drops(r) \/ LooksUp(r) \/ Fetches(r, "fill") \/ Fails(r)
    BY <2>1 DEF Fills, Drops, LooksUp, Fetches, Fails, tables
  <2>2. ~(Inserts(r) \/ DeleteBinding(r) \/ ReadVersion(r) \/ WriteTemplate(r) \/ Removes(r))
    BY <1>1 DEF Inserts, DeleteBinding, ReadVersion, WriteTemplate, Removes, Sited, pc
  <2>3. ~(Writes(r, "drop") \/ Writes(r, "end") \/ AddPromptToCollection(r) \/ RemovePromptFromCollection(r))
    BY <1>1 DEF Writes, AddPromptToCollection, RemovePromptFromCollection, Links, Fetching, Sited, pc
  <2> QED
    BY <1>1, <2>1, <2>2, <2>3, StepIs
<1>3. sync' = sync /\ request'[Editor] = request[Editor]
  BY StepSyncs, StepMoves DEF SyncMoved, Moved
<1>4. Progress'
  BY <1>2, <1>3, ProgressKept, EditorNamed DEF Steady
<1>5. ~Misread'
  BY <1>2, SameTable, StepReadsWell DEF Steady
<1>6. Alone'
  BY <1>1, StepMoves DEF Steady, Alone, Moved, pc
<1> QED
  BY <1>4, <1>5, <1>6 DEF Steady

\* What becomes of the entry that the editor's request is about, and of no other.
OnlyEntry(i) ==
  kind' = kind /\ \A j \in Ids \ {i} : rows'[j] = rows[j] /\ versions'[j] = versions[j]
SameRequest == request'[Editor].op = Op /\ request'[Editor].item = Mine

LEMMA OthersListed ==
  ASSUME NEW i \in Ids, OnlyEntry(i)
  PROVE  \A j \in Ids \ {i} : (j \in Listed' <=> j \in Listed) /\ Entry(j)' = Entry(j)
<1> SUFFICES ASSUME NEW j \in Ids \ {i} PROVE (j \in Listed' <=> j \in Listed) /\ Entry(j)' = Entry(j)
  OBVIOUS
<1> QED
  BY SameEntry DEF OnlyEntry

\* An update that reads.
LEMMA UpdateReads ==
  ASSUME Types, Progress, sync.pc = "items", Busy, Op = "update", UNCHANGED <<kind, rows, versions, sync>>, SameRequest,
         request'[Editor].pc \in {"fetch", "fill", "write", "commit"},
         request'[Editor].pc \in {"write", "commit"} => request'[Editor].copy.live,
         request'[Editor].pc = "commit" => request'[Editor].seen = Len(versions[Mine.id])
  PROVE  Progress' /\ Listed' \subseteq Listed
<1>1. Listed' = Listed /\ \A i \in Ids : Entry(i)' = Entry(i)
  BY SameTable
<1>2. \A w \in sync.wish : Met(w)'
  <2> SUFFICES ASSUME NEW w \in sync.wish PROVE Met(w)'
    OBVIOUS
  <2>1. Met(w)
    BY DEF Progress
  <2> QED
    BY <1>1, <2>1, EditorNamed DEF Met, Busy, Op, Mine, pc, Says, SameRequest
<1>3. Items'
  <2>1. Items
    BY DEF Progress
  <2> QED
    BY <1>1, <2>1 DEF Items, Apart, Says, Busy, Op, Mine, pc, SameRequest
<1> QED
  BY <1>1, <1>2, <1>3, EditorNamed DEF Progress

\* An update that writes, and leaves the cache for later.
LEMMA UpdateWrites ==
  ASSUME Types, Progress, sync.pc = "items", Busy, Op = "update", NEW i \in Ids, i = Mine.id, OnlyEntry(i), sync' = sync, SameRequest,
         request'[Editor].pc = "drop", i \in Listed', Entry(i)' = Says(Mine)
  PROVE  Progress' /\ Listed' \subseteq Listed
<1>1. /\ i \in Ids /\ i \in Listed /\ i \in sync.listed \ sync.kept /\ Items /\ sync.kept \subseteq Ids
      /\ Says(Mine) \in sync.wish
  BY EditorNamed DEF Progress, Items
<1>2. \A j \in Ids \ {i} : (j \in Listed' <=> j \in Listed) /\ Entry(j)' = Entry(j)
  BY <1>1, OthersListed
<1>3. Listed' = Listed
  <2>1. Listed \subseteq Ids /\ Listed' \subseteq Ids
    BY DEF Listed
  <2>2. \A j \in Ids : j \in Listed' <=> j \in Listed
    BY <1>1, <1>2
  <2> QED
    BY <2>1, <2>2
<1>4. \A w \in sync.wish : Met(w)'
  <2> SUFFICES ASSUME NEW w \in sync.wish PROVE Met(w)'
    OBVIOUS
  <2>1. Met(w)
    BY DEF Progress
  <2> QED
    BY <1>1, <1>2, <1>3, <2>1 DEF Met, Busy, Op, Mine, pc, Says, SameRequest
<1>5. Items'
  BY <1>1, <1>3 DEF Items, Apart, Says, Busy, Op, Mine, pc, SameRequest
<1>6. \A j \in sync.kept \cap Listed : Entry(j)' \in sync.wish
  BY <1>1, <1>2 DEF Progress
<1> QED
  BY <1>3, <1>4, <1>5, <1>6 DEF Progress

\* An update that is over.
LEMMA UpdateEnds ==
  ASSUME Types, Progress, sync.pc = "items", Busy, Op = "update", NEW i \in Ids, i = Mine.id, OnlyEntry(i),
         sync' = [sync EXCEPT !.kept = @ \cup {i}],
         request'[Editor].pc = "idle", i \in Listed', Entry(i)' = Says(Mine)
  PROVE  Progress' /\ Listed' \subseteq Listed
<1>1. /\ i \in Ids /\ i \in Listed /\ i \in sync.listed \ sync.kept /\ Items /\ sync.kept \subseteq Ids
      /\ Says(Mine) \in sync.wish
  BY EditorNamed DEF Progress, Items
<1>2. \A j \in Ids \ {i} : (j \in Listed' <=> j \in Listed) /\ Entry(j)' = Entry(j)
  BY <1>1, OthersListed
<1>3. Listed' = Listed
  <2>1. Listed \subseteq Ids /\ Listed' \subseteq Ids
    BY DEF Listed
  <2>2. \A j \in Ids : j \in Listed' <=> j \in Listed
    BY <1>1, <1>2
  <2> QED
    BY <2>1, <2>2
<1>4. /\ sync'.kept = sync.kept \cup {i} /\ sync'.pc = sync.pc /\ sync'.todo = sync.todo
      /\ sync'.wish = sync.wish /\ sync'.listed = sync.listed
  BY DEF Types, EntryTypes
<1>5. \A w \in sync.wish : Met(w)'
  <2> SUFFICES ASSUME NEW w \in sync.wish PROVE Met(w)'
    OBVIOUS
  <2>1. Met(w)
    BY DEF Progress
  <2>2. CASE Says(Mine) = w
    BY <1>1, <1>3, <1>4, <2>2 DEF Met
  <2>3. CASE \E a \in sync.todo : Says(a) = w
    BY <1>4, <2>3 DEF Met, Says
  <2>4. CASE \E j \in sync.kept \cap Listed : Entry(j) = w
    BY <1>1, <1>2, <1>3, <1>4, <2>4 DEF Met
  <2> QED
    BY <2>1, <2>2, <2>3, <2>4 DEF Met
<1>6. Items'
  BY <1>1, <1>3, <1>4 DEF Items, Apart, Says, Busy, Op, Mine, pc
<1>7. \A j \in sync'.kept \cap Listed' : Entry(j)' \in sync'.wish
  BY <1>1, <1>2, <1>3, <1>4 DEF Progress
<1> QED
  BY <1>3, <1>4, <1>5, <1>6, <1>7 DEF Progress

\* A binding that loses its status, and is still in the cache.
LEMMA DeleteWrites ==
  ASSUME Types, Progress, sync.pc = "deletes", Busy, Op = "delete", NEW i \in Ids, i = Mine.id, OnlyEntry(i), sync' = sync, SameRequest,
         i \notin Listed'
  PROVE  Progress' /\ Listed' \subseteq Listed
<1>1. i \in Ids /\ i \notin sync.kept /\ Deletes /\ sync.kept \subseteq Ids
  BY EditorNamed DEF Progress, Deletes
<1>2. \A j \in Ids \ {i} : (j \in Listed' <=> j \in Listed) /\ Entry(j)' = Entry(j)
  BY <1>1, OthersListed
<1>3. Listed' \subseteq Listed
  <2>1. Listed' \subseteq Ids
    BY DEF Listed
  <2> QED
    BY <1>2, <2>1
<1>4. \A w \in sync.wish : Met(w)'
  <2> SUFFICES ASSUME NEW w \in sync.wish PROVE Met(w)'
    OBVIOUS
  <2>1. Met(w)
    BY DEF Progress
  <2> QED
    BY <1>1, <1>2, <2>1 DEF Met, Busy, Deletes
<1>5. Deletes'
  BY <1>1, <1>3 DEF Deletes, Busy, Op, Mine, pc, SameRequest
<1>6. \A j \in sync.kept \cap Listed' : Entry(j)' \in sync.wish
  BY <1>1, <1>2, <1>3 DEF Progress
<1> QED
  BY <1>3, <1>4, <1>5, <1>6 DEF Progress

\* A deletion that is over.
LEMMA DeleteEnds ==
  ASSUME Types, Progress, sync.pc = "deletes", Busy, Op = "delete", NEW i \in Ids, i = Mine.id, OnlyEntry(i),
         sync' = [sync EXCEPT !.kept = @ \cup {i}],
         request'[Editor].pc = "idle", i \notin Listed'
  PROVE  Progress' /\ Listed' \subseteq Listed
<1>1. i \in Ids /\ i \notin sync.kept /\ Deletes /\ sync.kept \subseteq Ids
  BY EditorNamed DEF Progress, Deletes
<1>2. \A j \in Ids \ {i} : (j \in Listed' <=> j \in Listed) /\ Entry(j)' = Entry(j)
  BY <1>1, OthersListed
<1>3. Listed' \subseteq Listed
  <2>1. Listed' \subseteq Ids
    BY DEF Listed
  <2> QED
    BY <1>2, <2>1
<1>4. /\ sync'.kept = sync.kept \cup {i} /\ sync'.pc = sync.pc /\ sync'.todo = sync.todo
      /\ sync'.wish = sync.wish /\ sync'.listed = sync.listed
  BY DEF Types, EntryTypes
<1>5. \A w \in sync.wish : Met(w)'
  <2> SUFFICES ASSUME NEW w \in sync.wish PROVE Met(w)'
    OBVIOUS
  <2>1. Met(w)
    BY DEF Progress
  <2> QED
    BY <1>1, <1>2, <1>4, <2>1 DEF Met, Busy, Deletes
<1>6. Deletes'
  BY <1>1, <1>3, <1>4 DEF Deletes, Busy, pc
<1>7. \A j \in sync'.kept \cap Listed' : Entry(j)' \in sync'.wish
  BY <1>1, <1>2, <1>3, <1>4 DEF Progress
<1> QED
  BY <1>3, <1>4, <1>5, <1>6, <1>7 DEF Progress

\* The first error ends the sync, and so does a create.
LEMMA GoesOn ==
  ASSUME Types, sync'.pc # "failed"
  PROVE  /\ ~Answered(Editor, FALSE)
         /\ \A ok \in BOOLEAN : Answered(Editor, ok) => ok /\ sync' = [sync EXCEPT !.kept = @ \cup {Mine.id}]
<1>1. [sync EXCEPT !.pc = "failed"].pc = "failed"
  BY DEF Types, EntryTypes
<1> QED
  BY <1>1 DEF Answered, Mine, id

LEMMA Ended ==
  ASSUME Types, Done(Editor) \/ Refused(Editor), sync'.pc # "failed"
  PROVE  /\ ~Refused(Editor) /\ Op # "create" /\ request'[Editor].pc = "idle"
         /\ sync' = [sync EXCEPT !.kept = @ \cup {Mine.id}]
<1>1. ~Refused(Editor)
  BY GoesOn DEF Refused
<1>2. Answered(Editor, Decoded(Op, TRUE)) /\ Decoded(Op, TRUE) \in BOOLEAN
  BY <1>1, GoesOn DEF Done, Decoded, Op
<1>3. Decoded(Op, TRUE) /\ sync' = [sync EXCEPT !.kept = @ \cup {Mine.id}]
  BY <1>2, GoesOn
<1> QED
  BY <1>1, <1>3, EndsIdle DEF Decoded

LEMMA CreateFails ==
  ASSUME Types, Op = "create", Step(Editor) \/ Fails(Editor)
  PROVE  sync'.pc = "failed"
<1>1. pc(Editor) = "create" /\ Sited(request[Editor])
  BY StepPlace, BusyIsFull DEF Sited, pc, Op
<1>2. CASE Done(Editor) \/ Refused(Editor)
  BY <1>2, Ended
<1>3. CASE Fails(Editor)
  BY <1>1, <1>2, <1>3 DEF Fails
<1>4. CASE Inserts(Editor)
  BY <1>2, <1>4 DEF Inserts
<1>5. ~(Fills(Editor) \/ Drops(Editor) \/ DeleteBinding(Editor) \/ ReadVersion(Editor) \/ WriteTemplate(Editor))
  BY <1>1 DEF Fills, Drops, DeleteBinding, ReadVersion, WriteTemplate
<1>6. ~(LooksUp(Editor) \/ Removes(Editor) \/ Fetches(Editor, "fill") \/ Fetches(Editor, "write"))
  BY <1>1 DEF LooksUp, Removes, Fetches
<1>7. ~(Writes(Editor, "drop") \/ Writes(Editor, "end") \/ AddPromptToCollection(Editor) \/ RemovePromptFromCollection(Editor))
  BY <1>1 DEF Writes, AddPromptToCollection, RemovePromptFromCollection, Links, Fetching
<1> QED
  BY <1>1, <1>3, <1>4, <1>5, <1>6, <1>7, StepIs

\* What the editor's update writes.
LEMMA UpdatedRow ==
  ASSUME Types, NEW i \in Ids, i = Mine.id, Op = "update", pc(Editor) = "write", request[Editor].copy.live,
         Stored(i, Changed(Editor)), kind' = kind, versions' = versions, kind # "prompt"
  PROVE  OnlyEntry(i) /\ i \in Listed' /\ Entry(i)' = Says(Mine)
<1>1. Changed(Editor) \in Row(kind) /\ Changed(Editor).live
  BY ChangedType
<1>2. Changed(Editor) = [request[Editor].copy EXCEPT !.name = Mine.name, !.value = Mine.value]
  BY DEF Changed, Op, Mine
<1>3. request[Editor].copy \in Row(kind)
  BY ChangedType
<1>4. Changed(Editor).name = Mine.name /\ Changed(Editor).value = Mine.value
  BY <1>2, <1>3 DEF Row
<1> DEFINE row == Changed(Editor)
<1>5. rows'[i] = row /\ \A j \in Ids \ {i} : rows'[j] = rows[j]
  BY DEF Stored, Types, EntryTypes
<1>6. OnlyEntry(i)
  BY <1>5 DEF OnlyEntry
<1> HIDE DEF row
<1>7. row # NoRow
  BY <1>1 DEF Row, NoRow, row
<1>8. row.live /\ row.name = Mine.name /\ row.value = Mine.value
  BY <1>1, <1>4 DEF row
<1>9. i \in Listed'
  BY <1>5, <1>7, <1>8 DEF Listed, Exists
<1>10. Entry(i)' = [name |-> row.name, value |-> row.value]
  BY <1>5 DEF Entry, Value
<1> QED
  BY <1>6, <1>8, <1>9, <1>10 DEF Says

LEMMA UpdatedTemplate ==
  ASSUME Types, Versioned, NEW i \in Ids, i = Mine.id, i \in Listed, Op = "update", pc(Editor) = "commit",
         request[Editor].seen = Len(versions[i]), WriteTemplate(Editor), ~Refused(Editor)
  PROVE  OnlyEntry(i) /\ i \in Listed' /\ Entry(i)' = Says(Mine)
<1> DEFINE n == Len(versions[i])
           new == Mine.value # versions[i][n]
<1>1. /\ kind = "prompt" /\ kind' = kind /\ Stored(i, [rows[i] EXCEPT !.name = Mine.name])
      /\ versions' = IF new THEN [versions EXCEPT ![i] = Append(versions[i], Mine.value)] ELSE versions
  BY DEF WriteTemplate, Mine, id
<1>2. rows[i] \in Row(kind) /\ rows[i].live /\ versions[i] \in Seq(Values[kind]) /\ n > 0 /\ n \in Nat
  <2>1. Exists(i) /\ rows[i].live
    BY DEF Listed
  <2>2. rows[i] \in Row(kind) /\ versions[i] \in Seq(Values[kind]) /\ versions[i] # <<>>
    BY <1>1, <2>1 DEF Types, EntryTypes, Exists, Versioned
  <2> QED
    BY <2>1, <2>2
<1>3. rows'[i] = [rows[i] EXCEPT !.name = Mine.name] /\ \A j \in Ids \ {i} : rows'[j] = rows[j]
  BY <1>1 DEF Stored, Types, EntryTypes
<1>4. /\ versions'[i] = IF new THEN Append(versions[i], Mine.value) ELSE versions[i]
      /\ \A j \in Ids \ {i} : versions'[j] = versions[j]
  BY <1>1 DEF Types, EntryTypes
<1>5. rows'[i].name = Mine.name /\ rows'[i].live /\ rows'[i] # NoRow
  BY <1>2, <1>3 DEF Row, NoRow
<1>6. versions'[i] # <<>> /\ versions'[i][Len(versions'[i])] = Mine.value
  <2>1. CASE new
    <3>1. versions'[i] = Append(versions[i], Mine.value)
      BY <1>4, <2>1
    <3>2. Len(Append(versions[i], Mine.value)) = n + 1 /\ Append(versions[i], Mine.value)[n + 1] = Mine.value
      BY <1>2
    <3> QED
      BY <1>2, <3>1, <3>2
  <2>2. CASE ~new
    BY <1>2, <1>4, <2>2
  <2> QED
    BY <2>1, <2>2
<1>7. Value(i)' = Mine.value
  BY <1>1, <1>6 DEF Value
<1>8. i \in Listed'
  BY <1>5 DEF Listed, Exists
<1>9. Entry(i)' = Says(Mine)
  BY <1>5, <1>7 DEF Entry, Says
<1>10. OnlyEntry(i)
  BY <1>1, <1>3, <1>4 DEF OnlyEntry
<1> QED
  BY <1>8, <1>9, <1>10

LEMMA EditorUpdates ==
  ASSUME Types, Versioned, Progress, ~Misread, sync.pc = "items", Op = "update",
         Step(Editor) \/ Fails(Editor), sync'.pc # "failed"
  PROVE  Progress' /\ Listed' \subseteq Listed
<1>1. /\ Busy /\ pc(Editor) # "idle" /\ request[Editor] \in FullRequest /\ kind' = kind
      /\ Asked(request[Editor]) /\ Sited(request[Editor])
  BY StepPlace, BusyIsFull DEF Busy
<1>2. PICK i \in Ids : i = Mine.id /\ i = id(Editor)
  BY <1>1, EditorNamed DEF Mine, id
<1>3. /\ i \in Listed /\ Items
      /\ pc(Editor) \in {"write", "commit"} => request[Editor].copy.live
      /\ pc(Editor) = "commit" => request[Editor].seen = Len(versions[i])
      /\ pc(Editor) = "drop" => Entry(i) = Says(Mine)
  BY <1>1, <1>2 DEF Progress, Items
<1>4. /\ cached[i] # NoRow => cached[i].live
      /\ pc(Editor) = "fill" => request[Editor].copy.live
  BY <1>2, <1>3 DEF Misread
<1>5. ASSUME UNCHANGED <<kind, rows, versions, sync>>, NEW p \in {"fetch", "write"}, Goes(Editor, p),
             p = "write" => request[Editor].copy.live
      PROVE  Progress' /\ Listed' \subseteq Listed
  BY <1>1, <1>5, GoesTo, UpdateReads DEF SameRequest, Op, Mine
<1>6. ASSUME Done(Editor) \/ Refused(Editor), OnlyEntry(i), i \in Listed', Entry(i)' = Says(Mine)
      PROVE  Progress' /\ Listed' \subseteq Listed
  <2>1. request'[Editor].pc = "idle" /\ sync' = [sync EXCEPT !.kept = @ \cup {i}]
    BY <1>2, <1>6, Ended
  <2> QED
    BY <1>1, <1>2, <1>6, <2>1, UpdateEnds
<1>7. ASSUME pc(Editor) = "drop", UNCHANGED <<kind, rows, versions>>
      PROVE  OnlyEntry(i) /\ i \in Listed' /\ Entry(i)' = Says(Mine)
  BY <1>3, <1>7, SameTable DEF OnlyEntry
<1>8. CASE Fails(Editor)
  <2>1. UNCHANGED <<kind, rows, versions>>
    BY <1>8 DEF Fails, tables
  <2>2. ~Refused(Editor)
    BY Ended
  <2>3. CASE pc(Editor) = "drop"
    <3>1. /\ Answered(Editor, Decoded(Op, TRUE)) /\ Decoded(Op, TRUE) \in BOOLEAN
          /\ request' = [request EXCEPT ![Editor] = Idle]
      BY <1>8, <2>3 DEF Fails, Op, Decoded
    <3>2. sync' = [sync EXCEPT !.kept = @ \cup {i}]
      BY <1>2, <3>1, GoesOn
    <3>3. request'[Editor] = Idle
      BY <3>1, Becomes
    <3>4. request'[Editor].pc = "idle"
      BY <3>3 DEF Idle
    <3> QED
      BY <1>1, <1>2, <1>7, <2>1, <2>3, <3>2, <3>4, UpdateEnds
  <2>4. CASE pc(Editor) = "lookup"
    BY <1>5, <1>8, <2>1, <2>4 DEF Fails
  <2>5. CASE pc(Editor) = "fill"
    BY <1>4, <1>5, <1>8, <2>1, <2>2, <2>5 DEF Fails
  <2> QED
    BY <1>8, <2>2, <2>3, <2>4, <2>5 DEF Fails
<1>9. CASE LooksUp(Editor)
  <2>1. CASE Continues(Editor, "fetch")
    BY <1>5, <1>9, <2>1 DEF LooksUp, Continues, tables
  <2>2. CASE /\ cached[i] # NoRow /\ UNCHANGED sync
             /\ request' = [request EXCEPT ![Editor].pc = "write", ![Editor].copy = cached[i]]
    <3>1. /\ request'[Editor].pc = "write" /\ request'[Editor].copy = cached[i] /\ request'[Editor].op = Op
          /\ request'[Editor].item = Mine
      BY <1>1, <2>2 DEF Types, EntryTypes, FullRequest, Op, Mine
    <3> QED
      BY <1>1, <1>4, <1>9, <2>2, <3>1, UpdateReads DEF SameRequest, LooksUp, tables
  <2> QED
    BY <1>2, <1>9, <2>1, <2>2 DEF LooksUp, Op
<1>10. CASE Fills(Editor)
  BY <1>4, <1>5, <1>10 DEF Fills, Continues, tables, Op
<1>11. ASSUME NEW next \in {"fill", "write"}, Fetches(Editor, next) PROVE Progress' /\ Listed' \subseteq Listed
  <2>1. ~Refused(Editor)
    BY Ended
  <2>2. /\ request'[Editor].pc = next /\ request'[Editor].op = Op /\ request'[Editor].item = Mine
        /\ UNCHANGED <<kind, rows, versions, sync>> /\ request'[Editor].copy.live
    BY <1>2, <1>3, <1>11, <2>1, FetchedLive DEF Op, Mine
  <2> QED
    BY <1>1, <2>2, UpdateReads DEF SameRequest
<1>12. CASE ReadVersion(Editor)
  <2>1. ~Refused(Editor)
    BY Ended
  <2>2. /\ pc(Editor) = "write" /\ UNCHANGED <<kind, rows, versions, sync>>
        /\ request' = [request EXCEPT ![Editor].pc = "commit", ![Editor].seen = Len(versions[i])]
    BY <1>2, <1>12, <2>1 DEF ReadVersion, tables
  <2>3. /\ request'[Editor].pc = "commit" /\ request'[Editor].copy = request[Editor].copy /\ request'[Editor].op = Op
        /\ request'[Editor].item = Mine /\ request'[Editor].seen = Len(versions[i])
    BY <1>1, <2>2 DEF Types, EntryTypes, FullRequest, Op, Mine
  <2> QED
    BY <1>1, <1>2, <1>3, <2>2, <2>3, UpdateReads DEF SameRequest
<1>13. ASSUME NEW next \in {"drop", "end"}, Writes(Editor, next), kind # "prompt" PROVE Progress' /\ Listed' \subseteq Listed
  <2>1. ~Refused(Editor)
    BY Ended
  <2>2. pc(Editor) = "write" /\ Stored(i, Changed(Editor)) /\ kind' = kind /\ versions' = versions
    BY <1>2, <1>13, <2>1 DEF Writes
  <2>3. OnlyEntry(i) /\ i \in Listed' /\ Entry(i)' = Says(Mine)
    BY <1>2, <1>3, <1>13, <2>2, UpdatedRow
  <2>4. CASE Done(Editor)
    BY <1>6, <2>3, <2>4
  <2>5. CASE Goes(Editor, "drop") /\ sync' = sync
    <3>1. request'[Editor].pc = "drop" /\ SameRequest
      BY <1>1, <2>5, GoesTo DEF SameRequest, Op, Mine
    <3> QED
      BY <1>1, <1>2, <2>3, <2>5, <3>1, UpdateWrites
  <2> QED
    BY <1>13, <2>1, <2>4, <2>5 DEF Writes, Continues
<1>14. CASE WriteTemplate(Editor)
  <2>1. ~Refused(Editor) /\ Done(Editor) /\ pc(Editor) = "commit"
    BY <1>14, Ended DEF WriteTemplate
  <2>2. OnlyEntry(i) /\ i \in Listed' /\ Entry(i)' = Says(Mine)
    BY <1>2, <1>3, <1>14, <2>1, UpdatedTemplate
  <2> QED
    BY <1>6, <2>1, <2>2
<1>15. CASE Drops(Editor)
  BY <1>6, <1>7, <1>15 DEF Drops, tables
<1>16. ~(Inserts(Editor) \/ DeleteBinding(Editor) \/ Removes(Editor))
  BY <1>1 DEF Inserts, DeleteBinding, Removes, Sited, pc, Op
<1>17. ~(AddPromptToCollection(Editor) \/ RemovePromptFromCollection(Editor))
  BY DEF AddPromptToCollection, RemovePromptFromCollection, Links, Fetching, Op
<1>18. ~(pc(Editor) = "fetch" /\ request[Editor].op = "attach")
  BY DEF Op
<1> QED
  BY <1>8, <1>9, <1>10, <1>11, <1>12, <1>13, <1>14, <1>15, <1>16, <1>17, <1>18, StepIs DEF Cached

LEMMA EditorDeletes ==
  ASSUME Types, Progress, sync.pc = "deletes", Op = "delete",
         Step(Editor) \/ Fails(Editor), sync'.pc # "failed"
  PROVE  Progress' /\ Listed' \subseteq Listed
<1>1. /\ Busy /\ pc(Editor) # "idle" /\ request[Editor] \in FullRequest /\ kind' = kind
      /\ Asked(request[Editor]) /\ Sited(request[Editor]) /\ pc(Editor) \in {"delete", "drop"}
  BY StepPlace, BusyIsFull DEF Busy, Sited, pc, Op
<1>2. PICK i \in Ids : i = Mine.id /\ i = id(Editor)
  BY <1>1, EditorNamed DEF Mine, id
<1>3. pc(Editor) = "drop" => i \notin Listed
  BY <1>1, <1>2 DEF Progress, Deletes
<1>4. ASSUME Done(Editor) \/ Refused(Editor), OnlyEntry(i), i \notin Listed' PROVE Progress' /\ Listed' \subseteq Listed
  <2>1. request'[Editor].pc = "idle" /\ sync' = [sync EXCEPT !.kept = @ \cup {i}]
    BY <1>2, <1>4, Ended
  <2> QED
    BY <1>1, <1>2, <1>4, <2>1, DeleteEnds
<1>5. ASSUME pc(Editor) = "drop", UNCHANGED <<kind, rows, versions>> PROVE OnlyEntry(i) /\ i \notin Listed'
  BY <1>3, <1>5, SameTable DEF OnlyEntry
<1>6. CASE Fails(Editor)
  <2>1. UNCHANGED <<kind, rows, versions>>
    BY <1>6 DEF Fails, tables
  <2>2. ~Refused(Editor)
    BY Ended
  <2>3. pc(Editor) = "drop"
    BY <1>1, <1>6, <2>2 DEF Fails
  <2>4. /\ Answered(Editor, Decoded(Op, TRUE)) /\ Decoded(Op, TRUE) \in BOOLEAN
        /\ request' = [request EXCEPT ![Editor] = Idle]
    BY <1>6, <2>3 DEF Fails, Op, Decoded
  <2>5. sync' = [sync EXCEPT !.kept = @ \cup {i}]
    BY <1>2, <2>4, GoesOn
  <2>6. request'[Editor] = Idle
    BY <2>4, Becomes
  <2>7. request'[Editor].pc = "idle"
    BY <2>6 DEF Idle
  <2> QED
    BY <1>1, <1>2, <1>5, <2>1, <2>3, <2>5, <2>7, DeleteEnds
<1>7. CASE Drops(Editor)
  BY <1>4, <1>5, <1>7 DEF Drops, tables
<1>8. CASE Removes(Editor)
  <2>1. ~Refused(Editor)
    BY Ended
  <2>2. Stored(i, NoRow) /\ versions' = [versions EXCEPT ![i] = <<>>] /\ Done(Editor)
    BY <1>2, <1>8, <2>1 DEF Removes
  <2>3. OnlyEntry(i) /\ i \notin Listed'
    BY <1>1, <2>2 DEF OnlyEntry, Stored, Listed, Exists, Types, EntryTypes
  <2> QED
    BY <1>4, <2>2, <2>3
<1>9. CASE DeleteBinding(Editor)
  <2>1. ~Refused(Editor)
    BY Ended
  <2>2. /\ Exists(i) /\ Stored(i, [rows[i] EXCEPT !.live = FALSE]) /\ versions' = versions
        /\ Goes(Editor, "drop") /\ sync' = sync
    BY <1>2, <1>9, <2>1 DEF DeleteBinding, Continues
  <2>3. rows[i] \in Row(kind)
    BY <2>2 DEF Exists, Types, EntryTypes
  <2>4. rows'[i] = [rows[i] EXCEPT !.live = FALSE] /\ \A j \in Ids \ {i} : rows'[j] = rows[j]
    BY <2>2 DEF Stored, Types, EntryTypes
  <2>5. ~rows'[i].live
    BY <2>3, <2>4 DEF Row
  <2>6. OnlyEntry(i) /\ i \notin Listed'
    BY <1>1, <2>2, <2>4, <2>5 DEF OnlyEntry, Listed
  <2>7. request'[Editor].pc = "drop" /\ SameRequest
    BY <1>1, <2>2, GoesTo DEF SameRequest, Op, Mine
  <2> QED
    BY <1>1, <1>2, <2>2, <2>6, <2>7, DeleteWrites
<1>10. ~(Inserts(Editor) \/ Fills(Editor) \/ ReadVersion(Editor) \/ WriteTemplate(Editor) \/ LooksUp(Editor))
  BY <1>1 DEF Inserts, Fills, ReadVersion, WriteTemplate, LooksUp
<1>11. ~(Fetches(Editor, "fill") \/ Fetches(Editor, "write") \/ Writes(Editor, "drop") \/ Writes(Editor, "end"))
  BY <1>1 DEF Fetches, Writes
<1>12. ~(AddPromptToCollection(Editor) \/ RemovePromptFromCollection(Editor) \/ pc(Editor) = "fetch")
  BY <1>1 DEF AddPromptToCollection, RemovePromptFromCollection, Links, Fetching
<1> QED
  BY <1>6, <1>7, <1>8, <1>9, <1>10, <1>11, <1>12, StepIs

LEMMA EditorSteady ==
  ASSUME Types, Versioned, EditorWrites, Syncing, Steady, Step(Editor) \/ Fails(Editor), sync'.pc # "failed"
  PROVE  Steady'
<1>1. Busy /\ Op \in {"create", "update", "delete"} /\ Op # "create"
  BY StepPlace, CreateFails DEF EditorWrites, Busy
<1>2. Progress' /\ Listed' \subseteq Listed
  <2>1. CASE sync.pc = "items"
    <3>1. Op = "update"
      BY <1>1, <2>1 DEF Steady, Progress, Items
    <3> QED
      BY <2>1, <3>1, EditorUpdates DEF Steady
  <2>2. CASE sync.pc = "deletes"
    <3>1. Op = "delete"
      BY <1>1, <2>2 DEF Steady, Progress, Deletes
    <3> QED
      BY <2>2, <3>1, EditorDeletes DEF Steady
  <2> QED
    BY <2>1, <2>2 DEF Syncing
<1>3. ~Misread'
  BY <1>2, StepReadsWell DEF Steady
<1>4. Alone'
  BY StepMoves DEF Steady, Alone, Moved, pc
<1> QED
  BY <1>2, <1>3, <1>4 DEF Steady

-----------------------------------------------------------------------------
(* The steps of the sync itself, of time, and of those who ask             *)

LEMMA BeginsAt ==
  ASSUME Types, NEW r \in Requests, NEW op, NEW item, Begins(r, op, item)
  PROVE  /\ pc(r) = "idle" /\ \A k \in Requests \ {r} : request'[k] = request[k]
         /\ request'[r].pc = First(op) /\ request'[r].op = op /\ request'[r].item = item
<1> DEFINE q == [pc |-> First(op), op |-> op, item |-> item, copy |-> NoRow, seen |-> 0]
<1>1. request' = [request EXCEPT ![r] = q] /\ pc(r) = "idle"
  BY DEF Begins
<1>2. q.pc = First(op) /\ q.op = op /\ q.item = item
  OBVIOUS
<1> HIDE DEF q
<1> QED
  BY <1>1, <1>2, Becomes

\* Nothing changes that a copy is read from or goes to.
LEMMA StillReadWell ==
  ASSUME Types, ~Misread, UNCHANGED <<kind, rows, versions, cached>>, NEW r \in Requests,
         \A k \in Requests \ {r} : request'[k] = request[k], request'[r] = request[r] \/ request'[r].pc # "fill"
  PROVE  ~Misread'
<1>1. Listed' = Listed
  BY SameTable
<1> QED
  BY <1>1, ReadWell

LEMMA AsksSteady ==
  ASSUME Types, Undisturbed => Steady, NEW r \in Requests, NEW op, NEW item, Asks(r, op, item), Undisturbed'
  PROVE  Steady'
<1>1. /\ r # Editor /\ Begins(r, op, item) /\ UNCHANGED <<kind, rows, versions, cached>>
      /\ sync' = [sync EXCEPT !.disturbed = @ \/ (Syncing /\ Writing(op))]
  BY DEF Asks, tables
<1>2. sync'.pc = sync.pc /\ sync'.disturbed = (sync.disturbed \/ (Syncing /\ Writing(op)))
  BY <1>1 DEF Types, EntryTypes
<1>3. Undisturbed /\ op = "get" /\ (sync.disturbed \/ (Syncing /\ Writing(op))) = FALSE
  BY <1>2 DEF Undisturbed, Syncing, Writing
<1>4. sync.disturbed = FALSE
  BY <1>3 DEF Undisturbed, Types, EntryTypes
<1>5. sync' = sync
  BY <1>1, <1>3, <1>4 DEF Types, EntryTypes
<1>6. request'[r].op = "get" /\ request'[r].pc = "lookup" /\ \A k \in Requests \ {r} : request'[k] = request[k]
  BY <1>1, <1>3, BeginsAt DEF First
<1>7. Steady
  BY <1>3
<1>8. Progress'
  BY <1>1, <1>5, <1>6, <1>7, ProgressKept, EditorNamed DEF Steady
<1>9. ~Misread'
  BY <1>1, <1>6, <1>7, StillReadWell DEF Steady
<1>10. Alone'
  BY <1>6, <1>7 DEF Steady, Alone, pc
<1> QED
  BY <1>8, <1>9, <1>10 DEF Steady

LEMMA ExpiresSteady ==
  ASSUME Types, Undisturbed => Steady, NEW i \in Ids, Expires(i), Undisturbed'
  PROVE  Steady'
<1>1. UNCHANGED <<kind, rows, versions, request, sync>> /\ \A j \in Ids : cached'[j] \in {cached[j], NoRow}
  BY DEF Expires, tables, Types, EntryTypes
<1>2. Steady
  BY <1>1 DEF Undisturbed, Syncing
<1>3. Listed' = Listed /\ Listed \subseteq Ids
  BY <1>1, SameTable DEF Listed
<1>4. ~Misread'
  BY <1>1, <1>2, <1>3, ReadWell DEF Steady
<1>5. Progress'
  BY <1>1, <1>2, ProgressKept, EditorNamed DEF Steady
<1>6. Alone'
  BY <1>1, <1>2 DEF Steady, Alone, pc
<1> QED
  BY <1>4, <1>5, <1>6 DEF Steady

LEMMA SyncListsSteady ==
  ASSUME Types, EditorWrites, Wishes, SyncLists, Undisturbed'
  PROVE  Steady'
<1> DEFINE disturbed == Misread \/ \E r \in Requests : pc(r) # "idle" /\ Writing(request[r].op)
<1>1. /\ sync.pc = "list" /\ UNCHANGED <<kind, rows, versions, cached, request>>
      /\ \/ sync' = [sync EXCEPT !.pc = "items", !.listed = Listed, !.kept = {}, !.disturbed = disturbed]
         \/ sync' = [sync EXCEPT !.pc = "failed"]
  BY DEF SyncLists, tables
<1> HIDE DEF disturbed
<1>2. sync' # [sync EXCEPT !.pc = "failed"]
  BY DEF Undisturbed, Syncing, Types, EntryTypes
<1>3. /\ sync'.pc = "items" /\ sync'.listed = Listed /\ sync'.kept = {} /\ sync'.disturbed = disturbed
      /\ sync'.wish = sync.wish /\ sync'.todo = sync.todo
  BY <1>1, <1>2 DEF Types, EntryTypes
<1>4. ~Misread /\ \A r \in Requests : pc(r) # "idle" => request[r].op = "get"
  BY <1>3 DEF Undisturbed, disturbed, Writing
<1>5. ~Busy
  BY <1>4 DEF EditorWrites, Busy, Op
<1>6. Listed' = Listed
  BY <1>1, SameTable
<1>7. ~Misread'
  BY <1>1, <1>4, StillReadWell
<1>8. Items'
  <2>1. \A a \in sync.todo : Says(a) \in sync.wish
    BY <1>1 DEF Wishes
  <2>2. Apart(sync.todo)
    BY <1>1 DEF Wishes
  <2> QED
    BY <1>1, <1>3, <1>5, <1>6, <2>1, <2>2 DEF Items, Apart, Says, Busy, pc
<1>9. \A w \in sync.wish : Met(w)'
  BY <1>1, <1>3 DEF Wishes, Met, Says
<1>10. Progress'
  BY <1>3, <1>8, <1>9 DEF Progress
<1>11. Alone'
  BY <1>1, <1>4 DEF Alone, pc
<1> QED
  BY <1>7, <1>10, <1>11 DEF Steady

LEMMA SyncItemSteady ==
  ASSUME Types, Undisturbed => Steady, SyncItem, Undisturbed'
  PROVE  Steady'
<1>1. PICK item \in sync.todo :
        /\ Begins(Editor, IF item.id \in sync.listed THEN "update" ELSE "create", item)
        /\ sync' = [sync EXCEPT !.todo = sync.todo \ {item}]
  BY DEF SyncItem
<1>2. sync.pc = "items" /\ UNCHANGED <<kind, rows, versions, cached>>
  BY DEF SyncItem, tables
<1>3. /\ sync'.pc = "items" /\ sync'.listed = sync.listed /\ sync'.kept = sync.kept
      /\ sync'.disturbed = sync.disturbed /\ sync'.wish = sync.wish /\ sync'.todo = sync.todo \ {item}
  BY <1>1, <1>2 DEF Types, EntryTypes
<1>4. Steady /\ Items
  BY <1>2, <1>3 DEF Undisturbed, Syncing, Steady, Progress
<1>5. /\ ~Busy /\ request'[Editor].item = item /\ request'[Editor].pc \in {"create", "lookup", "fetch"}
      /\ request'[Editor].op \in {"create", "update"}
      /\ request'[Editor].op = "update" => item.id \in sync.listed
      /\ \A k \in Requests \ {Editor} : request'[k] = request[k]
  BY <1>1, BeginsAt DEF First, Busy
<1>6. Listed' = Listed /\ \A i \in Ids : Entry(i)' = Entry(i)
  BY <1>2, SameTable
<1>7. item.id \in sync.listed => item.id # None
  BY DEF Types, EntryTypes
<1>8. Items'
  BY <1>3, <1>4, <1>5, <1>6, <1>7 DEF Items, Apart, Says, Busy, Op, Mine, pc
<1>9. \A w \in sync.wish : Met(w)'
  <2> SUFFICES ASSUME NEW w \in sync.wish PROVE Met(w)'
    OBVIOUS
  <2>1. Met(w)
    BY <1>4 DEF Steady, Progress
  <2> QED
    BY <1>3, <1>5, <1>6, <2>1, EditorNamed DEF Met, Busy, Op, Mine, pc, Says
<1>10. \A i \in sync.kept \cap Listed : Entry(i)' \in sync.wish
  BY <1>4, <1>6, EditorNamed DEF Steady, Progress
<1>11. Progress'
  BY <1>3, <1>6, <1>8, <1>9, <1>10 DEF Progress
<1>12. ~Misread'
  BY <1>2, <1>4, <1>5, StillReadWell DEF Steady
<1>13. Alone'
  BY <1>4, <1>5 DEF Steady, Alone, pc
<1> QED
  BY <1>11, <1>12, <1>13 DEF Steady

LEMMA SyncItemsDoneSteady ==
  ASSUME Types, Undisturbed => Steady, SyncItemsDone, Undisturbed'
  PROVE  Steady'
<1>1. /\ sync.pc = "items" /\ sync.todo = {} /\ ~Busy /\ UNCHANGED <<kind, rows, versions, cached, request>>
      /\ sync' = [sync EXCEPT !.pc = "deletes"]
  BY DEF SyncItemsDone, tables, Busy
<1>2. /\ sync'.pc = "deletes" /\ sync'.listed = sync.listed /\ sync'.kept = sync.kept
      /\ sync'.disturbed = sync.disturbed /\ sync'.wish = sync.wish /\ sync'.todo = sync.todo
  BY <1>1 DEF Types, EntryTypes
<1>3. Steady /\ Items
  BY <1>1, <1>2 DEF Undisturbed, Syncing, Steady, Progress
<1>4. Listed' = Listed /\ \A i \in Ids : Entry(i)' = Entry(i)
  BY <1>1, SameTable
<1>5. Deletes'
  BY <1>1, <1>2, <1>3, <1>4 DEF Deletes, Items, Busy, pc
<1>6. \A w \in sync.wish : Met(w)'
  <2> SUFFICES ASSUME NEW w \in sync.wish PROVE Met(w)'
    OBVIOUS
  <2>1. Met(w)
    BY <1>3 DEF Steady, Progress
  <2> QED
    BY <1>1, <1>2, <1>4, <2>1, EditorNamed DEF Met
<1>7. \A i \in sync.kept \cap Listed : Entry(i)' \in sync.wish
  BY <1>3, <1>4, EditorNamed DEF Steady, Progress
<1>8. Progress'
  BY <1>2, <1>4, <1>5, <1>6, <1>7 DEF Progress
<1>9. ~Misread' /\ Alone'
  BY <1>1, <1>3, StillReadWell DEF Steady, Alone, pc
<1> QED
  BY <1>8, <1>9 DEF Steady

LEMMA SyncDeleteSteady ==
  ASSUME Types, Undisturbed => Steady, SyncDelete, Undisturbed'
  PROVE  Steady'
<1>1. PICK i \in sync.listed \ sync.kept : Begins(Editor, "delete", [id |-> i])
  BY DEF SyncDelete
<1>2. sync.pc = "deletes" /\ UNCHANGED <<kind, rows, versions, cached, sync>>
  BY DEF SyncDelete, tables
<1>3. Steady /\ Deletes
  BY <1>2 DEF Undisturbed, Syncing, Steady, Progress
<1>4. /\ ~Busy /\ request'[Editor].item.id = i /\ request'[Editor].pc = "delete" /\ request'[Editor].op = "delete"
      /\ \A k \in Requests \ {Editor} : request'[k] = request[k]
  BY <1>1, BeginsAt DEF First, Busy
<1>5. Listed' = Listed /\ \A j \in Ids : Entry(j)' = Entry(j)
  BY <1>2, SameTable
<1>6. Deletes'
  BY <1>2, <1>3, <1>4, <1>5 DEF Deletes, Busy, Op, Mine, pc
<1>7. \A w \in sync.wish : Met(w)'
  <2> SUFFICES ASSUME NEW w \in sync.wish PROVE Met(w)'
    OBVIOUS
  <2>1. Met(w)
    BY <1>3 DEF Steady, Progress
  <2> QED
    BY <1>2, <1>4, <1>5, <2>1, EditorNamed DEF Met, Says
<1>8. \A j \in sync.kept \cap Listed : Entry(j)' \in sync.wish
  BY <1>3, <1>5, EditorNamed DEF Steady, Progress
<1>9. Progress'
  BY <1>2, <1>5, <1>6, <1>7, <1>8 DEF Progress
<1>10. ~Misread'
  BY <1>2, <1>3, <1>4, StillReadWell DEF Steady
<1>11. Alone'
  BY <1>3, <1>4 DEF Steady, Alone, pc
<1> QED
  BY <1>9, <1>10, <1>11 DEF Steady

\* Every template has a text.
LEMMA StepVersioned == ASSUME Types, Versioned, NEW r \in Requests, Step(r) \/ Fails(r) PROVE Versioned'
<1>1. kind' = kind
  BY StepPlace
<1>2. CASE UNCHANGED <<rows, versions>>
  BY <1>1, <1>2 DEF Versioned, Exists
<1>3. CASE kind # "prompt"
  BY <1>1, <1>3 DEF Versioned
<1>4. ASSUME NEW i \in Ids, NEW s, s # <<>>, versions' = [versions EXCEPT ![i] = s],
             \A j \in Ids \ {i} : rows'[j] = rows[j]
      PROVE  Versioned'
  <2>1. versions'[i] = s /\ \A j \in Ids \ {i} : versions'[j] = versions[j]
    BY <1>4 DEF Types, EntryTypes
  <2> QED
    BY <1>1, <1>4, <2>1 DEF Versioned, Exists
<1>5. CASE Inserts(r) /\ kind = "prompt" /\ ~UNCHANGED <<rows, versions>>
  <2> DEFINE v == request[r].item.value
  <2>1. PICK i \in Ids : /\ Stored(i, [name |-> request[r].item.name, value |-> v, live |-> TRUE])
                        /\ versions' = [versions EXCEPT ![i] = <<v>>]
    BY <1>5 DEF Inserts
  <2>2. <<v>> # <<>>
    OBVIOUS
  <2>3. \A j \in Ids \ {i} : rows'[j] = rows[j]
    BY <2>1 DEF Stored, Types, EntryTypes
  <2> QED
    BY <1>4, <2>1, <2>2, <2>3
<1>6. CASE WriteTemplate(r) /\ ~UNCHANGED <<rows, versions>>
  <2> DEFINE i == id(r)
             text == Append(versions[i], request[r].item.value)
  <2>1. /\ kind = "prompt" /\ Exists(i) /\ versions' \in {versions, [versions EXCEPT ![i] = text]}
        /\ Stored(i, [rows[i] EXCEPT !.name = request[r].item.name])
    BY <1>6 DEF WriteTemplate
  <2>2. i \in Ids
    BY <1>6, BusyIsFull DEF WriteTemplate, Asked, Sited, pc, id
  <2>3. \A j \in Ids \ {i} : rows'[j] = rows[j]
    BY <2>1 DEF Stored, Types, EntryTypes
  <2>4. CASE versions' = versions
    <3>1. \A j \in Ids : Exists(j)' => Exists(j)
      BY <2>1, <2>3 DEF Exists
    <3> QED
      BY <1>1, <2>4, <3>1 DEF Versioned
  <2>5. CASE versions' = [versions EXCEPT ![i] = text]
    <3>1. versions[i] \in Seq(Values[kind])
      BY <2>2 DEF Types, EntryTypes
    <3>2. text # <<>>
      BY <3>1
    <3> HIDE DEF i, text
    <3> QED
      BY <1>4, <2>2, <2>3, <2>5, <3>2
  <2> QED
    BY <2>1, <2>4, <2>5
<1>7. CASE Removes(r) /\ ~UNCHANGED <<rows, versions>>
  <2> DEFINE i == id(r)
  <2>1. Stored(i, NoRow) /\ versions' = [versions EXCEPT ![i] = <<>>]
    BY <1>7 DEF Removes
  <2>2. /\ \A j \in Ids : j = i => ~Exists(j)'
        /\ \A j \in Ids \ {i} : rows'[j] = rows[j] /\ versions'[j] = versions[j]
    BY <2>1 DEF Stored, Types, EntryTypes, Exists
  <2> HIDE DEF i
  <2> QED
    BY <1>1, <2>2 DEF Versioned, Exists
<1>8. CASE Fills(r) \/ Drops(r) \/ LooksUp(r) \/ ReadVersion(r) \/ Fails(r)
  BY <1>2, <1>8 DEF Fills, Drops, LooksUp, ReadVersion, Fails, tables
<1>9. CASE Fetches(r, "fill") \/ Fetches(r, "write") \/ UNCHANGED <<tables, cached, history>>
  BY <1>2, <1>9 DEF Fetches, tables
<1>10. CASE DeleteBinding(r)
  BY <1>3, <1>10 DEF DeleteBinding
<1> QED
  BY <1>2, <1>3, <1>5, <1>6, <1>7, <1>8, <1>9, <1>10, StepIs DEF Cached

LEMMA StepSync == ASSUME Types, SyncInv, NEW r \in Requests, Step(r) \/ Fails(r) PROVE SyncInv'
<1>1. EditorWrites'
  <2>1. Moved(r) /\ pc(r) # "idle" /\ EditorWrites
    BY StepMoves, StepPlace DEF SyncInv
  <2>2. CASE r = Editor
    BY <2>1, <2>2 DEF EditorWrites, Busy, Op, Moved, pc
  <2>3. CASE r # Editor
    BY <2>1, <2>3 DEF EditorWrites, Busy, Op, Moved, pc
  <2> QED
    BY <2>2, <2>3
<1>2. /\ sync'.wish = sync.wish /\ sync'.todo = sync.todo /\ sync'.disturbed = sync.disturbed
      /\ sync'.pc \in {sync.pc, "failed"}
  <2>1. /\ sync' \in {sync, [sync EXCEPT !.pc = "failed"], [sync EXCEPT !.kept = @ \cup {id(r)}]}
        /\ {"pc", "wish", "todo", "disturbed", "kept"} \subseteq DOMAIN sync
    BY StepSyncs DEF SyncMoved, Types, EntryTypes
  <2> QED
    BY <2>1
<1>3. Wishes'
  BY <1>2 DEF SyncInv, Wishes, Says, Apart
<1>4. ASSUME Undisturbed' PROVE Steady'
  <2>1. sync'.pc # "failed" /\ Syncing /\ Steady
    BY <1>2, <1>4 DEF SyncInv, Undisturbed, Syncing
  <2> QED
    BY <2>1, OtherSteady, EditorSteady DEF SyncInv
<1> QED
  BY <1>1, <1>3, <1>4, StepVersioned DEF SyncInv

LEMMA SameVersions == Versioned /\ UNCHANGED <<kind, rows, versions>> => Versioned'
BY DEF Versioned, Exists

LEMMA AsksSync ==
  ASSUME Types, SyncInv, NEW r \in Requests, NEW op, NEW item, Asks(r, op, item)
  PROVE  SyncInv'
<1>1. /\ r # Editor /\ Begins(r, op, item) /\ UNCHANGED <<kind, rows, versions>>
      /\ sync' = [sync EXCEPT !.disturbed = @ \/ (Syncing /\ Writing(op))]
  BY DEF Asks, tables
<1>2. request'[Editor] = request[Editor]
  BY <1>1, BeginsAt
<1>3. EditorWrites'
  BY <1>2 DEF SyncInv, EditorWrites, Busy, Op, pc
<1>4. Wishes'
  <2>1. sync'.pc = sync.pc /\ sync'.wish = sync.wish /\ sync'.todo = sync.todo
    BY <1>1 DEF Types, EntryTypes
  <2> QED
    BY <2>1 DEF SyncInv, Wishes, Says, Apart
<1>5. Undisturbed' => Steady'
  BY AsksSteady DEF SyncInv
<1> QED
  BY <1>1, <1>3, <1>4, <1>5, SameVersions DEF SyncInv

LEMMA ExpiresSync == ASSUME Types, SyncInv, NEW i \in Ids, Expires(i) PROVE SyncInv'
<1>1. UNCHANGED <<kind, rows, versions, request, sync>>
  BY DEF Expires, tables
<1>2. EditorWrites' /\ Wishes' /\ Versioned'
  BY <1>1, SameVersions DEF SyncInv, EditorWrites, Busy, Op, pc, Wishes, Says, Apart
<1> QED
  BY <1>2, ExpiresSteady DEF SyncInv

\* The list of a user, as it is sent: each name once, and each entry for one name.
LEMMA AdvancedSyncSync == ASSUME Types, SyncInv, AdvancedSync PROVE SyncInv'
<1> DEFINE Wished(names, value) == {[name |-> n, value |-> value[n]] : n \in names}
           Sent(names, value, of) == {[id |-> of[n], name |-> n, value |-> value[n]] : n \in names}
<1>1. PICK names \in SUBSET Names :
        \E value \in [names -> Values[kind]], of \in [names -> {i \in Ids : Exists(i)} \cup {None}] :
          /\ \A n, m \in names : of[n] = of[m] => n = m \/ of[n] = None
          /\ sync' = [sync EXCEPT !.pc = "list", !.wish = Wished(names, value), !.todo = Sent(names, value, of)]
  <2>1. PICK names \in {S \in SUBSET Names : Cardinality(S) \in 1..MaxItems[kind]} :
        \E value \in [names -> Values[kind]], of \in [names -> {i \in Ids : Exists(i)} \cup {None}] :
          /\ \A n, m \in names : of[n] = of[m] => n = m \/ of[n] = None
          /\ sync' = [sync EXCEPT !.pc = "list", !.wish = Wished(names, value), !.todo = Sent(names, value, of)]
    BY Zenon DEF AdvancedSync
  <2>2. names \in SUBSET Names
    OBVIOUS
  <2> QED
    BY <2>1, <2>2, Zenon
<1>2. PICK value \in [names -> Values[kind]], of \in [names -> {i \in Ids : Exists(i)} \cup {None}] :
          /\ \A n, m \in names : of[n] = of[m] => n = m \/ of[n] = None
          /\ sync' = [sync EXCEPT !.pc = "list", !.wish = Wished(names, value), !.todo = Sent(names, value, of)]
  BY <1>1
<1> DEFINE wish == Wished(names, value)
           todo == Sent(names, value, of)
<1>3. \A v, w \in wish : v.name = w.name => v = w
  OBVIOUS
<1>4. Apart(todo)
  <2> SUFFICES ASSUME NEW a \in todo, NEW b \in todo, a.id = b.id, a.id # None PROVE a = b
    BY DEF Apart
  <2>1. PICK n \in names : a = [id |-> of[n], name |-> n, value |-> value[n]]
    OBVIOUS
  <2>2. PICK m \in names : b = [id |-> of[m], name |-> m, value |-> value[m]]
    OBVIOUS
  <2>3. n = m
    BY <1>2, <2>1, <2>2
  <2> QED
    BY <2>1, <2>2, <2>3
<1>5. {Says(a) : a \in todo} = wish
  <2>1. \A n \in names : Says([id |-> of[n], name |-> n, value |-> value[n]]) = [name |-> n, value |-> value[n]]
    BY DEF Says
  <2>2. \A a \in todo : Says(a) \in wish
    BY <2>1
  <2>3. ASSUME NEW w \in wish PROVE \E a \in todo : w = Says(a)
    <3>1. PICK n \in names : w = [name |-> n, value |-> value[n]]
      OBVIOUS
    <3>2. [id |-> of[n], name |-> n, value |-> value[n]] \in todo
      OBVIOUS
    <3> QED
      BY <2>1, <3>1, <3>2
  <2> QED
    BY <2>2, <2>3
<1> HIDE DEF wish, todo
<1>6. /\ sync'.pc = "list" /\ sync'.wish = wish /\ sync'.todo = todo /\ UNCHANGED <<kind, rows, versions, request>>
  BY <1>2 DEF AdvancedSync, tables, Types, EntryTypes, wish, todo
<1>7. Wishes'
  BY <1>3, <1>4, <1>5, <1>6 DEF Wishes, Apart, Says
<1>8. EditorWrites' /\ ~Undisturbed'
  BY <1>6 DEF SyncInv, EditorWrites, Busy, Op, pc, Undisturbed, Syncing
<1> QED
  BY <1>6, <1>7, <1>8, SameVersions DEF SyncInv

LEMMA AgainSync == ASSUME Types, SyncInv, Again PROVE SyncInv'
<1> DEFINE of(n) == IF Holders(n) = {} THEN None ELSE CHOOSE i \in Holders(n) : TRUE
           item(w) == [id |-> of(w.name), name |-> w.name, value |-> w.value]
           todo == {item(w) : w \in sync.wish}
<1>1. sync' = [sync EXCEPT !.pc = "list", !.todo = todo] /\ UNCHANGED <<kind, rows, versions, request>>
  BY DEF Again, tables
<1>2. \A n, m : of(n) = of(m) => n = m \/ of(n) = None
  <2> SUFFICES ASSUME NEW n, NEW m, of(n) = of(m), of(n) # None PROVE n = m
    OBVIOUS
  <2>1. of(n) \in Holders(n) /\ of(n) \in Holders(m)
    BY DEF Holders, Listed
  <2> HIDE DEF of
  <2> QED
    BY <2>1 DEF Holders
<1> HIDE DEF of
<1>3. Apart(todo)
  <2> SUFFICES ASSUME NEW a \in todo, NEW b \in todo, a.id = b.id, a.id # None PROVE a = b
    BY DEF Apart
  <2>1. PICK v \in sync.wish : a = item(v)
    OBVIOUS
  <2>2. PICK w \in sync.wish : b = item(w)
    OBVIOUS
  <2>3. v.name = w.name
    BY <1>2, <2>1, <2>2
  <2> QED
    BY <2>1, <2>2, <2>3 DEF SyncInv, Wishes
<1>4. {Says(a) : a \in todo} = sync.wish
  <2>1. \A w \in sync.wish : Says(item(w)) = w
    BY DEF Says, Types, EntryTypes, Wish
  <2>2. \A a \in todo : Says(a) \in sync.wish
    BY <2>1
  <2>3. \A w \in sync.wish : \E a \in todo : w = Says(a)
    BY <2>1
  <2> QED
    BY <2>2, <2>3
<1> HIDE DEF todo
<1>5. sync'.pc = "list" /\ sync'.wish = sync.wish /\ sync'.todo = todo
  BY <1>1 DEF Types, EntryTypes
<1>6. Wishes'
  BY <1>3, <1>4, <1>5 DEF SyncInv, Wishes, Apart, Says
<1>7. EditorWrites' /\ ~Undisturbed'
  BY <1>1, <1>5 DEF SyncInv, EditorWrites, Busy, Op, pc, Undisturbed, Syncing
<1> QED
  BY <1>1, <1>6, <1>7, SameVersions DEF SyncInv

LEMMA SyncStepSync == ASSUME Types, SyncInv, SyncStep PROVE SyncInv'
<1>1. CASE SyncItem \/ SyncDelete
  <2>1. /\ UNCHANGED <<kind, rows, versions>> /\ sync'.wish = sync.wish /\ sync'.pc = sync.pc /\ sync.pc # "list"
        /\ \E op \in {"create", "update", "delete"} : \E item : Begins(Editor, op, item)
    <3>1. CASE SyncItem
      <4>1. PICK item \in sync.todo :
              /\ Begins(Editor, IF item.id \in sync.listed THEN "update" ELSE "create", item)
              /\ sync' = [sync EXCEPT !.todo = sync.todo \ {item}]
        BY <3>1 DEF SyncItem
      <4>2. (IF item.id \in sync.listed THEN "update" ELSE "create") \in {"create", "update", "delete"}
        OBVIOUS
      <4> QED
        BY <3>1, <4>1, <4>2 DEF SyncItem, tables, Types, EntryTypes
    <3>2. CASE SyncDelete
      BY <3>2 DEF SyncDelete, tables
    <3> QED
      BY <1>1, <3>1, <3>2
  <2>2. EditorWrites'
    BY <2>1, BeginsAt DEF EditorWrites, Busy, Op, pc
  <2>3. Wishes'
    BY <2>1 DEF SyncInv, Wishes
  <2> QED
    BY <1>1, <2>1, <2>2, <2>3, SameVersions, SyncItemSteady, SyncDeleteSteady DEF SyncInv
<1>2. CASE SyncLists \/ SyncItemsDone \/ SyncDone
  <2>1. UNCHANGED <<kind, rows, versions, request>> /\ sync'.wish = sync.wish /\ sync'.pc # "list"
    <3>1. CASE SyncLists
      BY <3>1 DEF SyncLists, tables, Types, EntryTypes
    <3>2. CASE SyncItemsDone
      BY <3>2 DEF SyncItemsDone, tables, Types, EntryTypes
    <3>3. CASE SyncDone
      BY <3>3 DEF SyncDone, tables, Types, EntryTypes
    <3> QED
      BY <1>2, <3>1, <3>2, <3>3
  <2>2. EditorWrites' /\ Wishes' /\ Versioned'
    BY <2>1, SameVersions DEF SyncInv, EditorWrites, Busy, Op, pc, Wishes
  <2>3. SyncDone => ~Undisturbed'
    BY DEF SyncDone, Undisturbed, Syncing, Types, EntryTypes
  <2> QED
    BY <1>2, <2>2, <2>3, SyncListsSteady, SyncItemsDoneSteady DEF SyncInv
<1> QED
  BY <1>1, <1>2 DEF SyncStep, SyncAgents, SyncBindings, SyncMCPServers, SyncSkills, SyncPrompts, SyncCommunities

LEMMA SyncNext == Types /\ SyncInv /\ [Next]_vars => SyncInv'
<1> SUFFICES ASSUME Types, SyncInv, [Next]_vars PROVE SyncInv'
  OBVIOUS
<1>1. ASSUME UNCHANGED vars \/ \E i \in Ids : AgentAssigned(i) \/ AgentUnassigned(i)
      PROVE  SyncInv'
  <2>1. UNCHANGED <<kind, rows, versions, cached, request, sync>>
    BY <1>1, StaffingChanges DEF vars, tables
  <2>2. EditorWrites' /\ Versioned' /\ Wishes'
    BY <2>1, SameVersions DEF SyncInv, EditorWrites, Busy, Op, pc, Wishes, Apart, Says
  <2>3. ASSUME Undisturbed' PROVE Steady'
    <3>1. Steady
      BY <2>1, <2>3 DEF SyncInv, Undisturbed, Syncing
    <3>2. Progress'
      BY <2>1, <3>1, ProgressKept, EditorNamed DEF Steady
    <3> QED
      BY <2>1, <3>1, <3>2, StillReadWell DEF Steady, Alone, pc
  <2> QED
    BY <2>2, <2>3 DEF SyncInv
<1>2. ASSUME NEW r \in Requests, AskCreate(r) \/ AskUpdate(r) \/ AskDelete(r) \/ AskGet(r) \/ AskLink(r) PROVE SyncInv'
  BY <1>2, AsksSync DEF AskCreate, AskUpdate, AskDelete, AskGet, AskLink
<1> QED
  BY <1>1, <1>2, StepSync, ExpiresSync, AdvancedSyncSync, AgainSync, SyncStepSync DEF Next

LEMMA SyncInit == Init => SyncInv
<1> SUFFICES ASSUME Init PROVE SyncInv
  OBVIOUS
<1>1. ~Busy /\ sync = NoSync
  BY DEF Init, Busy, Idle, pc
<1>2. Versioned
  <2>1. versions = [i \in Ids |-> IF kind = "prompt" /\ rows[i] # NoRow THEN <<rows[i].value>> ELSE <<>>]
    BY DEF Init
  <2>2. \A v : <<v>> # <<>>
    OBVIOUS
  <2> QED
    BY <2>1, <2>2 DEF Versioned, Exists
<1>3. Wishes /\ ~Undisturbed /\ EditorWrites
  BY <1>1 DEF NoSync, Wishes, Undisturbed, Syncing, EditorWrites
<1> QED
  BY <1>2, <1>3 DEF SyncInv

\* A sync that reports success leaves exactly the entries of its list, whatever the kind,
\* the list and the failures, unless another request has written meanwhile or the cache
\* took a listed binding for deleted.
THEOREM SyncIsExact == Spec => SyncExact
<1> DEFINE Exactly == sync.pc # "done" /\ sync'.pc = "done" /\ ~sync.disturbed
                        => {[name |-> rows[i].name, value |-> Value(i)] : i \in Listed} = sync.wish
<1>1. Types /\ SyncInv /\ [Next]_vars => [Exactly]_vars
  <2> SUFFICES ASSUME Types, SyncInv, Next, sync.pc # "done", sync'.pc = "done", ~sync.disturbed
               PROVE  {[name |-> rows[i].name, value |-> Value(i)] : i \in Listed} = sync.wish
    BY DEF vars, tables
  <2>1. ~\E r \in Requests : Step(r) \/ Fails(r)
    BY StepSyncs DEF SyncMoved, Types, EntryTypes
  <2>2. ~\E r \in Requests : AskCreate(r) \/ AskUpdate(r) \/ AskDelete(r) \/ AskGet(r) \/ AskLink(r)
    <3>1. ASSUME NEW r, NEW op, NEW item, Asks(r, op, item) PROVE FALSE
      BY <3>1 DEF Asks, Types, EntryTypes
    <3> QED
      BY <3>1 DEF AskCreate, AskUpdate, AskDelete, AskGet, AskLink
  <2>3. ~(AdvancedSync \/ Again \/ \E i \in Ids : Expires(i) \/ AgentAssigned(i) \/ AgentUnassigned(i))
    BY StaffingChanges DEF AdvancedSync, Again, Expires, Types, EntryTypes
  <2>4. ~(SyncItem \/ SyncLists \/ SyncItemsDone \/ SyncDelete)
    BY DEF SyncItem, SyncLists, SyncItemsDone, SyncDelete, Types, EntryTypes
  <2>5. SyncDone
    BY <2>1, <2>2, <2>3, <2>4 DEF Next, SyncStep, SyncAgents, SyncBindings, SyncMCPServers, SyncSkills, SyncPrompts,
       SyncCommunities
  <2>6. sync.pc = "deletes" /\ sync.listed \subseteq sync.kept /\ ~Busy
    BY <2>5 DEF SyncDone, Busy
  <2>7. Progress /\ Deletes
    BY <2>6 DEF SyncInv, Undisturbed, Syncing, Steady, Progress
  <2>8. \A i \in Listed : Entry(i) \in sync.wish
    BY <2>6, <2>7 DEF Progress, Deletes
  <2>9. \A w \in sync.wish : \E i \in Listed : w = Entry(i)
    BY <2>6, <2>7 DEF Progress, Deletes, Met
  <2> QED
    BY <2>8, <2>9 DEF Entry
<1> QED
  BY <1>1, TypesInit, TypesNext, SyncInit, SyncNext, PTL DEF Spec, SyncExact
===============================================================================
