--------------------------- MODULE BffSessionProofs ---------------------------
(***************************************************************************)
(* The safety of BffSession for any sessions, replicas, handlers, tokens   *)
(* and failures: the indexes find what is stored, what was deleted stays   *)
(* deleted unless a refresh had read it, and a token is presented once.    *)
(***************************************************************************)
EXTENDS BffSession, TLAPS

USE ConstantsAssumption

\* What the local variables of a handler are at each of its places.
AtSession == {"exchange", "get", "do", "join", "call", "served", "stream", "save", "delGet", "del"}
WithCopy == {"do", "call", "served", "stream", "save", "del"}

Shaped(r) ==
  /\ r.pc = "exchange" => r.job = "callback"
  /\ r.pc \in {"get", "do", "join", "call", "served", "stream"} => r.job \in {"request", "logout"}
  /\ r.pc = "save" => r.job \in {"callback", "request", "logout"}
  /\ r.pc \in {"delGet", "del"} => r.job \in {"logout", "sid", "sub"}
  /\ r.pc = "sidGet" => r.job = "sid" /\ r.copy.sid \in Sids
  /\ r.pc \in {"members", "delIndex"} => r.job = "sub"
  /\ r.pc \in AtSession => r.s \in Sessions
  /\ r.pc \in WithCopy => r.copy \in Session

Shape == \A h \in Handlers : Shaped(handler[h])
Types == TypeOK /\ Shape

\* The records that a handler becomes, for the type lemmas.
GoodRecord(r) == r \in Handler /\ Shaped(r)

-----------------------------------------------------------------------------
LEMMA IdleGood == GoodRecord(Idle)
BY DEF GoodRecord, Handler, Shaped, Idle, AtSession, WithCopy

LEMMA NoSessionNone == NoSession.sid = None /\ NoSession \in [sid : Sids \cup {None}]
BY DEF NoSession

LEMMA PassedGood ==
  ASSUME NEW k \in Handlers, NEW copy \in Session, GoodRecord(handler[k]),
         pc(k) \in {"get", "do", "join", "call", "save"}, handler[k].job \in {"request", "logout"}
  PROVE  GoodRecord(Passed(k, copy))
<1>1. handler[k] \in [pc : {"get", "do", "join", "call", "save"}, job : {"request", "logout"},
                      at : Processes, s : Sessions, copy : Session \cup [sid : Sids \cup {None}],
                      todo : SUBSET Sessions]
  BY DEF GoodRecord, Handler, Shaped, AtSession, pc, Idle
<1>2. CASE handler[k].job = "logout"
  <2> DEFINE r == [handler[k] EXCEPT !.pc = "delGet", !.copy = NoSession]
  <2>1. r.pc = "delGet" /\ r.job = "logout" /\ r.s \in Sessions
    BY <1>1, <1>2
  <2>2. r \in Handler
    BY <1>1, <1>2, NoSessionNone DEF Handler
  <2>3. Passed(k, copy) = r
    BY <1>2 DEF Passed
  <2> HIDE DEF r
  <2> QED
    BY <2>1, <2>2, <2>3 DEF GoodRecord, Shaped, AtSession, WithCopy
<1>3. CASE handler[k].job # "logout"
  <2> DEFINE r == [handler[k] EXCEPT !.pc = "served", !.copy = copy]
  <2>1. r.pc = "served" /\ r.job = "request" /\ r.s \in Sessions /\ r.copy \in Session
    BY <1>1, <1>3
  <2>2. r \in Handler
    BY <1>1, <1>3 DEF Handler
  <2>3. Passed(k, copy) = r
    BY <1>3 DEF Passed
  <2> HIDE DEF r
  <2> QED
    BY <2>1, <2>2, <2>3 DEF GoodRecord, Shaped, AtSession, WithCopy
<1> QED
  BY <1>2, <1>3

\* A request that begins, and a handler that goes on by itself.
LEMMA BeginsGood ==
  ASSUME Types, NEW h \in Handlers, NEW job, NEW place, NEW s, NEW copy,
         \A p \in Processes :
           GoodRecord([pc |-> place, job |-> job, at |-> p, s |-> s, copy |-> copy, todo |-> {}]),
         Begins(h, job, place, s, copy)
  PROVE  handler' \in [Handlers -> Handler] /\ Shape'
BY DEF Types, TypeOK, Shape, Begins, GoodRecord

LEMMA BecomesGood ==
  ASSUME Types, NEW h \in Handlers, NEW r, GoodRecord(r), Becomes(h, r)
  PROVE  handler' \in [Handlers -> Handler] /\ Shape'
BY DEF Types, TypeOK, Shape, Becomes, GoodRecord

LEMMA EndsGood ==
  ASSUME Types, NEW h \in Handlers, Ends(h)
  PROVE  handler' \in [Handlers -> Handler] /\ Shape'
BY IdleGood, BecomesGood DEF Ends

LEMMA RecordsGood == ASSUME Types, NEW h \in Handlers PROVE GoodRecord(handler[h])
BY DEF Types, TypeOK, Shape, GoodRecord

\* A handler at a place has all its fields.
Fields == [pc : {"exchange", "get", "do", "join", "call", "served", "stream", "save",
                 "delGet", "del", "sidGet", "members", "delIndex"},
           job : {"callback", "request", "logout", "sid", "sub"},
           at : Processes, s : Sessions \cup {None},
           copy : Session \cup [sid : Sids \cup {None}], todo : SUBSET Sessions]

LEMMA BusyHasFields ==
  ASSUME Types, NEW h \in Handlers, pc(h) # "idle"
  PROVE  handler[h] \in Fields
BY DEF Types, TypeOK, Handler, Fields, Idle, pc

\* The end of a flight: who was merged with it is at "join", with the same session.
LEMMA FlightEndsGood ==
  ASSUME Types, NEW h \in Handlers, NEW ok \in BOOLEAN, FlightEnds(h, ok),
         Leads(h), ok => handler[h].copy \in Session
  PROVE  handler' \in [Handlers -> Handler] /\ Shape'
<1>1. ASSUME NEW k \in Handlers, k = h \/ k \in Followers(h)
      PROVE  ok => GoodRecord(Passed(k, handler[h].copy))
  <2>1. pc(k) \in {"join", "call", "save"} /\ handler[k].job \in {"request", "logout"}
    BY <1>1, RecordsGood DEF Followers, Leads, GoodRecord, Shaped, pc
  <2> QED
    BY <2>1, RecordsGood, PassedGood
<1>2. \A k \in Handlers : GoodRecord(handler'[k])
  BY <1>1, IdleGood, RecordsGood DEF FlightEnds
<1>3. handler' = [k \in Handlers |-> handler'[k]]
  BY DEF FlightEnds
<1> QED
  BY <1>2, <1>3 DEF GoodRecord, Shape

\* The keys after a pipeline of which n commands were executed.
LEMMA SavedTypes ==
  ASSUME Types, NEW h \in Handlers, pc(h) = "save", NEW n \in 0..3, Saved(h, n)
  PROVE  /\ store' \in [Sessions -> Session \cup {NoSession}]
         /\ userIndex' \subseteq Sessions
         /\ oidcIndex' \in [Sids -> Sessions \cup {None}]
         /\ gone' \in [Sessions -> {"no", "deleted", "revivable"}]
<1>1. handler[h].s \in Sessions /\ handler[h].copy \in Session /\ handler[h].copy.sid \in Sids
  BY RecordsGood DEF GoodRecord, Shaped, AtSession, WithCopy, pc, Session
<1> QED
  BY <1>1 DEF Types, TypeOK, Saved

LEMMA DeletedTypes ==
  ASSUME Types, NEW h \in Handlers, pc(h) = "del", NEW n \in 0..3, Deleted(h, n)
  PROVE  /\ store' \in [Sessions -> Session \cup {NoSession}]
         /\ userIndex' \subseteq Sessions
         /\ oidcIndex' \in [Sids -> Sessions \cup {None}]
         /\ gone' \in [Sessions -> {"no", "deleted", "revivable"}]
<1>1. handler[h].s \in Sessions /\ handler[h].copy \in Session /\ handler[h].copy.sid \in Sids
  BY RecordsGood DEF GoodRecord, Shaped, AtSession, WithCopy, pc, Session
<1> QED
  BY <1>1 DEF Types, TypeOK, Deleted

LEMMA NextOfGood ==
  ASSUME Types, NEW h \in Handlers, pc(h) \in {"members", "delGet", "del"},
         NEW todo \in SUBSET Sessions, NEW r \in NextOf(h, todo)
  PROVE  GoodRecord(r)
<1>1. handler[h] \in Fields
  BY BusyHasFields
<1>2. CASE r = Idle
  BY <1>2, IdleGood
<1>3. CASE handler[h].job = "sub" /\ r = [handler[h] EXCEPT !.pc = "delIndex", !.s = None, !.copy = NoSession]
  <2>1. r.pc = "delIndex" /\ r.job = "sub"
    BY <1>1, <1>3 DEF Fields
  <2>2. r \in Handler
    BY <1>1, <1>3, NoSessionNone DEF Fields, Handler
  <2> QED
    BY <2>1, <2>2 DEF GoodRecord, Shaped, AtSession, WithCopy
<1>4. CASE /\ handler[h].job = "sub"
           /\ \E s \in todo : r = [handler[h] EXCEPT !.pc = "delGet", !.s = s, !.copy = NoSession,
                                                     !.todo = todo \ {s}]
  <2>1. PICK s \in todo : r = [handler[h] EXCEPT !.pc = "delGet", !.s = s, !.copy = NoSession,
                                                !.todo = todo \ {s}]
    BY <1>4
  <2>2. r.pc = "delGet" /\ r.job = "sub" /\ r.s \in Sessions
    BY <1>1, <1>4, <2>1 DEF Fields
  <2>3. r \in Fields
    BY <1>1, <2>1, NoSessionNone DEF Fields
  <2> QED
    BY <2>2, <2>3 DEF Fields, GoodRecord, Handler, Shaped, AtSession, WithCopy
<1> QED
  BY <1>2, <1>3, <1>4 DEF NextOf

\* What is not among the local variables of the handlers.
SharedTypes ==
  /\ store \in [Sessions -> Session \cup {NoSession}]
  /\ userIndex \subseteq Sessions
  /\ oidcIndex \in [Sids -> Sessions \cup {None}]
  /\ login \in [Sessions -> {"none", "started", "returned", "done"}]
  /\ provider \in [Sids -> [state : {"none", "open", "ended", "notified"},
                            issued : 0..MaxTokens, expired : 0..MaxTokens]]
  /\ events \in 0..MaxEvents
  /\ gone \in [Sessions -> {"no", "deleted", "revivable"}]
  /\ raced \subseteq Sessions
  /\ presented \subseteq Processes \X Sids \X (1..MaxTokens)

LEMMA TypesSplit ==
  Types <=> SharedTypes /\ handler \in [Handlers -> Handler] /\ Shape
BY DEF Types, TypeOK, SharedTypes

LEMMA TypesSplitNext ==
  SharedTypes' /\ handler' \in [Handlers -> Handler] /\ Shape' => Types'
BY DEF Types, TypeOK, SharedTypes

LEMMA OpenedRecord ==
  ASSUME NEW S, NEW T, NEW r \in [state : T, issued : S, expired : S], NEW n \in S, NEW t \in T
  PROVE  [r EXCEPT !.issued = n, !.state = t] \in [state : T, issued : S, expired : S]
OBVIOUS

LEMMA IssuesTypes ==
  ASSUME Types, NEW o \in Sids, Issues(o)
  PROVE  /\ provider' \in [Sids -> [state : {"none", "open", "ended", "notified"},
                                    issued : 0..MaxTokens, expired : 0..MaxTokens]]
         /\ IssuedTo(o) \in Session
<1>1. provider[o].issued \in Nat /\ provider[o].issued + 1 \in 1..MaxTokens
  BY DEF Types, TypeOK, Issues
<1>2. IssuedTo(o) \in Session
  BY <1>1 DEF IssuedTo, Session
<1>3. provider[o] \in [state : {"none", "open", "ended", "notified"},
                      issued : 0..MaxTokens, expired : 0..MaxTokens]
  BY DEF Types, TypeOK
<1>4. DEFINE next == [provider[o] EXCEPT !.issued = provider[o].issued + 1, !.state = "open"]
<1>5. next \in [state : {"none", "open", "ended", "notified"}, issued : 0..MaxTokens, expired : 0..MaxTokens]
  <2> provider[o].issued + 1 \in 0..MaxTokens
    BY <1>1
  <2> QED
    BY <1>3, OpenedRecord
<1>6. provider' = [provider EXCEPT ![o] = next]
  BY <1>3 DEF Issues, Types, TypeOK
<1> HIDE DEF next
<1> QED
  BY <1>2, <1>5, <1>6 DEF Types, TypeOK

LEMMA LoginTypes ==
  ASSUME Types, NEW s \in Sessions,
         InitiateLogin(s) \/ \E h \in Handlers : Callback(h, s) \/ Request(h, s)
  PROVE  Types'
<1> USE DEF Session
<1>1. CASE InitiateLogin(s)
  <2>1. SharedTypes'
    BY <1>1, TypesSplit DEF SharedTypes, InitiateLogin, redis, history
  <2> QED
    BY <1>1, <2>1, TypesSplit, TypesSplitNext DEF InitiateLogin, Shape
<1>2. ASSUME NEW h \in Handlers, Callback(h, s) PROVE Types'
  <2>1. SharedTypes'
    BY <1>2, TypesSplit DEF SharedTypes, Callback, redis, Overlaps
  <2>2. \A p \in Processes :
          GoodRecord([pc |-> "exchange", job |-> "callback", at |-> p, s |-> s,
                      copy |-> NoSession, todo |-> {}])
    BY NoSessionNone DEF GoodRecord, Handler, Shaped, AtSession, WithCopy
  <2> QED
    BY <1>2, <2>1, <2>2, BeginsGood, TypesSplitNext DEF Callback
<1>3. ASSUME NEW h \in Handlers, Request(h, s) PROVE Types'
  <2>1. SharedTypes'
    BY <1>3, TypesSplit DEF SharedTypes, Request, redis, history, Event
  <2>2. \A p \in Processes, job \in {"request", "logout"} :
          GoodRecord([pc |-> "get", job |-> job, at |-> p, s |-> s,
                      copy |-> NoSession, todo |-> {}])
    BY NoSessionNone DEF GoodRecord, Handler, Shaped, AtSession, WithCopy
  <2>3. handler' \in [Handlers -> Handler] /\ Shape'
    BY <1>3, <2>2, BeginsGood DEF Request
  <2> QED
    BY <2>1, <2>3, TypesSplitNext
<1> QED
  BY <1>1, <1>2, <1>3

LEMMA SessionStepTypes ==
  ASSUME Types, NEW h \in Handlers,
         ExchangeCode(h) \/ GetSession(h) \/ Respond(h) \/ StreamEvents(h) \/ StreamEnds(h) \/ Join(h) \/ RefreshReads(h) \/ RefreshToken(h)
  PROVE  Types'
<1> USE DEF redis, history
<1>a. ASSUME pc(h) # "idle" PROVE handler[h] \in Fields
  BY <1>a, BusyHasFields
<1>b. ASSUME NEW s \in Sessions, store[s] # NoSession PROVE store[s] \in Session
  BY <1>b DEF Types, TypeOK
<1>1. CASE ExchangeCode(h)
  <2>1. PICK o \in Sids : Issues(o) /\ Becomes(h, [handler[h] EXCEPT !.pc = "save", !.copy = IssuedTo(o)])
    BY <1>1 DEF ExchangeCode
  <2>2. handler[h] \in Fields /\ Shaped(handler[h]) /\ pc(h) = "exchange"
    BY <1>1, <1>a DEF ExchangeCode, Types, Shape
  <2>3. GoodRecord([handler[h] EXCEPT !.pc = "save", !.copy = IssuedTo(o)])
    BY <2>1, <2>2, IssuesTypes DEF Fields, GoodRecord, Handler, Shaped, AtSession, WithCopy, pc
  <2>4. SharedTypes'
    BY <1>1, <2>1, TypesSplit, IssuesTypes DEF ExchangeCode, SharedTypes, Session
  <2> QED
    BY <2>1, <2>3, <2>4, BecomesGood, TypesSplitNext
<1>2. CASE GetSession(h)
  <2>1. handler[h] \in Fields /\ Shaped(handler[h]) /\ pc(h) = "get" /\ handler[h].s \in Sessions
    BY <1>2, <1>a DEF GetSession, Types, Shape, Shaped, AtSession, pc
  <2> DEFINE copy == store[handler[h].s]
  <2>2. copy # NoSession => GoodRecord(Passed(h, copy))
    BY <1>b, <2>1, RecordsGood, PassedGood DEF Shaped, pc
  <2>3. copy # NoSession => GoodRecord([handler[h] EXCEPT !.pc = "do", !.copy = copy])
    BY <1>b, <2>1 DEF Fields, GoodRecord, Handler, Shaped, AtSession, WithCopy, pc
  <2>4. PICK r : GoodRecord(r) /\ Becomes(h, r)
    BY <1>2, <2>2, <2>3, IdleGood DEF GetSession
  <2>5. SharedTypes'
    BY <1>2, TypesSplit DEF GetSession, SharedTypes, Session
  <2> QED
    BY <2>4, <2>5, BecomesGood, TypesSplitNext
<1>3. CASE Respond(h)
  <2>1. SharedTypes'
    BY <1>3, TypesSplit DEF Respond, SharedTypes, Session
  <2> QED
    BY <1>3, <2>1, EndsGood, TypesSplitNext DEF Respond
<1>8. CASE StreamEnds(h)
  <2>1. SharedTypes'
    BY <1>8, TypesSplit DEF StreamEnds, SharedTypes, Session
  <2> QED
    BY <1>8, <2>1, EndsGood, TypesSplitNext DEF StreamEnds
<1>9. CASE StreamEvents(h)
  <2>1. handler[h] \in Fields /\ Shaped(handler[h]) /\ pc(h) = "served"
    BY <1>9, <1>a DEF StreamEvents, Types, Shape
  <2>2. GoodRecord([handler[h] EXCEPT !.pc = "stream"])
    BY <2>1 DEF Fields, GoodRecord, Handler, Shaped, AtSession, WithCopy, pc
  <2>3. SharedTypes'
    BY <1>9, TypesSplit DEF StreamEvents, SharedTypes, Session
  <2>4. Becomes(h, [handler[h] EXCEPT !.pc = "stream"])
    BY <1>9 DEF StreamEvents, Goes, Becomes, Types, TypeOK
  <2> QED
    BY <2>2, <2>3, <2>4, BecomesGood, TypesSplitNext
<1>4. CASE Join(h)
  <2>1. handler[h] \in Fields /\ Shaped(handler[h]) /\ pc(h) = "do"
    BY <1>4, <1>a DEF Join, Types, Shape
  <2>2. GoodRecord([handler[h] EXCEPT !.pc = "join"])
    BY <2>1 DEF Fields, GoodRecord, Handler, Shaped, AtSession, WithCopy, pc
  <2>3. SharedTypes'
    BY <1>4, TypesSplit DEF Join, SharedTypes, Session
  <2>4. Becomes(h, [handler[h] EXCEPT !.pc = "join"])
    BY <1>4 DEF Join, Goes, Becomes, Types, TypeOK
  <2> QED
    BY <2>2, <2>3, <2>4, BecomesGood, TypesSplitNext
<1>5. CASE RefreshReads(h)
  <2>1. handler[h] \in Fields /\ Shaped(handler[h]) /\ pc(h) = "do" /\ handler[h].s \in Sessions
    BY <1>5, <1>a DEF RefreshReads, Types, Shape, Shaped, AtSession, pc
  <2> DEFINE copy == store[handler[h].s]
  <2>2. copy # NoSession => GoodRecord(Passed(h, copy))
    BY <1>b, <2>1, RecordsGood, PassedGood DEF Shaped, pc
  <2>3. copy # NoSession => GoodRecord([handler[h] EXCEPT !.pc = "call", !.copy = copy])
    BY <1>b, <2>1 DEF Fields, GoodRecord, Handler, Shaped, AtSession, WithCopy, pc
  <2>4. PICK r : GoodRecord(r) /\ Becomes(h, r)
    BY <1>5, <2>2, <2>3, IdleGood DEF RefreshReads
  <2>5. copy # NoSession => <<handler[h].at, copy.sid, copy.token>> \in Processes \X Sids \X (1..MaxTokens)
    BY <1>b, <2>1 DEF Fields, Session
  <2>6. presented' \subseteq Processes \X Sids \X (1..MaxTokens)
    <3>1. presented' = presented \/ (copy # NoSession /\ presented' = presented \cup {<<handler[h].at, copy.sid, copy.token>>})
      BY <1>5 DEF RefreshReads
    <3>2. presented \subseteq Processes \X Sids \X (1..MaxTokens)
      BY TypesSplit DEF SharedTypes
    <3> HIDE DEF copy
    <3> QED
      BY <2>5, <3>1, <3>2
  <2>7. SharedTypes'
    BY <1>5, <2>6, TypesSplit DEF RefreshReads, SharedTypes, Session, Overlaps
  <2> QED
    BY <2>4, <2>7, BecomesGood, TypesSplitNext
<1>6. CASE RefreshToken(h)
  <2>1. /\ handler[h] \in Fields /\ Shaped(handler[h]) /\ pc(h) = "call"
        /\ handler[h].copy \in Session /\ handler[h].copy.sid \in Sids
    BY <1>6, <1>a DEF RefreshToken, Types, Shape, Shaped, WithCopy, pc, Session
  <2> DEFINE o == handler[h].copy.sid
  <2>2. CASE provider[o].state = "open"
    <3>1. Issues(o) /\ Becomes(h, [handler[h] EXCEPT !.pc = "save", !.copy = IssuedTo(o)])
      BY <1>6, <2>2 DEF RefreshToken
    <3>2. GoodRecord([handler[h] EXCEPT !.pc = "save", !.copy = IssuedTo(o)])
      BY <2>1, <3>1, IssuesTypes DEF Fields, GoodRecord, Handler, Shaped, AtSession, WithCopy, pc
    <3>3. SharedTypes'
      BY <1>6, <2>1, <3>1, TypesSplit, IssuesTypes DEF RefreshToken, SharedTypes, Session
    <3> QED
      BY <3>1, <3>2, <3>3, BecomesGood, TypesSplitNext
  <2>3. CASE provider[o].state # "open"
    <3>1. SharedTypes'
      BY <1>6, <2>3, TypesSplit DEF RefreshToken, SharedTypes, Session
    <3>2. Leads(h) /\ FlightEnds(h, FALSE)
      BY <1>6, <2>1, <2>3 DEF RefreshToken, Leads, Shaped, pc
    <3> QED
      BY <3>1, <3>2, FlightEndsGood, TypesSplitNext
  <2> QED
    BY <2>2, <2>3
<1> QED
  BY <1>1, <1>2, <1>3, <1>4, <1>5, <1>6, <1>8, <1>9

LEMMA DeletionTypes ==
  ASSUME Types, NEW h \in Handlers,
         \/ Save(h) \/ DeleteReads(h) \/ Delete(h)
         \/ DeleteByOIDCSessionID(h) \/ DeleteByUserID(h) \/ DeleteIndex(h)
  PROVE  Types'
<1> USE DEF redis, history
<1>a. ASSUME pc(h) # "idle" PROVE handler[h] \in Fields
  BY <1>a, BusyHasFields
<1>1. CASE Save(h)
  <2>1. /\ Shaped(handler[h]) /\ pc(h) = "save" /\ handler[h].s \in Sessions
        /\ handler[h].copy \in Session
    BY <1>1 DEF Save, Types, Shape, Shaped, AtSession, WithCopy, pc
  <2>2. SharedTypes'
    <3>1. /\ store' \in [Sessions -> Session \cup {NoSession}] /\ userIndex' \subseteq Sessions
          /\ oidcIndex' \in [Sids -> Sessions \cup {None}]
          /\ gone' \in [Sessions -> {"no", "deleted", "revivable"}]
      BY <1>1, <2>1, SavedTypes, 3 \in 0..3 DEF Save
    <3>2. login' \in [Sessions -> {"none", "started", "returned", "done"}]
      BY <1>1, <2>1, TypesSplit DEF Save, SharedTypes
    <3> QED
      BY <1>1, <3>1, <3>2, TypesSplit DEF Save, SharedTypes, Session
  <2>3. CASE handler[h].job = "callback"
    BY <1>1, <2>2, <2>3, EndsGood, TypesSplitNext DEF Save
  <2>4. CASE handler[h].job # "callback"
    <3>1. Leads(h) /\ FlightEnds(h, TRUE)
      BY <1>1, <2>1, <2>4 DEF Save, Leads, Shaped, pc
    <3> QED
      BY <2>1, <2>2, <3>1, FlightEndsGood, TypesSplitNext
  <2> QED
    BY <2>3, <2>4
<1>2. CASE DeleteReads(h)
  <2>1. /\ handler[h] \in Fields /\ Shaped(handler[h]) /\ pc(h) = "delGet" /\ handler[h].s \in Sessions
        /\ handler[h].todo \in SUBSET Sessions
    BY <1>2, <1>a DEF DeleteReads, Types, Shape, Shaped, AtSession, pc, Fields
  <2>2. store[handler[h].s] # NoSession => store[handler[h].s] \in Session
    BY <2>1 DEF Types, TypeOK
  <2>3. store[handler[h].s] # NoSession
          => GoodRecord([handler[h] EXCEPT !.pc = "del", !.copy = store[handler[h].s]])
    BY <2>1, <2>2 DEF Fields, GoodRecord, Handler, Shaped, AtSession, WithCopy, pc
  <2>4. PICK r : GoodRecord(r) /\ Becomes(h, r)
    BY <1>2, <2>1, <2>3, NextOfGood DEF DeleteReads
  <2>5. SharedTypes'
    BY <1>2, TypesSplit DEF DeleteReads, SharedTypes, Session, Overlaps
  <2> QED
    BY <2>4, <2>5, BecomesGood, TypesSplitNext
<1>3. CASE Delete(h)
  <2>1. handler[h] \in Fields /\ pc(h) = "del" /\ handler[h].todo \in SUBSET Sessions
    BY <1>3, <1>a DEF Delete, Fields
  <2>2. PICK r : GoodRecord(r) /\ Becomes(h, r)
    BY <1>3, <2>1, NextOfGood DEF Delete
  <2>3. SharedTypes'
    BY <1>3, <2>1, TypesSplit, DeletedTypes DEF Delete, SharedTypes, Session
  <2> QED
    BY <2>2, <2>3, BecomesGood, TypesSplitNext
<1>4. CASE DeleteByOIDCSessionID(h)
  <2>1. handler[h] \in Fields /\ Shaped(handler[h]) /\ pc(h) = "sidGet"
        /\ handler[h].copy.sid \in Sids /\ handler[h].job = "sid"
    BY <1>4, <1>a DEF DeleteByOIDCSessionID, Types, Shape, Shaped, pc
  <2> DEFINE s == oidcIndex[handler[h].copy.sid]
  <2>2. s # None => s \in Sessions
    BY <2>1 DEF Types, TypeOK
  <2>3. s # None => GoodRecord([handler[h] EXCEPT !.pc = "delGet", !.s = s])
    BY <2>1, <2>2 DEF Fields, GoodRecord, Handler, Shaped, AtSession, WithCopy, pc
  <2>4. PICK r : GoodRecord(r) /\ Becomes(h, r)
    BY <1>4, <2>3, IdleGood DEF DeleteByOIDCSessionID
  <2>5. SharedTypes'
    BY <1>4, TypesSplit DEF DeleteByOIDCSessionID, SharedTypes, Session
  <2> QED
    BY <2>4, <2>5, BecomesGood, TypesSplitNext
<1>5. CASE DeleteByUserID(h)
  <2>1. PICK r : GoodRecord(r) /\ Becomes(h, r)
    BY <1>5, NextOfGood DEF DeleteByUserID, Types, TypeOK
  <2>2. SharedTypes'
    BY <1>5, TypesSplit DEF DeleteByUserID, SharedTypes, Session
  <2> QED
    BY <2>1, <2>2, BecomesGood, TypesSplitNext
<1>6. CASE DeleteIndex(h)
  <2>1. SharedTypes'
    BY <1>6, TypesSplit DEF DeleteIndex, SharedTypes, Session
  <2> QED
    BY <1>6, <2>1, EndsGood, TypesSplitNext DEF DeleteIndex
<1> QED
  BY <1>1, <1>2, <1>3, <1>4, <1>5, <1>6

LEMMA FailsTypes ==
  ASSUME Types, NEW h \in Handlers, Fails(h)
  PROVE  Types'
<1>1. handler[h] \in Fields /\ Shaped(handler[h]) /\ pc(h) \notin {"idle", "join", "served", "stream"}
  BY BusyHasFields DEF Fails, Types, Shape
<1>2. handler' \in [Handlers -> Handler] /\ Shape'
  <2>1. CASE Leads(h)
    BY <2>1, FlightEndsGood DEF Fails
  <2>2. CASE ~Leads(h) /\ handler[h].job = "sub" /\ pc(h) \in {"delGet", "del"}
    <3>1. PICK r : GoodRecord(r) /\ Becomes(h, r)
      BY <1>1, <2>2, NextOfGood DEF Fails, Fields
    <3> QED
      BY <3>1, BecomesGood
  <2>3. CASE ~Leads(h) /\ ~(handler[h].job = "sub" /\ pc(h) \in {"delGet", "del"})
    BY <2>3, EndsGood DEF Fails
  <2> QED
    BY <2>1, <2>2, <2>3
<1>3. raced' \subseteq Sessions
  BY DEF Fails, Types, TypeOK
<1>4. /\ store' \in [Sessions -> Session \cup {NoSession}]
      /\ userIndex' \subseteq Sessions
      /\ oidcIndex' \in [Sids -> Sessions \cup {None}]
      /\ gone' \in [Sessions -> {"no", "deleted", "revivable"}]
  <2>1. CASE pc(h) = "save"
    BY <2>1, SavedTypes DEF Fails
  <2>2. CASE pc(h) = "del"
    BY <2>2, DeletedTypes DEF Fails
  <2>3. CASE pc(h) \notin {"save", "del"}
    BY <2>3 DEF Fails, Types, TypeOK, redis
  <2> QED
    BY <2>1, <2>2, <2>3
<1>5. SharedTypes'
  BY <1>3, <1>4, TypesSplit DEF Fails, SharedTypes, Event, Session
<1> QED
  BY <1>2, <1>5, TypesSplitNext

LEMMA OutsideTypes ==
  ASSUME Types,
         \/ \E h \in Handlers, o \in Sids : BackchannelLogout(h, o)
         \/ \E o \in Sids : TokenExpires(o) \/ ProviderEnds(o)
         \/ \E s \in Sessions : SessionExpires(s)
  PROVE  Types'
<1> USE DEF redis, history
<1>a. ASSUME NEW o \in Sids
      PROVE  provider[o] \in [state : {"none", "open", "ended", "notified"},
                              issued : 0..MaxTokens, expired : 0..MaxTokens]
  BY DEF Types, TypeOK
<1>1. ASSUME NEW h \in Handlers, NEW o \in Sids, BackchannelLogout(h, o) PROVE Types'
  <2>1. provider' = [provider EXCEPT ![o].state = "notified"]
    BY <1>1 DEF BackchannelLogout
  <2>2. SharedTypes'
    BY <1>1, <1>a, <2>1, TypesSplit DEF BackchannelLogout, SharedTypes, Session, Overlaps
  <2>3. \A p \in Processes :
          /\ GoodRecord([pc |-> "sidGet", job |-> "sid", at |-> p, s |-> None,
                         copy |-> [sid |-> o], todo |-> {}])
          /\ GoodRecord([pc |-> "members", job |-> "sub", at |-> p, s |-> None,
                         copy |-> NoSession, todo |-> {}])
    BY NoSessionNone DEF GoodRecord, Handler, Shaped, AtSession, WithCopy
  <2>4. handler' \in [Handlers -> Handler] /\ Shape'
    BY <1>1, <2>3, BeginsGood DEF BackchannelLogout
  <2> QED
    BY <2>2, <2>4, TypesSplitNext
<1>2. ASSUME NEW o \in Sids, TokenExpires(o) PROVE Types'
  <2>1. provider[o].expired + 1 \in 0..MaxTokens
    BY <1>2, <1>a DEF TokenExpires
  <2>2. SharedTypes'
    BY <1>2, <1>a, <2>1, TypesSplit DEF TokenExpires, SharedTypes, Session
  <2> QED
    BY <1>2, <2>2, TypesSplit, TypesSplitNext DEF TokenExpires, Shape
<1>3. ASSUME NEW o \in Sids, ProviderEnds(o) PROVE Types'
  <2>1. SharedTypes'
    BY <1>3, <1>a, TypesSplit DEF ProviderEnds, SharedTypes, Session
  <2> QED
    BY <1>3, <2>1, TypesSplit, TypesSplitNext DEF ProviderEnds, Shape
<1>4. ASSUME NEW s \in Sessions, SessionExpires(s) PROVE Types'
  <2>1. SharedTypes'
    BY <1>4, TypesSplit DEF SessionExpires, SharedTypes, Session
  <2> QED
    BY <1>4, <2>1, TypesSplit, TypesSplitNext DEF SessionExpires, Shape
<1> QED
  BY <1>1, <1>2, <1>3, <1>4

LEMMA TypesNext == Types /\ [Next]_vars => Types'
<1> SUFFICES ASSUME Types, [Next]_vars PROVE Types'
  OBVIOUS
<1>1. CASE Next
  BY <1>1, LoginTypes, SessionStepTypes, DeletionTypes, FailsTypes, OutsideTypes DEF Next, Step
<1>2. CASE UNCHANGED vars
  BY <1>2 DEF vars, redis, history, Types, TypeOK, Shape
<1> QED
  BY <1>1, <1>2

LEMMA TypesInit == Init => Types
BY DEF Init, Types, TypeOK, Shape, Shaped, Handler, Idle, AtSession, WithCopy

\* The variables stay in their types, and a handler at a place has the session and the copy
\* that it goes on with, for any sessions, replicas, handlers, tokens and failures.
THEOREM TypeCorrect == Spec => []TypeOK
<1>1. Types => TypeOK
  BY DEF Types
<1> QED
  BY <1>1, TypesInit, TypesNext, PTL DEF Spec

-----------------------------------------------------------------------------
(* What the step of a handler may do to the local variables of any, and to *)
(* the keys of another's session.                                          *)

Moved(k) ==
  \/ handler'[k] = handler[k]
  \/ handler'[k] = Idle
  \/ /\ handler'[k].job = handler[k].job /\ handler'[k].at = handler[k].at
     /\ handler'[k].s = handler[k].s /\ handler'[k].todo = handler[k].todo
  \/ /\ handler'[k].job = handler[k].job /\ handler[k].job # "callback"
     /\ handler'[k].s \in {None} \cup handler[k].todo \cup userIndex \cup {oidcIndex[o] : o \in Sids}
     /\ handler'[k].todo \subseteq handler[k].todo \cup userIndex

\* The local variables that few steps change.
Stays(k, r) ==
  r.job = handler[k].job /\ r.at = handler[k].at /\ r.s = handler[k].s /\ r.todo = handler[k].todo

LEMMA PassedMoves ==
  ASSUME Types, NEW k \in Handlers, pc(k) # "idle", NEW copy
  PROVE  Stays(k, Passed(k, copy)) /\ Passed(k, copy).pc \in {"delGet", "served"}
BY BusyHasFields DEF Passed, Fields, Stays

LEMMA FlightMoves ==
  ASSUME Types, NEW h \in Handlers, NEW ok \in BOOLEAN, FlightEnds(h, ok), Leads(h)
  PROVE  \A k \in Handlers :
           /\ Moved(k)
           /\ handler'[k] # handler[k] => handler'[k].pc \in {"idle", "delGet", "served"}
           /\ handler'[k] # handler[k] /\ handler'[k] # Idle
                => handler'[k].s = handler[k].s /\ handler'[k].job = handler[k].job
           /\ k = h => handler'[k].pc \in {"idle", "delGet", "served"}
<1> TAKE k \in Handlers
<1>1. k = h \/ k \in Followers(h) => pc(k) # "idle"
  BY DEF Leads, Followers
<1> QED
  BY <1>1, PassedMoves DEF FlightEnds, Moved, Idle, Stays

LEMMA NextOfMoves ==
  ASSUME Types, NEW h \in Handlers, pc(h) \in {"members", "delGet", "del"},
         NEW todo \in SUBSET Sessions, NEW r \in NextOf(h, todo)
  PROVE  \/ r = Idle /\ handler[h].job # "sub"
         \/ /\ r.job = "sub" /\ handler[h].job = "sub" /\ r.at = handler[h].at
            /\ \/ r.s = None /\ r.pc = "delIndex" /\ todo = {} /\ r.todo = handler[h].todo
               \/ r.s \in todo /\ r.pc = "delGet" /\ r.todo = todo \ {r.s}
<1>1. handler[h] \in Fields
  BY BusyHasFields
<1>2. CASE r = Idle /\ handler[h].job # "sub"
  BY <1>2
<1>3. CASE handler[h].job = "sub" /\ todo = {} /\ r = [handler[h] EXCEPT !.pc = "delIndex", !.s = None, !.copy = NoSession]
  BY <1>1, <1>3 DEF Fields
<1>4. ASSUME handler[h].job = "sub", NEW s \in todo,
             r = [handler[h] EXCEPT !.pc = "delGet", !.s = s, !.copy = NoSession, !.todo = todo \ {s}]
      PROVE  r.job = "sub" /\ r.at = handler[h].at /\ r.s \in todo /\ r.pc = "delGet" /\ r.todo = todo \ {r.s}
  BY <1>1, <1>4 DEF Fields
<1> QED
  BY <1>2, <1>3, <1>4 DEF NextOf

LEMMA StepMoves ==
  ASSUME Types, NEW h \in Handlers, Step(h) \/ Fails(h)
  PROVE  \A k \in Handlers : Moved(k)
<1>a. pc(h) # "idle" => handler[h] \in Fields
  BY BusyHasFields
<1>b. ASSUME NEW r, Becomes(h, r), r = Idle \/ Stays(h, r)
      PROVE  \A k \in Handlers : Moved(k)
  BY <1>b DEF Becomes, Moved, Stays, Types, TypeOK
<1>c. ASSUME NEW todo \in SUBSET Sessions, todo \subseteq handler[h].todo \cup userIndex,
             pc(h) \in {"members", "delGet", "del"},
             NEW r \in NextOf(h, todo), Becomes(h, r)
      PROVE  \A k \in Handlers : Moved(k)
  <2>1. handler'[h] = r /\ \A k \in Handlers \ {h} : handler'[k] = handler[k]
    BY <1>c DEF Becomes, Types, TypeOK
  <2>2. Moved(h)
    BY <1>c, <2>1, NextOfMoves DEF Moved
  <2> QED
    BY <2>1, <2>2 DEF Moved
<1>1. CASE ExchangeCode(h) \/ GetSession(h) \/ Respond(h) \/ StreamEvents(h) \/ StreamEnds(h) \/ Join(h) \/ RefreshReads(h)
  <2>1. pc(h) # "idle" /\ handler[h] \in Fields
    BY <1>1, <1>a DEF ExchangeCode, GetSession, Respond, StreamEvents, StreamEnds, Join, RefreshReads
  <2>2. ASSUME NEW place, NEW copy
        PROVE  Stays(h, [handler[h] EXCEPT !.pc = place, !.copy = copy])
    BY <2>1 DEF Fields, Stays
  <2>3. ASSUME NEW place PROVE Stays(h, [handler[h] EXCEPT !.pc = place])
    BY <2>1 DEF Fields, Stays
  <2>4. PICK r : Becomes(h, r) /\ (r = Idle \/ Stays(h, r))
    <3>1. CASE ExchangeCode(h)
      <4>1. PICK o \in Sids : Becomes(h, [handler[h] EXCEPT !.pc = "save", !.copy = IssuedTo(o)])
        BY <3>1 DEF ExchangeCode
      <4> QED
        BY <2>2, <4>1
    <3>2. CASE GetSession(h)
      <4> DEFINE copy == store[handler[h].s]
      <4>1. Stays(h, Passed(h, copy)) /\ Stays(h, [handler[h] EXCEPT !.pc = "do", !.copy = copy])
        BY <2>1, <2>2, PassedMoves
      <4>2. \/ Becomes(h, Idle) \/ Becomes(h, Passed(h, copy))
            \/ Becomes(h, [handler[h] EXCEPT !.pc = "do", !.copy = copy])
        BY <3>2 DEF GetSession
      <4> QED
        BY <4>1, <4>2
    <3>3. CASE Respond(h) \/ StreamEnds(h)
      BY <3>3 DEF Respond, StreamEnds, Ends
    <3>6. CASE StreamEvents(h)
      BY <2>3, <3>6 DEF StreamEvents, Goes, Becomes
    <3>4. CASE Join(h)
      BY <2>3, <3>4 DEF Join, Goes, Becomes
    <3>5. CASE RefreshReads(h)
      <4> DEFINE copy == store[handler[h].s]
      <4>1. Stays(h, Passed(h, copy)) /\ Stays(h, [handler[h] EXCEPT !.pc = "call", !.copy = copy])
        BY <2>1, <2>2, PassedMoves
      <4>2. \/ Becomes(h, Idle) \/ Becomes(h, Passed(h, copy))
            \/ Becomes(h, [handler[h] EXCEPT !.pc = "call", !.copy = copy])
        BY <3>5 DEF RefreshReads
      <4> QED
        BY <4>1, <4>2
    <3> QED
      BY <1>1, <3>1, <3>2, <3>3, <3>4, <3>5, <3>6
  <2> QED
    BY <1>b, <2>4
<1>2. CASE RefreshToken(h)
  <2>1. handler[h] \in Fields /\ Leads(h)
    BY <1>2, <1>a DEF RefreshToken, Leads, Types, Shape, Shaped, pc
  <2>2. ASSUME NEW copy PROVE Stays(h, [handler[h] EXCEPT !.pc = "save", !.copy = copy])
    BY <2>1 DEF Fields, Stays
  <2> QED
    BY <1>2, <1>b, <2>1, <2>2, FlightMoves DEF RefreshToken
<1>3. CASE Save(h)
  <2>1. handler[h].job # "callback" => Leads(h)
    BY <1>3 DEF Save, Leads, Types, Shape, Shaped, pc
  <2> QED
    BY <1>3, <1>b, <2>1, FlightMoves DEF Save, Ends
<1>4. CASE DeleteReads(h)
  <2>1. handler[h] \in Fields /\ pc(h) = "delGet" /\ handler[h].todo \in SUBSET Sessions
    BY <1>4, <1>a DEF DeleteReads, Fields
  <2>2. Stays(h, [handler[h] EXCEPT !.pc = "del", !.copy = store[handler[h].s]])
    BY <2>1 DEF Fields, Stays
  <2> QED
    BY <1>4, <1>b, <1>c, <2>1, <2>2 DEF DeleteReads
<1>5. CASE Delete(h)
  <2>1. pc(h) = "del" /\ handler[h].todo \in SUBSET Sessions
    BY <1>5, <1>a DEF Delete, Fields
  <2> QED
    BY <1>5, <1>c, <2>1 DEF Delete
<1>6. CASE DeleteByOIDCSessionID(h)
  <2>1. handler[h] \in Fields /\ handler[h].job = "sid" /\ handler[h].copy.sid \in Sids
    BY <1>6, <1>a DEF DeleteByOIDCSessionID, Types, Shape, Shaped, pc
  <2> DEFINE s == oidcIndex[handler[h].copy.sid]
             r == [handler[h] EXCEPT !.pc = "delGet", !.s = s]
  <2>2. r.job = handler[h].job /\ r.s = s /\ r.todo = handler[h].todo
    BY <2>1 DEF Fields
  <2>3. CASE Becomes(h, r)
    <3>1. handler'[h] = r /\ \A k \in Handlers \ {h} : handler'[k] = handler[k]
      BY <2>3 DEF Becomes, Types, TypeOK
    <3> HIDE DEF r
    <3>2. Moved(h)
      BY <2>1, <2>2, <3>1 DEF Moved
    <3> QED
      BY <3>1, <3>2 DEF Moved
  <2> QED
    BY <1>6, <1>b, <2>3 DEF DeleteByOIDCSessionID
<1>7. CASE DeleteByUserID(h)
  <2>1. userIndex \in SUBSET Sessions /\ pc(h) = "members"
    BY <1>7 DEF DeleteByUserID, Types, TypeOK
  <2> QED
    BY <1>7, <1>c, <2>1 DEF DeleteByUserID
<1>8. CASE DeleteIndex(h)
  BY <1>8, <1>b DEF DeleteIndex, Ends
<1>9. CASE Fails(h)
  <2>1. CASE Leads(h)
    BY <1>9, <2>1, FlightMoves DEF Fails
  <2>2. CASE ~Leads(h) /\ handler[h].job = "sub" /\ pc(h) \in {"delGet", "del"}
    <3>1. handler[h].todo \in SUBSET Sessions
      BY <1>9, <1>a DEF Fails, Fields
    <3> QED
      BY <1>9, <1>c, <2>2, <3>1 DEF Fails
  <2>3. CASE ~Leads(h) /\ ~(handler[h].job = "sub" /\ pc(h) \in {"delGet", "del"})
    BY <1>9, <1>b, <2>3 DEF Fails, Ends
  <2> QED
    BY <2>1, <2>2, <2>3
<1> QED
  BY <1>1, <1>2, <1>3, <1>4, <1>5, <1>6, <1>7, <1>8, <1>9 DEF Step

LEMMA SavedKeys ==
  ASSUME Types, NEW h \in Handlers, pc(h) = "save", NEW n \in 0..3, Saved(h, n), NEW s \in Sessions,
         s # handler[h].s
  PROVE  /\ store'[s] = store[s] /\ gone'[s] = gone[s]
         /\ s \in userIndex' <=> s \in userIndex
         /\ \A o \in Sids : oidcIndex'[o] = s => oidcIndex[o] = s
<1>1. handler[h].s \in Sessions /\ handler[h].copy.sid \in Sids
  BY DEF Types, Shape, Shaped, AtSession, WithCopy, pc, Session
<1> QED
  BY <1>1 DEF Types, TypeOK, Saved

LEMMA DeletedKeys ==
  ASSUME Types, NEW h \in Handlers, pc(h) = "del", NEW n \in 0..3, Deleted(h, n), NEW s \in Sessions,
         s # handler[h].s
  PROVE  /\ store'[s] = store[s] /\ gone'[s] = gone[s]
         /\ s \in userIndex' <=> s \in userIndex
         /\ \A o \in Sids : oidcIndex'[o] = s => oidcIndex[o] = s
<1>1. handler[h].s \in Sessions /\ handler[h].copy.sid \in Sids
  BY DEF Types, Shape, Shaped, AtSession, WithCopy, pc, Session
<1>2. None # s
  OBVIOUS
<1> QED
  BY <1>1, <1>2 DEF Types, TypeOK, Deleted

\* A handler changes the keys of its own session, and the whole index of the user.
LEMMA StepKeys ==
  ASSUME Types, NEW h \in Handlers, Step(h) \/ Fails(h), NEW s \in Sessions, s # handler[h].s
  PROVE  /\ store'[s] = store[s] /\ gone'[s] = gone[s] /\ login'[s] = login[s]
         /\ s \in userIndex' => s \in userIndex
         /\ s \in userIndex => s \in userIndex' \/ pc(h) = "delIndex"
         /\ \A o \in Sids : oidcIndex'[o] = s => oidcIndex[o] = s
<1> USE DEF redis, history
<1>1. CASE \/ ExchangeCode(h) \/ GetSession(h) \/ Respond(h) \/ StreamEvents(h) \/ StreamEnds(h) \/ Join(h) \/ RefreshReads(h) \/ RefreshToken(h)
           \/ DeleteReads(h) \/ DeleteByOIDCSessionID(h) \/ DeleteByUserID(h) \/ DeleteIndex(h)
  BY <1>1 DEF ExchangeCode, GetSession, Respond, StreamEvents, StreamEnds, Join, RefreshReads, RefreshToken, DeleteReads,
              DeleteByOIDCSessionID, DeleteByUserID, DeleteIndex
<1>2. CASE Save(h)
  <2>1. login'[s] = login[s]
    BY <1>2 DEF Save, Types, TypeOK
  <2> QED
    BY <1>2, <2>1, SavedKeys, 3 \in 0..3 DEF Save
<1>3. CASE Delete(h)
  BY <1>3, DeletedKeys, 3 \in 0..3 DEF Delete
<1>4. CASE Fails(h)
  <2>1. CASE pc(h) = "save"
    BY <1>4, <2>1, SavedKeys DEF Fails
  <2>2. CASE pc(h) = "del"
    BY <1>4, <2>2, DeletedKeys DEF Fails
  <2>3. CASE pc(h) \notin {"save", "del"}
    BY <1>4, <2>3 DEF Fails
  <2> QED
    BY <2>1, <2>2, <2>3
<1> QED
  BY <1>1, <1>2, <1>3, <1>4 DEF Step

\* A callback leaves the keys alone until it ends.
LEMMA CallbackKeys ==
  ASSUME Types, NEW h \in Handlers, Step(h) \/ Fails(h), handler[h].job = "callback",
         handler'[h].job = "callback"
  PROVE  UNCHANGED <<store, gone, login, userIndex, oidcIndex>>
<1> USE DEF redis, history
<1>1. pc(h) \in {"idle", "exchange", "save"} /\ Idle.job = "none"
  BY DEF Types, Shape, Shaped, TypeOK, Handler, pc, Idle
<1>2. ~Fails(h)
  BY <1>1 DEF Fails, Leads, Ends, Becomes, Types, TypeOK
<1>3. ~Save(h)
  BY <1>1 DEF Save, Ends, Becomes, Types, TypeOK
<1>4. ExchangeCode(h)
  BY <1>1, <1>2, <1>3 DEF Step, GetSession, Respond, StreamEvents, StreamEnds, Join, RefreshReads, RefreshToken, DeleteReads,
       Delete, DeleteByOIDCSessionID, DeleteByUserID, DeleteIndex
<1> QED
  BY <1>4 DEF ExchangeCode

-----------------------------------------------------------------------------
(* A session belongs to its login until the callback has ended.            *)

Untouched(s) ==
  /\ store[s] = NoSession /\ s \notin userIndex /\ gone[s] = "no"
  /\ \A o \in Sids : oidcIndex[o] # s
  /\ \A h \in Handlers : s \notin handler[h].todo

LoginInv ==
  /\ \A s \in Sessions : login[s] \in {"none", "started"} =>
       Untouched(s) /\ \A h \in Handlers : handler[h].s # s
  /\ \A h \in Handlers : handler[h].job = "callback" =>
       /\ handler[h].s \in Sessions /\ login[handler[h].s] = "returned"
       /\ Untouched(handler[h].s)
       /\ \A k \in Handlers \ {h} : handler[k].s # handler[h].s

LEMMA MovedOwner ==
  ASSUME Types, NEW k \in Handlers, Moved(k), NEW s \in Sessions, Untouched(s)
  PROVE  /\ handler[k].s # s => handler'[k].s # s
         /\ s \notin handler'[k].todo
         /\ handler'[k].job = "callback" => handler[k].job = "callback" /\ handler'[k].s = handler[k].s
<1>1. Idle.s = None /\ Idle.todo = {} /\ Idle.job = "none"
  BY DEF Idle
<1> QED
  BY <1>1 DEF Moved, Untouched

LEMMA MovedJob ==
  ASSUME NEW k \in Handlers, Moved(k), handler'[k].job = "callback"
  PROVE  handler[k].job = "callback" /\ handler'[k].s = handler[k].s
BY DEF Moved, Idle

LEMMA LoginStep ==
  ASSUME Types, LoginInv, NEW h \in Handlers, Step(h) \/ Fails(h)
  PROVE  LoginInv'
<1>1. ASSUME NEW s \in Sessions, Untouched(s), s # handler[h].s
      PROVE  Untouched(s)'
  BY <1>1, StepKeys, StepMoves, MovedOwner DEF Untouched
<1>2. ASSUME NEW s \in Sessions, login'[s] \in {"none", "started"}
      PROVE  Untouched(s)' /\ \A k \in Handlers : handler'[k].s # s
  <2>1. login[s] \in {"none", "started"}
    <3>1. CASE s = handler[h].s
      BY <1>2, <3>1 DEF Step, Fails, ExchangeCode, GetSession, Respond, StreamEvents, StreamEnds, Join, RefreshReads, RefreshToken,
           Save, DeleteReads, Delete, DeleteByOIDCSessionID, DeleteByUserID, DeleteIndex, Types, TypeOK
    <3>2. CASE s # handler[h].s
      BY <1>2, <3>2, StepKeys
    <3> QED
      BY <3>1, <3>2
  <2>2. Untouched(s) /\ \A k \in Handlers : handler[k].s # s
    BY <2>1 DEF LoginInv
  <2> QED
    BY <1>1, <2>2, StepMoves, MovedOwner
<1>3. ASSUME NEW k \in Handlers, handler'[k].job = "callback"
      PROVE  /\ handler'[k].s \in Sessions /\ login'[handler'[k].s] = "returned"
             /\ Untouched(handler[k].s)'
             /\ \A j \in Handlers \ {k} : handler'[j].s # handler'[k].s
  <2>0. PICK s : s = handler[k].s
    OBVIOUS
  <2>1. handler[k].job = "callback" /\ handler[k].s = s /\ handler'[k].s = s
    BY <1>3, <2>0, StepMoves, MovedJob
  <2>2. /\ s \in Sessions /\ login[s] = "returned" /\ Untouched(s)
        /\ \A j \in Handlers \ {k} : handler[j].s # s
    BY <2>1 DEF LoginInv
  <2>3. \A j \in Handlers \ {k} : handler'[j].s # s
    BY <2>2, StepMoves, MovedOwner
  <2>4. Untouched(s)' /\ login'[s] = "returned"
    <3>1. CASE k = h
      BY <1>3, <2>1, <2>2, <3>1, CallbackKeys, StepMoves, MovedOwner DEF Untouched
    <3>2. CASE k # h
      BY <1>1, <2>2, <3>2, StepKeys
    <3> QED
      BY <3>1, <3>2
  <2> QED
    BY <2>1, <2>2, <2>3, <2>4
<1> QED
  BY <1>2, <1>3 DEF LoginInv, Untouched

\* A request that begins is the only change to the local variables.
LEMMA BegunRecord ==
  ASSUME Types, NEW h \in Handlers, NEW job, NEW place, NEW s, NEW copy, Begins(h, job, place, s, copy)
  PROVE  /\ handler[h] = Idle
         /\ handler'[h].job = job /\ handler'[h].pc = place /\ handler'[h].s = s
         /\ handler'[h].copy = copy /\ handler'[h].todo = {}
         /\ \A k \in Handlers \ {h} : handler'[k] = handler[k]
BY DEF Types, TypeOK, Begins

LEMMA LoginInvNext == Types /\ LoginInv /\ [Next]_vars => LoginInv'
<1> USE DEF redis, history
<1> SUFFICES ASSUME Types, LoginInv, [Next]_vars PROVE LoginInv'
  OBVIOUS
<1>a. Idle.s = None /\ Idle.job = "none" /\ Idle.todo = {}
  BY DEF Idle
<1>1. ASSUME NEW s \in Sessions, InitiateLogin(s) PROVE LoginInv'
  BY <1>1 DEF InitiateLogin, LoginInv, Untouched, Types, TypeOK
<1>2. ASSUME NEW h \in Handlers, NEW s \in Sessions, Callback(h, s) PROVE LoginInv'
  <2>1. /\ Untouched(s) /\ \A k \in Handlers : handler[k].s # s
        /\ login'[s] = "returned" /\ \A x \in Sessions \ {s} : login'[x] = login[x]
    BY <1>2 DEF Callback, LoginInv, Types, TypeOK
  <2>2. /\ handler'[h].job = "callback" /\ handler'[h].s = s /\ handler'[h].todo = {}
        /\ \A k \in Handlers \ {h} : handler'[k] = handler[k]
    BY <1>2, BegunRecord DEF Callback
  <2>3. \A x \in Sessions : Untouched(x) => Untouched(x)'
    BY <1>2, <2>2 DEF Callback, Untouched
  <2>4. ASSUME NEW x \in Sessions, login'[x] \in {"none", "started"}
        PROVE  Untouched(x)' /\ \A k \in Handlers : handler'[k].s # x
    BY <2>1, <2>2, <2>3, <2>4 DEF LoginInv
  <2>5. ASSUME NEW k \in Handlers, handler'[k].job = "callback", k # h
        PROVE  /\ handler'[k].s \in Sessions /\ login'[handler'[k].s] = "returned"
               /\ Untouched(handler[k].s)'
               /\ \A j \in Handlers \ {k} : handler'[j].s # handler'[k].s
    <3>1. handler'[k] = handler[k] /\ handler[k].s # s
      BY <2>1, <2>2, <2>5
    <3>2. PICK x : x = handler[k].s
      OBVIOUS
    <3>3. /\ x \in Sessions /\ login[x] = "returned" /\ Untouched(x)
          /\ \A j \in Handlers \ {k} : handler[j].s # x
      BY <2>5, <3>1, <3>2 DEF LoginInv
    <3>4. Untouched(x)' /\ login'[x] = "returned" /\ \A j \in Handlers \ {k} : handler'[j].s # x
      BY <2>1, <2>2, <2>3, <3>1, <3>2, <3>3
    <3> QED
      BY <3>1, <3>2, <3>3, <3>4
  <2>6. Untouched(handler[h].s)' /\ \A j \in Handlers \ {h} : handler'[j].s # handler'[h].s
    BY <2>1, <2>2, <2>3
  <2> QED
    BY <2>1, <2>2, <2>4, <2>5, <2>6 DEF LoginInv
<1>3. ASSUME NEW h \in Handlers, NEW s \in Sessions, Request(h, s) PROVE LoginInv'
  <2>1. login[s] = "done" /\ UNCHANGED <<store, userIndex, oidcIndex, login, gone>>
    BY <1>3 DEF Request
  <2>2. /\ handler'[h].job # "callback" /\ handler'[h].s = s /\ handler'[h].todo = {} /\ handler[h] = Idle
        /\ \A k \in Handlers \ {h} : handler'[k] = handler[k]
    BY <1>3, BegunRecord DEF Request
  <2>3. \A x \in Sessions : Untouched(x) => Untouched(x)'
    BY <2>1, <2>2 DEF Untouched
  <2>4. ASSUME NEW k \in Handlers, handler'[k].job = "callback"
        PROVE  /\ handler'[k].s \in Sessions /\ login'[handler'[k].s] = "returned"
               /\ Untouched(handler[k].s)'
               /\ \A j \in Handlers \ {k} : handler'[j].s # handler'[k].s
    <3>1. k # h /\ handler'[k] = handler[k]
      BY <2>2, <2>4
    <3>2. PICK x : x = handler[k].s
      OBVIOUS
    <3>3. /\ x \in Sessions /\ login[x] = "returned" /\ Untouched(x)
          /\ \A j \in Handlers \ {k} : handler[j].s # x
      BY <2>4, <3>1, <3>2 DEF LoginInv
    <3>4. Untouched(x)' /\ login'[x] = "returned" /\ \A j \in Handlers \ {k} : handler'[j].s # x
      BY <2>1, <2>2, <2>3, <3>1, <3>2, <3>3
    <3> QED
      BY <3>1, <3>2, <3>3, <3>4
  <2>5. \A x \in Sessions : login'[x] \in {"none", "started"}
                              => Untouched(x)' /\ \A k \in Handlers : handler'[k].s # x
    BY <2>1, <2>2, <2>3 DEF LoginInv
  <2> QED
    BY <2>4, <2>5 DEF LoginInv
<1>4. ASSUME NEW h \in Handlers, NEW o \in Sids, BackchannelLogout(h, o) PROVE LoginInv'
  <2>1. UNCHANGED <<store, userIndex, oidcIndex, login, gone>>
    BY <1>4 DEF BackchannelLogout
  <2>2. /\ handler'[h].job # "callback" /\ handler'[h].s = None /\ handler'[h].todo = {}
        /\ \A k \in Handlers \ {h} : handler'[k] = handler[k]
    BY <1>4, BegunRecord DEF BackchannelLogout
  <2>3. \A x \in Sessions : Untouched(x) => Untouched(x)'
    BY <2>1, <2>2 DEF Untouched
  <2>4. ASSUME NEW k \in Handlers, handler'[k].job = "callback"
        PROVE  /\ handler'[k].s \in Sessions /\ login'[handler'[k].s] = "returned"
               /\ Untouched(handler[k].s)'
               /\ \A j \in Handlers \ {k} : handler'[j].s # handler'[k].s
    <3>1. k # h /\ handler'[k] = handler[k]
      BY <2>2, <2>4
    <3>2. PICK x : x = handler[k].s
      OBVIOUS
    <3>3. /\ x \in Sessions /\ login[x] = "returned" /\ Untouched(x)
          /\ \A j \in Handlers \ {k} : handler[j].s # x
      BY <2>4, <3>1, <3>2 DEF LoginInv
    <3>4. Untouched(x)' /\ login'[x] = "returned" /\ \A j \in Handlers \ {k} : handler'[j].s # x
      BY <2>1, <2>2, <2>3, <3>1, <3>2, <3>3
    <3> QED
      BY <3>1, <3>2, <3>3, <3>4
  <2>5. \A x \in Sessions : login'[x] \in {"none", "started"}
                              => Untouched(x)' /\ \A k \in Handlers : handler'[k].s # x
    BY <2>1, <2>2, <2>3 DEF LoginInv
  <2> QED
    BY <2>4, <2>5 DEF LoginInv
<1>5. ASSUME NEW s \in Sessions, SessionExpires(s) PROVE LoginInv'
  <2>1. UNCHANGED <<userIndex, login, handler, gone>>
    BY <1>5 DEF SessionExpires
  <2>2. \A x \in Sessions : Untouched(x) => Untouched(x)'
    BY <1>5 DEF SessionExpires, Untouched, Types, TypeOK
  <2> QED
    BY <2>1, <2>2 DEF LoginInv, Untouched
<1>6. CASE UNCHANGED <<store, userIndex, oidcIndex, login, handler, gone>>
  BY <1>6 DEF LoginInv, Untouched
<1>7. CASE \E o \in Sids : TokenExpires(o) \/ ProviderEnds(o)
  BY <1>6, <1>7 DEF TokenExpires, ProviderEnds
<1> QED
  BY <1>1, <1>2, <1>3, <1>4, <1>5, <1>6, <1>7, LoginStep DEF Next, vars

-----------------------------------------------------------------------------
(* What was deleted stays deleted.                                         *)

\* Only a refresh that finds the session begins to write it.
LEMMA Writers ==
  ASSUME Types, NEW h \in Handlers, Step(h) \/ Fails(h), NEW k \in Handlers, NEW s \in Sessions,
         Writes(k, s)'
  PROVE  Writes(k, s) \/ (k = h /\ RefreshReads(h) /\ handler[h].s = s /\ store[s] # NoSession)
<1>a. pc(h) # "idle" => handler[h] \in Fields
  BY BusyHasFields
<1>b. ASSUME NEW r, Becomes(h, r), r.pc \notin {"exchange", "call", "save"} PROVE Writes(k, s)
  BY <1>b DEF Becomes, Writes, pc, Types, TypeOK
<1>c. Idle.pc \notin {"exchange", "call", "save"}
  BY DEF Idle
<1>d. ASSUME NEW ok \in BOOLEAN, FlightEnds(h, ok), Leads(h) PROVE Writes(k, s)
  BY <1>d, FlightMoves DEF Writes, pc
<1>e. ASSUME NEW todo \in SUBSET Sessions, pc(h) \in {"members", "delGet", "del"},
             NEW r \in NextOf(h, todo), Becomes(h, r)
      PROVE  Writes(k, s)
  BY <1>b, <1>c, <1>e, NextOfMoves
<1>1. CASE ExchangeCode(h)
  <2>1. pc(h) = "exchange" /\ handler[h] \in Fields
    BY <1>1, <1>a DEF ExchangeCode
  <2>2. PICK o \in Sids : Becomes(h, [handler[h] EXCEPT !.pc = "save", !.copy = IssuedTo(o)])
    BY <1>1 DEF ExchangeCode
  <2>3. Stays(h, [handler[h] EXCEPT !.pc = "save", !.copy = IssuedTo(o)])
    BY <2>1 DEF Fields, Stays
  <2> QED
    BY <2>1, <2>2, <2>3 DEF Becomes, Writes, Stays, pc, Types, TypeOK
<1>2. CASE GetSession(h)
  <2>1. pc(h) = "get" /\ handler[h] \in Fields
    BY <1>2, <1>a DEF GetSession
  <2>2. [handler[h] EXCEPT !.pc = "do", !.copy = store[handler[h].s]].pc = "do"
    BY <2>1 DEF Fields
  <2> QED
    BY <1>2, <1>b, <1>c, <2>1, <2>2, PassedMoves DEF GetSession
<1>3. CASE Respond(h) \/ StreamEnds(h) \/ DeleteIndex(h)
  BY <1>3, <1>b, <1>c DEF Respond, StreamEnds, DeleteIndex, Ends
<1>13. CASE StreamEvents(h)
  <2>1. handler[h] \in Fields
    BY <1>13, <1>a DEF StreamEvents
  <2>2. [handler[h] EXCEPT !.pc = "stream"].pc = "stream"
    BY <2>1 DEF Fields
  <2> QED
    BY <1>13, <1>b, <2>2 DEF StreamEvents, Goes, Becomes
<1>4. CASE Join(h)
  <2>1. handler[h] \in Fields
    BY <1>4, <1>a DEF Join
  <2>2. [handler[h] EXCEPT !.pc = "join"].pc = "join"
    BY <2>1 DEF Fields
  <2> QED
    BY <1>4, <1>b, <2>2 DEF Join, Goes, Becomes
<1>5. CASE RefreshReads(h)
  <2>1. pc(h) = "do" /\ handler[h] \in Fields
    BY <1>5, <1>a DEF RefreshReads
  <2> DEFINE copy == store[handler[h].s]
             r == [handler[h] EXCEPT !.pc = "call", !.copy = copy]
  <2>2. CASE copy # NoSession /\ Becomes(h, r)
    <3>1. r.s = handler[h].s
      BY <2>1 DEF Fields
    <3>2. handler'[h] = r /\ \A j \in Handlers \ {h} : handler'[j] = handler[j]
      BY <2>2 DEF Becomes, Types, TypeOK
    <3> QED
      BY <1>5, <2>2, <3>1, <3>2 DEF Writes, pc
  <2>3. CASE ~(copy # NoSession /\ Becomes(h, r))
    BY <1>5, <1>b, <1>c, <2>1, <2>3, PassedMoves DEF RefreshReads
  <2> QED
    BY <2>2, <2>3
<1>6. CASE RefreshToken(h)
  <2>1. pc(h) = "call" /\ handler[h] \in Fields /\ Leads(h)
    BY <1>6, <1>a DEF RefreshToken, Leads, Types, Shape, Shaped, pc
  <2>2. ASSUME NEW copy PROVE Stays(h, [handler[h] EXCEPT !.pc = "save", !.copy = copy])
    BY <2>1 DEF Fields, Stays
  <2>3. CASE Becomes(h, [handler[h] EXCEPT !.pc = "save", !.copy = IssuedTo(handler[h].copy.sid)])
    BY <2>1, <2>2, <2>3 DEF Becomes, Writes, Stays, pc, Types, TypeOK
  <2> QED
    BY <1>6, <1>d, <2>1, <2>3 DEF RefreshToken
<1>7. CASE Save(h)
  <2>1. handler[h].job # "callback" => Leads(h)
    BY <1>7 DEF Save, Leads, Types, Shape, Shaped, pc
  <2> QED
    BY <1>7, <1>b, <1>c, <1>d, <2>1 DEF Save, Ends
<1>8. CASE DeleteReads(h)
  <2>1. pc(h) = "delGet" /\ handler[h] \in Fields /\ handler[h].todo \in SUBSET Sessions
    BY <1>8, <1>a DEF DeleteReads, Fields
  <2>2. [handler[h] EXCEPT !.pc = "del", !.copy = store[handler[h].s]].pc = "del"
    BY <2>1 DEF Fields
  <2> QED
    BY <1>8, <1>b, <1>e, <2>1, <2>2 DEF DeleteReads
<1>9. CASE Delete(h)
  <2>1. pc(h) = "del" /\ handler[h].todo \in SUBSET Sessions
    BY <1>9, <1>a DEF Delete, Fields
  <2> QED
    BY <1>9, <1>e, <2>1 DEF Delete
<1>10. CASE DeleteByOIDCSessionID(h)
  <2>1. handler[h] \in Fields
    BY <1>10, <1>a DEF DeleteByOIDCSessionID
  <2>2. [handler[h] EXCEPT !.pc = "delGet", !.s = oidcIndex[handler[h].copy.sid]].pc = "delGet"
    BY <2>1 DEF Fields
  <2> QED
    BY <1>10, <1>b, <1>c, <2>2 DEF DeleteByOIDCSessionID
<1>11. CASE DeleteByUserID(h)
  BY <1>11, <1>e DEF DeleteByUserID, Types, TypeOK
<1>12. CASE Fails(h)
  <2>1. CASE Leads(h)
    BY <1>12, <1>d, <2>1 DEF Fails
  <2>2. CASE ~Leads(h) /\ handler[h].job = "sub" /\ pc(h) \in {"delGet", "del"}
    BY <1>12, <1>a, <1>e, <2>2 DEF Fails, Fields
  <2>3. CASE ~Leads(h) /\ ~(handler[h].job = "sub" /\ pc(h) \in {"delGet", "del"})
    BY <1>12, <1>b, <1>c, <2>3 DEF Fails, Ends
  <2> QED
    BY <2>1, <2>2, <2>3
<1> QED
  BY <1>1, <1>2, <1>3, <1>4, <1>5, <1>6, <1>7, <1>8, <1>9, <1>10, <1>11, <1>12, <1>13
     DEF Step

GoneInv ==
  \A s \in Sessions : gone[s] = "deleted" =>
    store[s] = NoSession /\ \A h \in Handlers : ~Writes(h, s)

LEMMA GoneDeleted ==
  ASSUME Types, LoginInv, GoneInv, NEW h \in Handlers, pc(h) = "del", NEW n \in 0..3, Deleted(h, n),
         NEW s \in Sessions, gone'[s] = "deleted"
  PROVE  store'[s] = NoSession /\ \A k \in Handlers : ~Writes(k, s)
<1>1. handler[h].s \in Sessions /\ handler[h].job # "callback"
  BY DEF Types, Shape, Shaped, AtSession, pc
<1>2. CASE gone[s] = "deleted"
  BY <1>1, <1>2 DEF Deleted, GoneInv, Types, TypeOK
<1>3. CASE gone[s] # "deleted"
  <2>1. n >= 1 /\ s = handler[h].s /\ ~ \E k \in Handlers : Leads(k) /\ handler[k].s = s
    BY <1>1, <1>3 DEF Deleted, Types, TypeOK
  <2>2. store'[s] = NoSession
    BY <1>1, <2>1 DEF Deleted, Types, TypeOK
  <2>3. ASSUME NEW k \in Handlers, Writes(k, s) PROVE FALSE
    <3>1. handler[k].job = "callback"
      BY <2>1, <2>3 DEF Writes, Leads, Types, Shape, Shaped, pc
    <3>2. k # h
      BY <1>1, <3>1
    <3> QED
      BY <2>1, <2>3, <3>1, <3>2 DEF LoginInv, Writes
  <2> QED
    BY <2>2, <2>3
<1> QED
  BY <1>2, <1>3

LEMMA GoneSaved ==
  ASSUME Types, GoneInv, NEW h \in Handlers, pc(h) = "save", NEW n \in 0..3, Saved(h, n),
         NEW s \in Sessions, gone'[s] = "deleted"
  PROVE  store'[s] = NoSession /\ \A k \in Handlers : ~Writes(k, s)
<1>1. gone[s] = "deleted" /\ s # handler[h].s
  BY DEF Saved, GoneInv, Writes
<1> QED
  BY <1>1, SavedKeys DEF GoneInv

LEMMA GoneInvNext == Types /\ LoginInv /\ GoneInv /\ [Next]_vars => GoneInv'
<1> USE DEF redis, history
<1> SUFFICES ASSUME Types, LoginInv, GoneInv, [Next]_vars PROVE GoneInv'
  OBVIOUS
<1>1. ASSUME NEW h \in Handlers, Step(h) \/ Fails(h) PROVE GoneInv'
  <2> SUFFICES ASSUME NEW s \in Sessions, gone'[s] = "deleted"
               PROVE  store'[s] = NoSession /\ \A k \in Handlers : ~Writes(k, s)'
    BY DEF GoneInv
  <2>1. store'[s] = NoSession /\ \A k \in Handlers : ~Writes(k, s)
    <3>1. CASE Save(h)
      BY <3>1, GoneSaved, 3 \in 0..3 DEF Save
    <3>2. CASE Delete(h)
      BY <3>2, GoneDeleted, 3 \in 0..3 DEF Delete
    <3>3. CASE Fails(h)
      BY <3>3, GoneSaved, GoneDeleted DEF Fails, GoneInv
    <3>4. CASE ~Save(h) /\ ~Delete(h) /\ ~Fails(h)
      BY <1>1, <3>4 DEF Step, ExchangeCode, GetSession, Respond, StreamEvents, StreamEnds, Join, RefreshReads, RefreshToken, DeleteReads,
           DeleteByOIDCSessionID, DeleteByUserID, DeleteIndex, GoneInv
    <3> QED
      BY <3>1, <3>2, <3>3, <3>4
  <2>2. ASSUME NEW k \in Handlers, Writes(k, s)' PROVE FALSE
    <3>1. RefreshReads(h) /\ store[s] # NoSession
      BY <1>1, <2>1, <2>2, Writers
    <3> QED
      BY <2>1, <3>1 DEF RefreshReads
  <2> QED
    BY <2>1, <2>2
<1>2. ASSUME NEW h \in Handlers, NEW s \in Sessions, Callback(h, s) PROVE GoneInv'
  <2>1. gone[s] # "deleted" /\ UNCHANGED <<store, gone>>
    BY <1>2 DEF Callback, LoginInv, Untouched
  <2>2. handler'[h].s = s /\ \A k \in Handlers \ {h} : handler'[k] = handler[k]
    BY <1>2, BegunRecord DEF Callback
  <2> QED
    BY <2>1, <2>2 DEF GoneInv, Writes, pc
<1>3. ASSUME NEW h \in Handlers, NEW s \in Sessions, Request(h, s) PROVE GoneInv'
  <2>1. handler'[h].pc = "get" /\ (\A k \in Handlers \ {h} : handler'[k] = handler[k]) /\ UNCHANGED <<store, gone>>
    BY <1>3, BegunRecord DEF Request
  <2> QED
    BY <2>1 DEF GoneInv, Writes, pc
<1>4. ASSUME NEW h \in Handlers, NEW o \in Sids, BackchannelLogout(h, o) PROVE GoneInv'
  <2>1. /\ handler'[h].pc \in {"sidGet", "members"} /\ UNCHANGED <<store, gone>>
        /\ \A k \in Handlers \ {h} : handler'[k] = handler[k]
    BY <1>4, BegunRecord DEF BackchannelLogout
  <2> QED
    BY <2>1 DEF GoneInv, Writes, pc
<1>5. ASSUME NEW s \in Sessions, SessionExpires(s) PROVE GoneInv'
  BY <1>5 DEF SessionExpires, GoneInv, Writes, pc, Types, TypeOK
<1>6. CASE UNCHANGED <<store, gone, handler>>
  BY <1>6 DEF GoneInv, Writes, pc
<1>7. CASE \/ \E o \in Sids : TokenExpires(o) \/ ProviderEnds(o)
           \/ \E s \in Sessions : InitiateLogin(s)
  BY <1>6, <1>7 DEF TokenExpires, ProviderEnds, InitiateLogin
<1> QED
  BY <1>1, <1>2, <1>3, <1>4, <1>5, <1>6, <1>7 DEF Next, vars

LEMMA LoginGoneInit == Init => LoginInv /\ GoneInv
BY DEF Init, LoginInv, GoneInv, Untouched, Idle

\* A session that was deleted stays deleted, unless a refresh had read it before, for any
\* replicas and requests and whatever fails.
THEOREM DeletedIsFinal == Spec => []DeletedStaysDeleted
<1>1. GoneInv => DeletedStaysDeleted
  BY DEF GoneInv, DeletedStaysDeleted
<1> QED
  BY <1>1, TypesInit, LoginGoneInit, TypesNext, LoginInvNext, GoneInvNext, PTL DEF Spec

-----------------------------------------------------------------------------
(* The index of the user.                                                  *)

\* A deletion begins when the session is read for it, or with a logout by user.
LEMMA Deleters ==
  ASSUME Types, NEW h \in Handlers, Step(h) \/ Fails(h), ~DeleteReads(h),
         NEW k \in Handlers, NEW s \in Sessions, Deletes(k, s)'
  PROVE  Deletes(k, s)
<1>1. CASE handler'[k].job = "sub"
  BY <1>1, StepMoves DEF Moved, Idle, Deletes
<1>2. CASE handler'[k].job # "sub"
  <2>1. handler'[k].pc = "del" /\ handler'[k].s = s
    BY <1>2 DEF Deletes, pc
  <2>2. CASE handler'[k] = handler[k]
    BY <2>1, <2>2 DEF Deletes, pc
  <2>3. CASE handler'[k] # handler[k]
    <3>a. pc(h) # "idle" => handler[h] \in Fields
      BY BusyHasFields
    <3>b. ASSUME NEW r, Becomes(h, r) PROVE r.pc = "del"
      BY <2>1, <2>3, <3>b DEF Becomes, Types, TypeOK
    <3>c. Idle.pc # "del"
      BY DEF Idle
    <3>d. ASSUME NEW ok \in BOOLEAN, FlightEnds(h, ok), Leads(h) PROVE FALSE
      BY <2>1, <2>3, <3>d, FlightMoves
    <3>e. ASSUME NEW todo \in SUBSET Sessions, pc(h) \in {"members", "delGet", "del"},
                 NEW r \in NextOf(h, todo), Becomes(h, r)
          PROVE  FALSE
      BY <3>b, <3>c, <3>e, NextOfMoves
    <3>1. ~ExchangeCode(h)
      <4> SUFFICES ASSUME ExchangeCode(h) PROVE FALSE
        OBVIOUS
      <4>1. PICK o \in Sids : Becomes(h, [handler[h] EXCEPT !.pc = "save", !.copy = IssuedTo(o)])
        BY DEF ExchangeCode
      <4>2. [handler[h] EXCEPT !.pc = "save", !.copy = IssuedTo(o)].pc = "save"
        BY <3>a DEF ExchangeCode, Fields
      <4> QED
        BY <3>b, <4>1, <4>2
    <3>2. ~GetSession(h) /\ ~RefreshReads(h)
      <4> SUFFICES ASSUME GetSession(h) \/ RefreshReads(h) PROVE FALSE
        OBVIOUS
      <4> DEFINE copy == store[handler[h].s]
      <4>1. pc(h) # "idle" /\ handler[h] \in Fields
        BY <3>a DEF GetSession, RefreshReads
      <4>2. /\ [handler[h] EXCEPT !.pc = "do", !.copy = copy].pc = "do"
            /\ [handler[h] EXCEPT !.pc = "call", !.copy = copy].pc = "call"
        BY <4>1 DEF Fields
      <4>3. Passed(h, copy).pc # "del"
        BY <4>1, PassedMoves
      <4>4. \/ Becomes(h, Idle) \/ Becomes(h, Passed(h, copy))
            \/ Becomes(h, [handler[h] EXCEPT !.pc = "do", !.copy = copy])
            \/ Becomes(h, [handler[h] EXCEPT !.pc = "call", !.copy = copy])
        BY DEF GetSession, RefreshReads
      <4> QED
        BY <3>b, <3>c, <4>2, <4>3, <4>4
    <3>3. ~Respond(h) /\ ~StreamEnds(h) /\ ~DeleteIndex(h) /\ ~Join(h) /\ ~StreamEvents(h) /\ ~RefreshToken(h)
      <4>1. ~Respond(h) /\ ~StreamEnds(h) /\ ~DeleteIndex(h)
        BY <3>b, <3>c DEF Respond, StreamEnds, DeleteIndex, Ends
      <4>2. ASSUME Join(h) PROVE FALSE
        <5>1. [handler[h] EXCEPT !.pc = "join"].pc = "join"
          BY <3>a, <4>2 DEF Join, Fields
        <5>2. Becomes(h, [handler[h] EXCEPT !.pc = "join"])
          BY <4>2 DEF Join, Goes, Becomes
        <5> QED
          BY <3>b, <5>1, <5>2
      <4>3. ASSUME RefreshToken(h) PROVE FALSE
        <5>1. Leads(h)
          BY <4>3 DEF RefreshToken, Leads, Types, Shape, Shaped, pc
        <5>2. Becomes(h, [handler[h] EXCEPT !.pc = "save", !.copy = IssuedTo(handler[h].copy.sid)])
          BY <3>d, <4>3, <5>1 DEF RefreshToken
        <5>3. [handler[h] EXCEPT !.pc = "save", !.copy = IssuedTo(handler[h].copy.sid)].pc = "save"
          BY <3>a, <4>3 DEF RefreshToken, Fields
        <5> QED
          BY <3>b, <5>2, <5>3
      <4>4. ASSUME StreamEvents(h) PROVE FALSE
        <5>1. [handler[h] EXCEPT !.pc = "stream"].pc = "stream"
          BY <3>a, <4>4 DEF StreamEvents, Fields
        <5>2. Becomes(h, [handler[h] EXCEPT !.pc = "stream"])
          BY <4>4 DEF StreamEvents, Goes, Becomes
        <5> QED
          BY <3>b, <5>1, <5>2
      <4> QED
        BY <4>1, <4>2, <4>3, <4>4
    <3>4. ~Save(h)
      <4>1. Save(h) /\ handler[h].job # "callback" => Leads(h)
        BY DEF Save, Leads, Types, Shape, Shaped, pc
      <4> QED
        BY <3>b, <3>c, <3>d, <4>1 DEF Save, Ends
    <3>5. ~Delete(h)
      BY <3>a, <3>e DEF Delete, Fields
    <3>6. ~DeleteByOIDCSessionID(h)
      <4>1. pc(h) # "idle"
              => [handler[h] EXCEPT !.pc = "delGet", !.s = oidcIndex[handler[h].copy.sid]].pc = "delGet"
        BY <3>a DEF Fields
      <4> QED
        BY <3>b, <3>c, <4>1 DEF DeleteByOIDCSessionID
    <3>7. ~DeleteByUserID(h)
      BY <3>e DEF DeleteByUserID, Types, TypeOK
    <3>8. ~Fails(h)
      <4>1. Fails(h) /\ ~Leads(h) => ~(handler[h].job = "sub" /\ pc(h) \in {"delGet", "del"})
        BY <3>a, <3>e DEF Fails, Fields
      <4> QED
        BY <3>b, <3>c, <3>d, <4>1 DEF Fails, Ends
    <3> QED
      BY <3>1, <3>2, <3>3, <3>4, <3>5, <3>6, <3>7, <3>8 DEF Step
  <2> QED
    BY <2>2, <2>3
<1> QED
  BY <1>1, <1>2

OverlapInv == \A s \in Sessions : Overlap(s) => s \in raced

LEMMA RacedGrows == Next => raced \subseteq raced'
BY DEF Next, Step, Fails, ExchangeCode, GetSession, Respond, StreamEvents, StreamEnds, Join, RefreshReads, RefreshToken,
     Save, DeleteReads, Delete, DeleteByOIDCSessionID, DeleteByUserID, DeleteIndex, InitiateLogin,
     SessionExpires, Callback, Request, BackchannelLogout, TokenExpires, ProviderEnds, Overlaps, history

LEMMA OverlapInvNext == Types /\ OverlapInv /\ [Next]_vars => OverlapInv'
<1> SUFFICES ASSUME Types, OverlapInv, [Next]_vars PROVE OverlapInv'
  OBVIOUS
<1>1. CASE Overlaps
  BY <1>1 DEF Overlaps, OverlapInv
<1>2. ASSUME NEW h \in Handlers, Step(h) \/ Fails(h), ~DeleteReads(h), ~RefreshReads(h) PROVE OverlapInv'
  <2>1. \A s \in Sessions : Overlap(s)' => Overlap(s)
    BY <1>2, Writers, Deleters DEF Overlap
  <2> QED
    BY <1>2, <2>1, RacedGrows DEF OverlapInv, Next
<1>3. ASSUME NEW h \in Handlers, DeleteReads(h) \/ RefreshReads(h) PROVE OverlapInv'
  BY <1>1, <1>3 DEF DeleteReads, RefreshReads
<1>4. ASSUME NEW h \in Handlers, NEW s \in Sessions, Request(h, s) PROVE OverlapInv'
  <2>1. /\ handler'[h].pc = "get" /\ handler'[h].job # "sub"
        /\ \A k \in Handlers \ {h} : handler'[k] = handler[k]
    BY <1>4, BegunRecord DEF Request
  <2>2. \A x \in Sessions : Overlap(x)' => Overlap(x)
    BY <2>1 DEF Overlap, Writes, Deletes, pc
  <2> QED
    BY <1>4, <2>2 DEF OverlapInv, Request, history
<1>5. CASE UNCHANGED <<handler, raced>>
  BY <1>5 DEF OverlapInv, Overlap, Writes, Deletes, pc
<1>6. CASE \/ \E s \in Sessions : InitiateLogin(s) \/ SessionExpires(s)
           \/ \E o \in Sids : TokenExpires(o) \/ ProviderEnds(o)
  BY <1>5, <1>6 DEF InitiateLogin, SessionExpires, TokenExpires, ProviderEnds, history
<1>7. CASE \/ \E h \in Handlers, s \in Sessions : Callback(h, s)
           \/ \E h \in Handlers, o \in Sids : BackchannelLogout(h, o)
  BY <1>1, <1>7 DEF Callback, BackchannelLogout
<1> QED
  BY <1>2, <1>3, <1>4, <1>5, <1>6, <1>7 DEF Next, vars, history

\* The session is among those that a logout by user has still to delete.
Pending(h, s) ==
  pc(h) # "delIndex" /\ (s \in handler[h].todo \/ (handler[h].s = s /\ pc(h) \in {"delGet", "del"}))

ByUser(h) == handler[h].job = "sub" /\ pc(h) # "members"

IndexInv ==
  /\ \A s \in Sessions : store[s] # NoSession => s \in userIndex \/ s \in raced
  /\ \A h \in Handlers, s \in Sessions :
       ByUser(h) /\ store[s] # NoSession => s \in raced \/ Pending(h, s)

\* Only a save brings a session to the store, and not beside a deletion.
LEMMA Stores ==
  ASSUME Types, NEW h \in Handlers, Step(h) \/ Fails(h), NEW s \in Sessions,
         store[s] = NoSession, store'[s] # NoSession
  PROVE  Writes(h, s) /\ (s \in raced' \/ (Save(h) /\ s \in userIndex'))
<1> USE DEF redis, history
<1>1. s = handler[h].s
  BY StepKeys
<1>2. CASE Save(h)
  <2>1. pc(h) = "save" /\ s \in userIndex'
    BY <1>1, <1>2 DEF Save, Saved
  <2> QED
    BY <1>1, <1>2, <2>1 DEF Writes
<1>3. CASE Fails(h)
  <2>1. pc(h) = "save"
    BY <1>1, <1>3 DEF Fails, Deleted, Types, TypeOK
  <2> QED
    BY <1>1, <1>3, <2>1 DEF Fails, Writes
<1>4. ~Delete(h)
  BY <1>1 DEF Delete, Deleted, Types, TypeOK
<1>5. CASE ~Save(h) /\ ~Fails(h)
  BY <1>4, <1>5 DEF Step, ExchangeCode, GetSession, Respond, StreamEvents, StreamEnds, Join, RefreshReads, RefreshToken, DeleteReads,
       DeleteByOIDCSessionID, DeleteByUserID, DeleteIndex
<1> QED
  BY <1>2, <1>3, <1>5

\* What another handler does to a logout by user, and what it does itself.
LEMMA ByUserStep ==
  ASSUME Types, IndexInv, NEW h \in Handlers, Step(h) \/ Fails(h), NEW k \in Handlers, ByUser(k)'
  PROVE  \/ handler'[k] = handler[k]
         \/ k = h /\ Fails(h) /\ raced' = Sessions
         \/ /\ k = h /\ DeleteByUserID(h) /\ pc(h) = "members"
            /\ \A s \in userIndex : Pending(h, s)'
         \/ /\ k = h /\ ByUser(h) /\ pc(h) \in {"delGet", "del"}
            /\ \A s \in Sessions : Pending(h, s) =>
                 \/ Pending(h, s)'
                 \/ s = handler[h].s /\ (Delete(h) \/ (DeleteReads(h) /\ store[s] = NoSession))
<1>a. handler[k].job = "sub" /\ (pc(k) # "idle" => handler[k] \in Fields)
  BY StepMoves, BusyHasFields DEF ByUser, Moved, Idle
<1>b. handler[k].job = "sub" => pc(k) \in {"members", "delGet", "del", "delIndex"}
  BY <1>a DEF Types, Shape, Shaped, Fields, TypeOK, Handler, pc, Idle
<1>c. Idle.job # "sub"
  BY DEF Idle
<1>d. ASSUME NEW r, Becomes(h, r) PROVE handler'[h] = r /\ \A j \in Handlers \ {h} : handler'[j] = handler[j]
  BY <1>d DEF Becomes, Types, TypeOK
<1>e. ASSUME NEW todo \in SUBSET Sessions, pc(h) \in {"members", "delGet", "del"}, k = h,
             NEW r \in NextOf(h, todo), Becomes(h, r)
      PROVE  \A s \in todo : Pending(h, s)'
  BY <1>a, <1>d, <1>e, NextOfMoves DEF Pending, pc
<1>1. CASE k # h
  <2>1. \A ok \in BOOLEAN : FlightEnds(h, ok) => handler'[k] = handler[k]
    BY <1>1, <1>a, <1>b DEF FlightEnds, Followers
  <2>2. CASE \E ok \in BOOLEAN : FlightEnds(h, ok)
    BY <2>1, <2>2
  <2>3. CASE \E r : Becomes(h, r)
    BY <1>1, <1>d, <2>3
  <2>4. (\E ok \in BOOLEAN : FlightEnds(h, ok)) \/ (\E r : Becomes(h, r))
    BY DEF Step, Fails, ExchangeCode, GetSession, Respond, StreamEvents, StreamEnds, Join, RefreshReads, RefreshToken, Save, DeleteReads,
           Delete, DeleteByOIDCSessionID, DeleteByUserID, DeleteIndex, Ends, Goes, Becomes
  <2> QED
    BY <2>2, <2>3, <2>4
<1>2. CASE k = h
  <2>1. ~Leads(h) /\ pc(h) \in {"members", "delGet", "del", "delIndex"} /\ handler[h].job = "sub"
    BY <1>2, <1>a, <1>b DEF Leads
  <2>2. handler[h].todo \in SUBSET Sessions
    BY <1>2, <1>a, <2>1 DEF Fields
  <2>3. CASE Fails(h)
    BY <1>2, <2>1, <2>3 DEF Fails, Types, TypeOK
  <2>4. CASE DeleteByUserID(h)
    BY <1>2, <1>e, <2>4 DEF DeleteByUserID, Types, TypeOK
  <2>5. CASE DeleteReads(h)
    <3>1. pc(h) = "delGet" /\ handler[h] \in Fields
      BY <1>2, <1>a, <2>5 DEF DeleteReads
    <3>2. CASE store[handler[h].s] = NoSession
      BY <1>2, <1>e, <2>1, <2>2, <2>5, <3>1, <3>2 DEF DeleteReads, Pending, ByUser
    <3>3. CASE store[handler[h].s] # NoSession
      <4> DEFINE r == [handler[h] EXCEPT !.pc = "del", !.copy = store[handler[h].s]]
      <4>1. r.pc = "del" /\ r.s = handler[h].s /\ r.todo = handler[h].todo
        BY <3>1 DEF Fields
      <4>2. handler'[h] = r
        BY <1>d, <2>5, <3>3 DEF DeleteReads
      <4> HIDE DEF r
      <4>3. \A s \in Sessions : Pending(h, s) => Pending(h, s)'
        BY <3>1, <4>1, <4>2 DEF Pending, pc
      <4> QED
        BY <1>2, <2>1, <3>1, <4>3 DEF ByUser
    <3> QED
      BY <3>2, <3>3
  <2>6. CASE Delete(h)
    BY <1>2, <1>e, <2>1, <2>2, <2>6 DEF Delete, Pending, ByUser
  <2>7. ~DeleteIndex(h)
    BY <1>2, <1>c, <1>d DEF DeleteIndex, Ends, ByUser
  <2> QED
    BY <2>1, <2>3, <2>4, <2>5, <2>6, <2>7 DEF Step, ExchangeCode, GetSession, Respond, StreamEvents, StreamEnds, Join, RefreshReads,
         RefreshToken, Save, DeleteByOIDCSessionID
<1> QED
  BY <1>1, <1>2

LEMMA IndexKept ==
  ASSUME Types, IndexInv, NEW h \in Handlers, Step(h) \/ Fails(h), NEW s \in Sessions,
         s \in userIndex, store'[s] # NoSession, store[s] # NoSession
  PROVE  s \in userIndex' \/ s \in raced'
<1>1. CASE pc(h) = "delIndex"
  <2>1. ByUser(h) /\ ~Pending(h, s)
    BY <1>1 DEF ByUser, Pending, Types, Shape, Shaped, pc
  <2> QED
    BY <2>1, RacedGrows DEF IndexInv, Next
<1>2. CASE pc(h) # "delIndex" /\ s # handler[h].s
  BY <1>2, StepKeys
<1>3. CASE pc(h) # "delIndex" /\ s = handler[h].s
  <2>1. ~Delete(h)
    BY <1>3 DEF Delete, Deleted, Types, TypeOK
  <2>2. CASE Fails(h)
    BY <1>3, <2>2 DEF Fails
  <2>3. CASE Save(h)
    BY <2>3 DEF Save, Saved
  <2>4. CASE ~Fails(h) /\ ~Save(h)
    BY <1>3, <2>1, <2>4 DEF Step, ExchangeCode, GetSession, Respond, StreamEvents, StreamEnds, Join, RefreshReads, RefreshToken, DeleteReads,
       DeleteByOIDCSessionID, DeleteByUserID, DeleteIndex, redis
  <2> QED
    BY <2>2, <2>3, <2>4
<1> QED
  BY <1>1, <1>2, <1>3

LEMMA IndexInvStep ==
  ASSUME Types, OverlapInv, IndexInv, NEW h \in Handlers, Step(h) \/ Fails(h)
  PROVE  IndexInv'
<1>0. raced \subseteq raced'
  BY RacedGrows DEF Next
<1>1. ASSUME NEW s \in Sessions, store'[s] # NoSession PROVE s \in userIndex' \/ s \in raced'
  BY <1>0, <1>1, Stores, IndexKept DEF IndexInv
<1>2. ASSUME NEW k \in Handlers, NEW s \in Sessions, ByUser(k)', store'[s] # NoSession, s \notin raced'
      PROVE  Pending(k, s)'
  <2>1. \/ handler'[k] = handler[k]
        \/ /\ k = h /\ DeleteByUserID(h) /\ \A x \in userIndex : Pending(h, x)'
        \/ /\ k = h /\ ByUser(h)
           /\ \A x \in Sessions : Pending(h, x) =>
                \/ Pending(h, x)'
                \/ x = handler[h].s /\ (Delete(h) \/ (DeleteReads(h) /\ store[x] = NoSession))
    BY <1>2, ByUserStep
  <2>2. CASE store[s] = NoSession
    <3>1. Writes(h, s) /\ Save(h)
      BY <1>2, <2>2, Stores
    <3>2. handler[k].job = "sub"
      BY <1>2, StepMoves DEF ByUser, Moved, Idle
    <3> QED
      BY <1>0, <1>2, <3>1, <3>2 DEF OverlapInv, Overlap, Deletes
  <2>3. CASE store[s] # NoSession
    <3>1. CASE handler'[k] = handler[k]
      BY <1>0, <1>2, <2>3, <3>1 DEF IndexInv, ByUser, Pending, pc
    <3>2. CASE k = h /\ DeleteByUserID(h) /\ \A x \in userIndex : Pending(h, x)'
      BY <1>0, <1>2, <2>3, <3>2 DEF IndexInv
    <3>3. CASE /\ k = h /\ ByUser(h)
               /\ \A x \in Sessions : Pending(h, x) =>
                    \/ Pending(h, x)'
                    \/ x = handler[h].s /\ (Delete(h) \/ (DeleteReads(h) /\ store[x] = NoSession))
      <4>1. Delete(h) => store'[handler[h].s] = NoSession
        BY DEF Delete, Deleted, Types, TypeOK, Shape, Shaped, AtSession, pc
      <4> QED
        BY <1>0, <1>2, <2>3, <3>3, <4>1 DEF IndexInv
    <3> QED
      BY <2>1, <3>1, <3>2, <3>3
  <2> QED
    BY <2>2, <2>3
<1> QED
  BY <1>1, <1>2 DEF IndexInv

LEMMA IndexInvNext == Types /\ OverlapInv /\ IndexInv /\ [Next]_vars => IndexInv'
<1> USE DEF redis, history
<1> SUFFICES ASSUME Types, OverlapInv, IndexInv, [Next]_vars PROVE IndexInv'
  OBVIOUS
<1>0. raced \subseteq raced'
  BY RacedGrows DEF vars
<1>1. ASSUME NEW h \in Handlers, UNCHANGED <<store, userIndex>>, ~ByUser(h)',
             \A k \in Handlers \ {h} : handler'[k] = handler[k]
      PROVE  IndexInv'
  BY <1>0, <1>1 DEF IndexInv, ByUser, Pending, pc
<1>2. ASSUME NEW h \in Handlers, NEW s \in Sessions, Callback(h, s) \/ Request(h, s) PROVE IndexInv'
  <2>1. handler'[h].job # "sub" /\ \A k \in Handlers \ {h} : handler'[k] = handler[k]
    BY <1>2, BegunRecord DEF Callback, Request
  <2> QED
    BY <1>1, <1>2, <2>1 DEF Callback, Request, ByUser
<1>3. ASSUME NEW h \in Handlers, NEW o \in Sids, BackchannelLogout(h, o) PROVE IndexInv'
  <2>1. /\ handler'[h].job = "sub" => handler'[h].pc = "members"
        /\ \A k \in Handlers \ {h} : handler'[k] = handler[k]
    BY <1>3, BegunRecord DEF BackchannelLogout
  <2> QED
    BY <1>1, <1>3, <2>1 DEF BackchannelLogout, ByUser, pc
<1>4. ASSUME NEW s \in Sessions, SessionExpires(s) PROVE IndexInv'
  BY <1>4 DEF SessionExpires, IndexInv, ByUser, Pending, pc, Types, TypeOK
<1>5. CASE UNCHANGED <<store, userIndex, handler>>
  BY <1>0, <1>5 DEF IndexInv, ByUser, Pending, pc
<1>6. CASE \/ \E s \in Sessions : InitiateLogin(s)
           \/ \E o \in Sids : TokenExpires(o) \/ ProviderEnds(o)
  BY <1>5, <1>6 DEF InitiateLogin, TokenExpires, ProviderEnds
<1> QED
  BY <1>2, <1>3, <1>4, <1>5, <1>6, IndexInvStep DEF Next, vars

LEMMA IndexInit == Init => OverlapInv /\ IndexInv
BY DEF Init, OverlapInv, Overlap, Writes, Deletes, IndexInv, ByUser, pc, Idle

\* A stored session is in its user's index, unless a save and a deletion of it overlapped or a
\* call about it failed, for any sessions, replicas and requests.
THEOREM UserFindsSessions == Spec => []IndexedByUser
<1>1. IndexInv => IndexedByUser
  BY DEF IndexInv, IndexedByUser
<1> QED
  BY <1>1, TypesInit, IndexInit, TypesNext, OverlapInvNext, IndexInvNext, PTL DEF Spec

-----------------------------------------------------------------------------
(* A refresh token is presented once.                                      *)

Same(c, d) == c.sid = d.sid /\ c.token = d.token

\* Every step is of one of four kinds for what the tokens are about.  Of a quiet one:
\* whoever refreshes goes on as before, or its flight has failed.
Kept(k) == handler'[k].pc \in {"call", "save"} => handler'[k] = handler[k]
FlightOver(k) ==
  Leads(k) /\ handler'[k] # handler[k]
    => handler[k].s \in raced' \/ provider[handler[k].copy.sid].state # "open"

Quiet ==
  /\ \A s \in Sessions : store'[s] \in {store[s], NoSession}
  /\ \A o \in Sids : /\ provider'[o].issued = provider[o].issued
                     /\ provider'[o].state \in {"none", "open"} => provider'[o].state = provider[o].state
  /\ presented' \subseteq presented /\ raced \subseteq raced'
  /\ \A k \in Handlers : Kept(k) /\ FlightOver(k)

\* The provider issues the next tokens of its session o to h.
Issuing(h, o) ==
  /\ UNCHANGED <<store, presented, raced>>
  /\ provider[o].state \in {"none", "open"}
  /\ provider'[o].issued = provider[o].issued + 1 /\ provider'[o].state = "open"
  /\ \A x \in Sids \ {o} : provider'[x] = provider[x]
  /\ \A k \in Handlers \ {h} : handler'[k] = handler[k]
  /\ pc(h) \in {"exchange", "call"} /\ handler'[h].pc = "save" /\ Stays(h, handler'[h])
  /\ handler'[h].copy = IssuedTo(o)
  /\ handler[h].job = "callback" \/ (Leads(h) /\ handler[h].copy.sid = o)

\* h has read the session again, and sets out to use its refresh token.
Reading(h) ==
  /\ UNCHANGED <<store, provider>> /\ raced \subseteq raced'
  /\ pc(h) = "do" /\ handler[h].s \in Sessions /\ store[handler[h].s] # NoSession
  /\ \A k \in Handlers \ {h} : handler'[k] = handler[k]
  /\ handler'[h].pc = "call" /\ Stays(h, handler'[h]) /\ handler'[h].copy = store[handler[h].s]
  /\ presented' \subseteq presented \cup
       {<<handler[h].at, store[handler[h].s].sid, store[handler[h].s].token>>}

Storing(h) ==
  /\ UNCHANGED <<provider, presented>> /\ raced \subseteq raced'
  /\ pc(h) = "save" /\ handler[h].s \in Sessions
  /\ \/ store' = [store EXCEPT ![handler[h].s] = handler[h].copy]
     \/ store' = store /\ handler[h].s \in raced'
  /\ handler'[h].pc \notin {"call", "save"}
  /\ \A k \in Handlers \ {h} : Kept(k) /\ (Leads(k) => handler'[k] = handler[k])

LEMMA BecomesKept ==
  ASSUME Types, NEW h \in Handlers, NEW r, Becomes(h, r), r.pc \notin {"call", "save"}, ~Leads(h)
  PROVE  \A k \in Handlers : Kept(k) /\ FlightOver(k)
BY DEF Becomes, Kept, FlightOver, Types, TypeOK

LEMMA FlightKept ==
  ASSUME Types, NEW h \in Handlers, NEW ok \in BOOLEAN, FlightEnds(h, ok), Leads(h)
  PROVE  /\ \A k \in Handlers : Kept(k) /\ (k # h /\ Leads(k) => handler'[k] = handler[k])
         /\ handler'[h].pc \notin {"call", "save"}
<1>1. \A k \in Handlers : Kept(k)
  BY FlightMoves DEF Kept
<1>2. \A k \in Handlers : k # h /\ Leads(k) => handler'[k] = handler[k]
  BY DEF FlightEnds, Followers, Leads
<1>3. handler'[h].pc \notin {"call", "save"}
  BY FlightMoves
<1> QED
  BY <1>1, <1>2, <1>3

LEMMA IssuesProvider ==
  ASSUME Types, NEW o \in Sids, Issues(o)
  PROVE  /\ provider'[o].issued = provider[o].issued + 1 /\ provider'[o].state = "open"
         /\ \A x \in Sids \ {o} : provider'[x] = provider[x]
<1>1. provider[o] \in [state : {"none", "open", "ended", "notified"},
                      issued : 0..MaxTokens, expired : 0..MaxTokens]
  BY DEF Types, TypeOK
<1>2. DEFINE next == [provider[o] EXCEPT !.issued = provider[o].issued + 1, !.state = "open"]
<1>3. next.issued = provider[o].issued + 1 /\ next.state = "open"
  BY <1>1
<1>4. provider' = [provider EXCEPT ![o] = next]
  BY <1>1 DEF Issues, Types, TypeOK
<1> HIDE DEF next
<1> QED
  BY <1>3, <1>4 DEF Types, TypeOK

LEMMA IssuingStep ==
  ASSUME Types, NEW h \in Handlers, NEW o \in Sids, Issues(o), provider[o].state \in {"none", "open"},
         UNCHANGED <<store, presented, raced>>, pc(h) \in {"exchange", "call"},
         Becomes(h, [handler[h] EXCEPT !.pc = "save", !.copy = IssuedTo(o)]),
         pc(h) = "call" => handler[h].copy.sid = o
  PROVE  Issuing(h, o)
<1>1. handler[h] \in Fields /\ Shaped(handler[h])
  BY BusyHasFields DEF Types, Shape
<1>2. DEFINE r == [handler[h] EXCEPT !.pc = "save", !.copy = IssuedTo(o)]
<1>3. r.pc = "save" /\ r.copy = IssuedTo(o) /\ Stays(h, r)
  BY <1>1 DEF Fields, Stays
<1>4. handler'[h] = r /\ \A k \in Handlers \ {h} : handler'[k] = handler[k]
  BY DEF Becomes, Types, TypeOK
<1>5. handler[h].job = "callback" \/ Leads(h)
  BY <1>1 DEF Shaped, Leads, pc
<1>6. handler[h].job = "callback" \/ handler[h].copy.sid = o
  BY <1>1 DEF Shaped, pc
<1> HIDE DEF r
<1> QED
  BY <1>3, <1>4, <1>5, <1>6, IssuesProvider DEF Issuing

LEMMA StepKinds ==
  ASSUME Types, NEW h \in Handlers, Step(h) \/ Fails(h)
  PROVE  Quiet \/ (\E o \in Sids : Issuing(h, o)) \/ Reading(h) \/ Storing(h)
<1> USE DEF redis, history
<1>0. raced \subseteq raced'
  BY RacedGrows DEF Next
<1>a. pc(h) # "idle" => handler[h] \in Fields
  BY BusyHasFields
<1>b. ASSUME NEW r, Becomes(h, r), r.pc \notin {"call", "save"}, ~Leads(h),
             \A s \in Sessions : store'[s] \in {store[s], NoSession}, UNCHANGED <<provider, presented>>
      PROVE  Quiet
  BY <1>0, <1>b, BecomesKept DEF Quiet
<1>c. Idle.pc = "idle"
  BY DEF Idle
<1>d. ASSUME NEW todo \in SUBSET Sessions, pc(h) \in {"members", "delGet", "del"},
             NEW r \in NextOf(h, todo), Becomes(h, r),
             \A s \in Sessions : store'[s] \in {store[s], NoSession}, UNCHANGED <<provider, presented>>
      PROVE  Quiet
  <2>1. r.pc \notin {"call", "save"} /\ ~Leads(h)
    BY <1>c, <1>d, NextOfMoves DEF Leads
  <2> QED
    BY <1>b, <1>d, <2>1
<1>1. CASE ExchangeCode(h)
  <2>1. PICK o \in Sids : /\ provider[o].state \in {"none", "open"} /\ Issues(o)
                          /\ Becomes(h, [handler[h] EXCEPT !.pc = "save", !.copy = IssuedTo(o)])
    BY <1>1 DEF ExchangeCode
  <2> QED
    BY <1>1, <2>1, IssuingStep DEF ExchangeCode
<1>2. CASE GetSession(h)
  <2>1. pc(h) = "get" /\ handler[h] \in Fields /\ ~Leads(h)
    BY <1>2, <1>a DEF GetSession, Leads
  <2>2. [handler[h] EXCEPT !.pc = "do", !.copy = store[handler[h].s]].pc = "do"
    BY <2>1 DEF Fields
  <2> QED
    BY <1>2, <1>b, <1>c, <2>1, <2>2, PassedMoves DEF GetSession
<1>3. CASE Respond(h) \/ StreamEnds(h) \/ DeleteIndex(h)
  <2>1. ~Leads(h)
    BY <1>3 DEF Respond, StreamEnds, DeleteIndex, Leads
  <2> QED
    BY <1>3, <1>b, <1>c, <2>1 DEF Respond, StreamEnds, DeleteIndex, Ends
<1>13. CASE StreamEvents(h)
  <2>1. handler[h] \in Fields /\ ~Leads(h)
    BY <1>13, <1>a DEF StreamEvents, Leads
  <2>2. [handler[h] EXCEPT !.pc = "stream"].pc = "stream"
    BY <2>1 DEF Fields
  <2> QED
    BY <1>13, <1>b, <2>1, <2>2 DEF StreamEvents, Goes, Becomes
<1>4. CASE Join(h)
  <2>1. handler[h] \in Fields /\ ~Leads(h)
    BY <1>4, <1>a DEF Join, Leads
  <2>2. [handler[h] EXCEPT !.pc = "join"].pc = "join"
    BY <2>1 DEF Fields
  <2> QED
    BY <1>4, <1>b, <2>1, <2>2 DEF Join, Goes, Becomes
<1>5. CASE RefreshReads(h)
  <2>1. pc(h) = "do" /\ handler[h] \in Fields /\ ~Leads(h) /\ handler[h].s \in Sessions
    BY <1>5, <1>a DEF RefreshReads, Leads, Types, Shape, Shaped, AtSession, pc
  <2> DEFINE copy == store[handler[h].s]
             r == [handler[h] EXCEPT !.pc = "call", !.copy = copy]
  <2>2. CASE copy # NoSession /\ ~Fresh(copy)
    <3>1. r.pc = "call" /\ r.copy = copy /\ Stays(h, r)
      BY <2>1 DEF Fields, Stays
    <3>2. handler'[h] = r /\ \A j \in Handlers \ {h} : handler'[j] = handler[j]
      BY <1>5, <2>2 DEF RefreshReads, Becomes, Types, TypeOK
    <3> HIDE DEF r
    <3> QED
      BY <1>0, <1>5, <2>1, <2>2, <3>1, <3>2 DEF RefreshReads, Reading
  <2>3. CASE ~(copy # NoSession /\ ~Fresh(copy))
    BY <1>5, <1>b, <1>c, <2>1, <2>3, PassedMoves DEF RefreshReads
  <2> QED
    BY <2>2, <2>3
<1>6. CASE RefreshToken(h)
  <2>1. pc(h) = "call" /\ handler[h].copy.sid \in Sids /\ Leads(h)
    BY <1>6 DEF RefreshToken, Leads, Types, Shape, Shaped, WithCopy, pc, Session
  <2> DEFINE o == handler[h].copy.sid
  <2>2. CASE provider[o].state = "open"
    BY <1>6, <2>1, <2>2, IssuingStep DEF RefreshToken
  <2>3. CASE provider[o].state # "open"
    <3>1. FlightEnds(h, FALSE) /\ UNCHANGED <<store, provider, presented>>
      BY <1>6, <2>3 DEF RefreshToken
    <3>2. \A k \in Handlers : Kept(k) /\ FlightOver(k)
      BY <2>1, <2>3, <3>1, FlightKept DEF FlightOver
    <3> QED
      BY <1>0, <3>1, <3>2 DEF Quiet
  <2> QED
    BY <2>2, <2>3
<1>7. CASE pc(h) = "save" /\ (Save(h) \/ Fails(h))
  <2>1. handler[h].s \in Sessions /\ (handler[h].job # "callback" <=> Leads(h))
    BY <1>7 DEF Leads, Types, Shape, Shaped, AtSession, pc
  <2>2. UNCHANGED <<provider, presented>>
    BY <1>7 DEF Save, Fails
  <2>3. \/ store' = [store EXCEPT ![handler[h].s] = handler[h].copy]
        \/ store' = store /\ handler[h].s \in raced'
    <3>1. CASE Save(h)
      BY <3>1 DEF Save, Saved
    <3>2. CASE Fails(h)
      <4>1. PICK n \in 0..3 : Saved(h, n)
        BY <1>7, <3>2 DEF Fails
      <4>2. handler[h].s \in raced'
        BY <1>7, <2>1, <3>2 DEF Fails, Types, Shape, Shaped, pc
      <4> QED
        BY <4>1, <4>2 DEF Saved
    <3> QED
      BY <1>7, <3>1, <3>2
  <2>4. Ends(h) \/ (Leads(h) /\ \E ok \in BOOLEAN : FlightEnds(h, ok))
    BY <1>7, <2>1 DEF Save, Fails, Types, Shape, Shaped, pc
  <2>5. CASE Ends(h)
    <3>1. handler'[h] = Idle /\ \A k \in Handlers \ {h} : handler'[k] = handler[k]
      BY <2>5 DEF Ends, Becomes, Types, TypeOK
    <3> QED
      BY <1>0, <1>7, <1>c, <2>1, <2>2, <2>3, <3>1 DEF Storing, Kept
  <2>6. CASE Leads(h) /\ \E ok \in BOOLEAN : FlightEnds(h, ok)
    <3>1. PICK ok \in BOOLEAN : FlightEnds(h, ok)
      BY <2>6
    <3> QED
      BY <1>0, <1>7, <2>1, <2>2, <2>3, <2>6, <3>1, FlightKept DEF Storing
  <2> QED
    BY <2>4, <2>5, <2>6
<1>8. CASE DeleteReads(h)
  <2>1. pc(h) = "delGet" /\ handler[h] \in Fields /\ handler[h].todo \in SUBSET Sessions /\ ~Leads(h)
    BY <1>8, <1>a DEF DeleteReads, Fields, Leads
  <2>2. [handler[h] EXCEPT !.pc = "del", !.copy = store[handler[h].s]].pc = "del"
    BY <2>1 DEF Fields
  <2> QED
    BY <1>8, <1>b, <1>d, <2>1, <2>2 DEF DeleteReads
<1>9. CASE Delete(h)
  <2>1. pc(h) = "del" /\ handler[h].todo \in SUBSET Sessions
    BY <1>9, <1>a DEF Delete, Fields
  <2>2. \A s \in Sessions : store'[s] \in {store[s], NoSession}
    BY <1>9 DEF Delete, Deleted, Types, TypeOK
  <2> QED
    BY <1>9, <1>d, <2>1, <2>2 DEF Delete
<1>10. CASE DeleteByOIDCSessionID(h)
  <2>1. handler[h] \in Fields /\ ~Leads(h)
    BY <1>10, <1>a DEF DeleteByOIDCSessionID, Leads
  <2>2. [handler[h] EXCEPT !.pc = "delGet", !.s = oidcIndex[handler[h].copy.sid]].pc = "delGet"
    BY <2>1 DEF Fields
  <2> QED
    BY <1>10, <1>b, <1>c, <2>1, <2>2 DEF DeleteByOIDCSessionID
<1>11. CASE DeleteByUserID(h)
  BY <1>11, <1>d DEF DeleteByUserID, Types, TypeOK
<1>12. CASE Fails(h) /\ pc(h) # "save"
  <2>0. UNCHANGED <<provider, presented>>
    BY <1>12 DEF Fails
  <2>1. \A s \in Sessions : store'[s] \in {store[s], NoSession}
    BY <1>12 DEF Fails, Deleted, Types, TypeOK
  <2>2. CASE Leads(h)
    <3>1. handler[h].s \in raced' /\ FlightEnds(h, FALSE)
      BY <1>12, <2>2 DEF Fails, Leads, Types, Shape, Shaped, AtSession, pc
    <3>2. \A k \in Handlers : Kept(k) /\ FlightOver(k)
      BY <2>2, <3>1, FlightKept DEF FlightOver
    <3> QED
      BY <1>0, <2>0, <2>1, <3>2 DEF Quiet
  <2>3. CASE ~Leads(h) /\ handler[h].job = "sub" /\ pc(h) \in {"delGet", "del"}
    <3>1. handler[h].todo \in SUBSET Sessions
      BY <1>12, <1>a DEF Fails, Fields
    <3> QED
      BY <1>12, <1>d, <2>0, <2>1, <2>3, <3>1 DEF Fails
  <2>4. CASE ~Leads(h) /\ ~(handler[h].job = "sub" /\ pc(h) \in {"delGet", "del"})
    BY <1>12, <1>b, <1>c, <2>0, <2>1, <2>4 DEF Fails, Ends
  <2> QED
    BY <2>2, <2>3, <2>4
<1> QED
  BY <1>1, <1>2, <1>3, <1>4, <1>5, <1>6, <1>7, <1>8, <1>9, <1>10, <1>11, <1>12, <1>13
     DEF Step, Save

\* The steps of others than handlers, and the beginnings of requests.
LEMMA OutsideQuiet ==
  ASSUME Types,
         \/ \E s \in Sessions : InitiateLogin(s) \/ SessionExpires(s)
         \/ \E h \in Handlers, s \in Sessions : Callback(h, s) \/ Request(h, s)
         \/ \E h \in Handlers, o \in Sids : BackchannelLogout(h, o)
         \/ \E o \in Sids : TokenExpires(o) \/ ProviderEnds(o)
         \/ UNCHANGED vars
  PROVE  Quiet
<1> USE DEF redis, history
<1>0. raced \subseteq raced'
  BY RacedGrows DEF Next, vars
<1>a. ASSUME UNCHANGED handler PROVE \A k \in Handlers : Kept(k) /\ FlightOver(k)
  BY <1>a DEF Kept, FlightOver
<1>b. ASSUME NEW h \in Handlers, NEW job, NEW place, NEW s, NEW copy, Begins(h, job, place, s, copy),
             place \notin {"call", "save"}
      PROVE  \A k \in Handlers : Kept(k) /\ FlightOver(k)
  <2>1. /\ handler[h] = Idle /\ handler'[h].pc = place
        /\ \A k \in Handlers \ {h} : handler'[k] = handler[k]
    BY <1>b, BegunRecord
  <2>2. ~Leads(h)
    BY <2>1 DEF Leads, Idle, pc
  <2> QED
    BY <1>b, <2>1, <2>2 DEF Kept, FlightOver
<1>1. CASE \E s \in Sessions : InitiateLogin(s) \/ SessionExpires(s)
  BY <1>0, <1>1, <1>a DEF InitiateLogin, SessionExpires, Quiet, Types, TypeOK
<1>2. ASSUME NEW h \in Handlers, NEW s \in Sessions, Callback(h, s) \/ Request(h, s) PROVE Quiet
  BY <1>0, <1>2, <1>b DEF Callback, Request, Quiet
<1>3. ASSUME NEW h \in Handlers, NEW o \in Sids, BackchannelLogout(h, o) PROVE Quiet
  <2>1. \A x \in Sids : /\ provider'[x].issued = provider[x].issued
                        /\ provider'[x].state \in {"none", "open"} => provider'[x].state = provider[x].state
    BY <1>3 DEF BackchannelLogout, Types, TypeOK
  <2> QED
    BY <1>0, <1>3, <1>b, <2>1 DEF BackchannelLogout, Quiet
<1>4. ASSUME NEW o \in Sids, TokenExpires(o) \/ ProviderEnds(o) PROVE Quiet
  <2>1. \A x \in Sids : /\ provider'[x].issued = provider[x].issued
                        /\ provider'[x].state \in {"none", "open"} => provider'[x].state = provider[x].state
    <3>1. CASE TokenExpires(o)
      BY <3>1 DEF TokenExpires, Types, TypeOK
    <3>2. CASE ProviderEnds(o)
      BY <3>2 DEF ProviderEnds, Types, TypeOK
    <3> QED
      BY <1>4, <3>1, <3>2
  <2> QED
    BY <1>0, <1>4, <1>a, <2>1 DEF TokenExpires, ProviderEnds, Quiet
<1>5. CASE UNCHANGED vars
  BY <1>0, <1>5, <1>a DEF vars, Quiet
<1> QED
  BY <1>1, <1>2, <1>3, <1>4, <1>5

LEMMA Kinds ==
  Types /\ [Next]_vars
    => Quiet \/ \E h \in Handlers : (\E o \in Sids : Issuing(h, o)) \/ Reading(h) \/ Storing(h)
BY OutsideQuiet, StepKinds DEF Next

\* A number that the provider has issued, and that is in nobody's use yet.
Issued(c) == c.token <= provider[c.sid].issued
IssuedInv ==
  /\ \A o \in Sids : provider[o].state = "none" => provider[o].issued = 0
  /\ \A s \in Sessions : store[s] # NoSession => Issued(store[s])
  /\ \A h \in Handlers : pc(h) = "save" => Issued(handler[h].copy)
  /\ \A p \in Processes, o \in Sids, n \in 1..MaxTokens : <<p, o, n>> \in presented => n <= provider[o].issued

FreshInv ==
  /\ \A h \in Handlers : pc(h) = "save" =>
       /\ \A p \in Processes : <<p, handler[h].copy.sid, handler[h].copy.token>> \notin presented
       /\ \A s \in Sessions : store[s] # NoSession => ~Same(store[s], handler[h].copy)
       /\ \A k \in Handlers \ {h} : pc(k) = "save" => ~Same(handler[k].copy, handler[h].copy)
  /\ \A s, x \in Sessions : s # x /\ store[s] # NoSession /\ store[x] # NoSession => ~Same(store[s], store[x])

\* All who refresh a session do so under the one session of the provider.
SidInv ==
  \A h \in Handlers : Leads(h) =>
    /\ store[handler[h].s] # NoSession => store[handler[h].s].sid = handler[h].copy.sid
    /\ \A k \in Handlers : Leads(k) /\ handler[k].s = handler[h].s => handler[k].copy.sid = handler[h].copy.sid

\* A refresh token that was presented, and is still stored, is in use by a flight.
OnceInv ==
  \A s \in Sessions, p \in Processes :
    /\ store[s] # NoSession /\ <<p, store[s].sid, store[s].token>> \in presented
    /\ provider[store[s].sid].state = "open"
    => s \in raced \/ InFlight(p, s)

LEMMA CopyTypes ==
  ASSUME Types
  PROVE  /\ \A s \in Sessions : store[s] # NoSession => /\ store[s] \in Session /\ store[s].sid \in Sids
                                                        /\ store[s].token \in 1..MaxTokens
         /\ \A h \in Handlers : pc(h) \in {"call", "save"} =>
              /\ handler[h].s \in Sessions /\ handler[h].copy.sid \in Sids
              /\ handler[h].copy.token \in 1..MaxTokens /\ handler[h].at \in Processes
              /\ handler[h].copy \in Session
         /\ \A o \in Sids : provider[o].issued \in Nat
<1>1. \A h \in Handlers : pc(h) \in {"call", "save"} => handler[h] \in Fields /\ Shaped(handler[h])
  BY BusyHasFields DEF Types, Shape
<1>2. \A h \in Handlers : pc(h) \in {"call", "save"} =>
        /\ handler[h].s \in Sessions /\ handler[h].copy \in Session /\ handler[h].at \in Processes
  BY <1>1 DEF Shaped, AtSession, WithCopy, pc, Fields
<1>3. \A s \in Sessions : store[s] # NoSession => store[s] \in Session
  BY DEF Types, TypeOK
<1>4. \A o \in Sids : provider[o].issued \in Nat
  BY DEF Types, TypeOK
<1> QED
  BY <1>2, <1>3, <1>4 DEF Session

LEMMA IssuedInvNext == Types /\ IssuedInv /\ [Next]_vars => IssuedInv'
<1> SUFFICES ASSUME Types, IssuedInv, [Next]_vars, Types' PROVE IssuedInv'
  BY TypesNext
<1>1. CASE Quiet
  <2>1. \A s \in Sessions : store'[s] # NoSession => store'[s] = store[s]
    BY <1>1 DEF Quiet
  <2>2. \A k \in Handlers : handler'[k].pc = "save" => handler'[k] = handler[k]
    BY <1>1 DEF Quiet, Kept
  <2>3. \A o \in Sids : /\ provider'[o].issued = provider[o].issued
                        /\ provider'[o].state = "none" => provider[o].state = "none"
    BY <1>1 DEF Quiet
  <2>4. \A c \in Session : Issued(c)' <=> Issued(c)
    BY <2>3 DEF Issued, Session
  <2>5. \A s \in Sessions : store'[s] # NoSession => Issued(store[s])'
    BY <2>1, <2>4, CopyTypes DEF IssuedInv
  <2>6. \A k \in Handlers : handler'[k].pc = "save" => Issued(handler[k].copy)'
    BY <2>2, <2>4, CopyTypes DEF IssuedInv, pc, Issued
  <2>7. \A p \in Processes, o \in Sids, n \in 1..MaxTokens :
          <<p, o, n>> \in presented' => n <= provider'[o].issued
    BY <1>1, <2>3 DEF IssuedInv, Quiet
  <2> QED
    BY <2>3, <2>5, <2>6, <2>7 DEF IssuedInv, pc
<1>2. ASSUME NEW h \in Handlers, NEW o \in Sids, Issuing(h, o) PROVE IssuedInv'
  <2>1. \A x \in Sids : provider[x].issued \in Nat /\ provider[x].issued <= provider'[x].issued
    BY <1>2, CopyTypes DEF Issuing
  <2>2. \A x \in Sids : provider'[x].state = "none" => provider'[x].issued = 0
    BY <1>2 DEF Issuing, IssuedInv
  <2>3. \A c \in Session : Issued(c) => Issued(c)'
    BY <1>2, <2>1 DEF Issued, Session, Issuing
  <2>4. \A s \in Sessions : store'[s] # NoSession => Issued(store[s])'
    BY <1>2, <2>3, CopyTypes DEF IssuedInv, Issuing
  <2>5. IssuedTo(o).sid = o /\ IssuedTo(o).token = provider[o].issued + 1
    BY DEF IssuedTo
  <2>6. \A k \in Handlers : pc(k)' = "save" => Issued(handler[k].copy)'
    BY <1>2, <2>1, <2>3, <2>5, CopyTypes DEF IssuedInv, Issuing, Issued, pc
  <2>7. \A p \in Processes, x \in Sids, n \in 1..MaxTokens :
          <<p, x, n>> \in presented' => n <= provider'[x].issued
    BY <1>2, <2>1 DEF IssuedInv, Issuing
  <2> QED
    BY <2>2, <2>4, <2>6, <2>7 DEF IssuedInv
<1>3. ASSUME NEW h \in Handlers, Reading(h) PROVE IssuedInv'
  <2>1. PICK c : c = store[handler[h].s]
    OBVIOUS
  <2>2. \A k \in Handlers : handler'[k].pc = "save" => handler'[k] = handler[k]
    BY <1>3 DEF Reading
  <2>3. \A p \in Processes, o \in Sids, n \in 1..MaxTokens :
          <<p, o, n>> \in presented' => n <= provider'[o].issued
    BY <1>3, <2>1 DEF Reading, IssuedInv, Issued
  <2> QED
    BY <1>3, <2>2, <2>3 DEF IssuedInv, Issued, Reading, pc
<1>4. ASSUME NEW h \in Handlers, Storing(h) PROVE IssuedInv'
  <2>1. \A k \in Handlers : handler'[k].pc = "save" => handler'[k] = handler[k]
    BY <1>4 DEF Storing, Kept
  <2>2. \A s \in Sessions : store'[s] # NoSession => Issued(store'[s])
    BY <1>4 DEF Storing, IssuedInv, Types, TypeOK
  <2> QED
    BY <1>4, <2>1, <2>2 DEF IssuedInv, Issued, Storing, pc
<1> QED
  BY <1>1, <1>2, <1>3, <1>4, Kinds

LEMMA FreshInvNext == Types /\ IssuedInv /\ FreshInv /\ [Next]_vars => FreshInv'
<1> SUFFICES ASSUME Types, IssuedInv, FreshInv, [Next]_vars PROVE FreshInv'
  OBVIOUS
<1>1. CASE Quiet
  <2>1. \A s \in Sessions : store'[s] # NoSession => store'[s] = store[s]
    BY <1>1 DEF Quiet
  <2>2. \A k \in Handlers : handler'[k].pc = "save" => handler'[k] = handler[k]
    BY <1>1 DEF Quiet, Kept
  <2> QED
    BY <1>1, <2>1, <2>2 DEF FreshInv, Same, Quiet, pc
<1>2. ASSUME NEW h \in Handlers, NEW o \in Sids, Issuing(h, o) PROVE FreshInv'
  <2>1. PICK c : c = handler'[h].copy
    OBVIOUS
  <2>2. c.sid = o /\ c.token = provider[o].issued + 1 /\ provider[o].issued \in Nat
    BY <1>2, <2>1, CopyTypes DEF Issuing, IssuedTo
  <2>3. \A p \in Processes : <<p, c.sid, c.token>> \notin presented
    BY <2>2 DEF IssuedInv, Types, TypeOK
  <2>4. \A s \in Sessions : store[s] # NoSession => ~Same(store[s], c)
    BY <2>2, CopyTypes DEF IssuedInv, Issued, Same
  <2>5. \A k \in Handlers : pc(k) = "save" => ~Same(handler[k].copy, c)
    BY <2>2, CopyTypes DEF IssuedInv, Issued, Same
  <2>6. \A k \in Handlers \ {h} : handler'[k] = handler[k]
    BY <1>2 DEF Issuing
  <2>7. UNCHANGED <<store, presented>>
    BY <1>2 DEF Issuing
  <2>8. ASSUME NEW k \in Handlers, handler'[k].pc = "save"
        PROVE  /\ \A p \in Processes : <<p, handler'[k].copy.sid, handler'[k].copy.token>> \notin presented'
               /\ \A s \in Sessions : store'[s] # NoSession => ~Same(store'[s], handler'[k].copy)
               /\ \A j \in Handlers \ {k} : handler'[j].pc = "save" => ~Same(handler'[j].copy, handler'[k].copy)
    <3>1. CASE k = h
      BY <2>1, <2>3, <2>4, <2>5, <2>6, <2>7, <3>1 DEF pc
    <3>2. CASE k # h
      <4>1. pc(k) = "save" /\ handler'[k] = handler[k]
        BY <2>6, <2>8, <3>2 DEF pc
      <4>2. ~Same(c, handler[k].copy)
        BY <2>5, <4>1 DEF Same
      <4> QED
        BY <2>1, <2>6, <2>7, <4>1, <4>2 DEF FreshInv, pc
    <3> QED
      BY <3>1, <3>2
  <2> QED
    BY <2>7, <2>8 DEF FreshInv, Same, pc
<1>3. ASSUME NEW h \in Handlers, Reading(h) PROVE FreshInv'
  <2>1. PICK c : c = store[handler[h].s]
    OBVIOUS
  <2>2. \A k \in Handlers : handler'[k].pc = "save" => handler'[k] = handler[k]
    BY <1>3 DEF Reading
  <2>3. \A k \in Handlers : pc(k) = "save" => ~Same(c, handler[k].copy)
    BY <1>3, <2>1 DEF FreshInv, Reading
  <2>4. \A p \in Processes, k \in Handlers :
          pc(k) = "save" => <<p, handler[k].copy.sid, handler[k].copy.token>> \notin presented'
    BY <1>3, <2>1, <2>3 DEF FreshInv, Reading, Same
  <2> QED
    BY <1>3, <2>2, <2>4 DEF FreshInv, Same, Reading, pc
<1>4. ASSUME NEW h \in Handlers, Storing(h) PROVE FreshInv'
  <2>1. \A k \in Handlers : handler'[k].pc = "save" => handler'[k] = handler[k] /\ k # h
    BY <1>4 DEF Storing, Kept
  <2>2. \A s \in Sessions : store'[s] = store[s] \/ (s = handler[h].s /\ store'[s] = handler[h].copy)
    BY <1>4 DEF Storing, Types, TypeOK
  <2>3. \A k \in Handlers \ {h} : pc(k) = "save" => ~Same(handler[h].copy, handler[k].copy)
    BY <1>4 DEF FreshInv, Storing
  <2>4. \A s \in Sessions : store[s] # NoSession => ~Same(store[s], handler[h].copy)
    BY <1>4 DEF FreshInv, Storing
  <2>5. \A s, x \in Sessions : s # x /\ store'[s] # NoSession /\ store'[x] # NoSession => ~Same(store'[s], store'[x])
    BY <2>2, <2>4 DEF FreshInv, Same
  <2>6. ASSUME NEW k \in Handlers, handler'[k].pc = "save"
        PROVE  /\ \A p \in Processes : <<p, handler'[k].copy.sid, handler'[k].copy.token>> \notin presented'
               /\ \A s \in Sessions : store'[s] # NoSession => ~Same(store'[s], handler'[k].copy)
               /\ \A j \in Handlers \ {k} : handler'[j].pc = "save" => ~Same(handler'[j].copy, handler'[k].copy)
    <3>1. pc(k) = "save" /\ handler'[k] = handler[k] /\ k # h
      BY <2>1, <2>6 DEF pc
    <3> QED
      BY <1>4, <2>1, <2>2, <2>3, <3>1 DEF FreshInv, Storing, pc
  <2> QED
    BY <2>5, <2>6 DEF FreshInv, Same, pc
<1> QED
  BY <1>1, <1>2, <1>3, <1>4, Kinds

LEMMA SidInvNext == Types /\ LoginInv /\ SidInv /\ [Next]_vars => SidInv'
<1> SUFFICES ASSUME Types, LoginInv, SidInv, [Next]_vars PROVE SidInv'
  OBVIOUS
<1>1. CASE Quiet
  <2>1. \A s \in Sessions : store'[s] # NoSession => store'[s] = store[s]
    BY <1>1 DEF Quiet
  <2>2. \A k \in Handlers : Leads(k)' => handler'[k] = handler[k] /\ Leads(k)
    BY <1>1 DEF Quiet, Kept, Leads, pc
  <2> QED
    BY <2>1, <2>2, CopyTypes DEF SidInv, Leads
<1>2. ASSUME NEW h \in Handlers, NEW o \in Sids, Issuing(h, o) PROVE SidInv'
  <2>1. \A k \in Handlers : Leads(k)' => Leads(k) /\ handler'[k].s = handler[k].s
                                        /\ handler'[k].copy.sid = handler[k].copy.sid
    BY <1>2 DEF Issuing, IssuedTo, Leads, Stays, pc
  <2> QED
    BY <1>2, <2>1 DEF SidInv, Issuing
<1>3. ASSUME NEW h \in Handlers, Reading(h) PROVE SidInv'
  <2>1. PICK s : s = handler[h].s
    OBVIOUS
  <2>2. handler'[h].s = s /\ handler'[h].copy = store[s] /\ s \in Sessions /\ store[s] # NoSession
        /\ \A k \in Handlers \ {h} : handler'[k] = handler[k]
    BY <1>3, <2>1 DEF Reading, Stays
  <2>3. \A k \in Handlers \ {h} : Leads(k)' => Leads(k)
    BY <2>2 DEF Leads, pc
  <2> QED
    BY <1>3, <2>2, <2>3 DEF SidInv, Reading
<1>4. ASSUME NEW h \in Handlers, Storing(h) PROVE SidInv'
  <2>1. \A k \in Handlers : Leads(k)' => handler'[k] = handler[k] /\ Leads(k) /\ k # h
    BY <1>4 DEF Storing, Kept, Leads, pc
  <2>2. \A s \in Sessions : store'[s] = store[s] \/ (s = handler[h].s /\ store'[s] = handler[h].copy)
    BY <1>4 DEF Storing, Types, TypeOK
  <2>3. ASSUME NEW k \in Handlers, k # h, Leads(k), handler[k].s = handler[h].s
        PROVE  handler[k].copy.sid = handler[h].copy.sid
    <3>1. handler[h].job # "callback"
      BY <2>3 DEF LoginInv
    <3>2. Leads(h)
      BY <1>4, <3>1 DEF Storing, Leads, Types, Shape, Shaped, pc
    <3> QED
      BY <2>3, <3>2 DEF SidInv
  <2>4. \A k \in Handlers : Leads(k) => handler[k].s \in Sessions
    BY CopyTypes DEF Leads
  <2> QED
    BY <2>1, <2>2, <2>3, <2>4 DEF SidInv
<1> QED
  BY <1>1, <1>2, <1>3, <1>4, Kinds

LEMMA OnceInvNext == Types /\ IssuedInv /\ FreshInv /\ SidInv /\ OnceInv /\ [Next]_vars => OnceInv'
<1> SUFFICES ASSUME Types, IssuedInv, FreshInv, SidInv, OnceInv, [Next]_vars,
                    NEW s \in Sessions, NEW p \in Processes, NEW c, c = store'[s],
                    c # NoSession, <<p, c.sid, c.token>> \in presented', provider'[c.sid].state = "open"
             PROVE  s \in raced' \/ \E h \in Handlers : handler'[h].at = p /\ handler'[h].s = s /\ Leads(h)'
  BY DEF OnceInv, InFlight
<1>1. CASE Quiet
  <2>1. c = store[s] /\ c.sid \in Sids /\ <<p, c.sid, c.token>> \in presented /\ raced \subseteq raced'
    BY <1>1, CopyTypes DEF Quiet
  <2>2. provider[c.sid].state = "open"
    <3>1. PICK o \in Sids : o = c.sid
      BY <2>1
    <3>2. provider'[o].state = provider[o].state
      BY <1>1, <3>1 DEF Quiet
    <3> QED
      BY <3>1, <3>2
  <2>3. CASE s \in raced
    BY <2>1, <2>3
  <2>4. CASE s \notin raced
    <3>1. PICK h \in Handlers : handler[h].at = p /\ handler[h].s = s /\ Leads(h)
      BY <2>1, <2>2, <2>4 DEF OnceInv, InFlight
    <3>2. handler[h].copy.sid = c.sid
      BY <2>1, <3>1 DEF SidInv
    <3>3. s \in raced' \/ handler'[h] = handler[h]
      BY <1>1, <2>2, <3>1, <3>2 DEF Quiet, FlightOver
    <3> QED
      BY <3>1, <3>3 DEF Leads, pc
  <2> QED
    BY <2>3, <2>4
<1>2. ASSUME NEW h \in Handlers, NEW o \in Sids, Issuing(h, o)
      PROVE  s \in raced' \/ \E k \in Handlers : handler'[k].at = p /\ handler'[k].s = s /\ Leads(k)'
  <2>1. c = store[s] /\ c.sid \in Sids /\ c.token \in 1..MaxTokens /\ <<p, c.sid, c.token>> \in presented
        /\ raced' = raced
    BY <1>2, CopyTypes DEF Issuing
  <2>2. provider[c.sid].state = "open"
    <3>1. c.sid # o => provider'[c.sid] = provider[c.sid]
      BY <1>2, <2>1 DEF Issuing
    <3>2. provider[c.sid].state # "none"
      BY <2>1 DEF IssuedInv
    <3> QED
      BY <1>2, <3>1, <3>2 DEF Issuing
  <2>3. s \in raced \/ \E k \in Handlers : handler[k].at = p /\ handler[k].s = s /\ Leads(k)
    BY <2>1, <2>2 DEF OnceInv, InFlight
  <2>4. \A k \in Handlers : Leads(k) => Leads(k)' /\ handler'[k].at = handler[k].at /\ handler'[k].s = handler[k].s
    BY <1>2 DEF Issuing, Leads, Stays, pc
  <2> QED
    BY <2>1, <2>3, <2>4
<1>3. ASSUME NEW h \in Handlers, Reading(h)
      PROVE  s \in raced' \/ \E k \in Handlers : handler'[k].at = p /\ handler'[k].s = s /\ Leads(k)'
  <2>1. c = store[s] /\ provider[c.sid].state = "open" /\ raced \subseteq raced'
    BY <1>3 DEF Reading
  <2>2. \A k \in Handlers : Leads(k) => handler'[k] = handler[k]
    BY <1>3 DEF Reading, Leads
  <2>3. CASE <<p, c.sid, c.token>> \in presented
    BY <2>1, <2>2, <2>3 DEF OnceInv, InFlight, Leads, pc
  <2>4. CASE <<p, c.sid, c.token>> \notin presented
    <3>1. PICK d : d = store[handler[h].s]
      OBVIOUS
    <3>2. p = handler[h].at /\ c.sid = d.sid /\ c.token = d.token
      BY <1>3, <2>4, <3>1 DEF Reading
    <3>3. s = handler[h].s
      BY <1>3, <2>1, <3>1, <3>2 DEF FreshInv, Same, Reading
    <3>4. handler[h].job \in {"request", "logout"}
      BY <1>3 DEF Reading, Types, Shape, Shaped, pc
    <3>5. handler'[h].at = p /\ handler'[h].s = s /\ Leads(h)'
      BY <1>3, <3>2, <3>3, <3>4 DEF Reading, Stays, Leads, pc
    <3> QED
      BY <3>5
  <2> QED
    BY <2>3, <2>4
<1>4. ASSUME NEW h \in Handlers, Storing(h)
      PROVE  s \in raced' \/ \E k \in Handlers : handler'[k].at = p /\ handler'[k].s = s /\ Leads(k)'
  <2>1. c # handler[h].copy
    BY <1>4 DEF Storing, FreshInv
  <2>2. c = store[s] /\ (s # handler[h].s \/ s \in raced')
    BY <1>4, <2>1 DEF Storing, Types, TypeOK
  <2>3. s \in raced \/ \E k \in Handlers : handler[k].at = p /\ handler[k].s = s /\ Leads(k)
    BY <1>4, <2>2 DEF OnceInv, InFlight, Storing
  <2>4. \A k \in Handlers \ {h} : Leads(k) => Leads(k)' /\ handler'[k] = handler[k]
    BY <1>4 DEF Storing, Leads, pc
  <2> QED
    BY <1>4, <2>2, <2>3, <2>4 DEF Storing
<1> QED
  BY <1>1, <1>2, <1>3, <1>4, Kinds

LEMMA TokensInit == Init => IssuedInv /\ FreshInv /\ SidInv /\ OnceInv
BY DEF Init, IssuedInv, FreshInv, SidInv, OnceInv, Leads, pc, Idle

\* A process presents a refresh token of a live session once, unless a call about the session
\* failed or it was being deleted, for any sessions, replicas and requests.
THEOREM TokensAreUsedOnce == Spec => TokenUsedOnce
<1> DEFINE Once ==
      \A h \in Handlers :
        LET copy == handler'[h].copy IN
        pc(h) = "do" /\ handler'[h].pc = "call" /\ provider[copy.sid].state = "open"
          => \/ <<handler[h].at, copy.sid, copy.token>> \notin presented
             \/ handler[h].s \in raced
<1>1. Types /\ OnceInv /\ [Next]_vars => Once
  <2> SUFFICES ASSUME Types, OnceInv, [Next]_vars, NEW h \in Handlers, NEW c, c = handler'[h].copy,
                      pc(h) = "do", handler'[h].pc = "call", provider[c.sid].state = "open",
                      <<handler[h].at, c.sid, c.token>> \in presented
               PROVE  handler[h].s \in raced
    OBVIOUS
  <2>1. handler[h].s \in Sessions /\ handler[h].at \in Processes
    BY BusyHasFields DEF Types, Shape, Shaped, AtSession, Fields, pc
  <2>2. RefreshReads(h) /\ store[handler[h].s] = c /\ c # NoSession
    <3>1. PICK k \in Handlers : Step(k) \/ Fails(k)
      <4>1. handler'[h] # handler[h]
        BY DEF pc
      <4>2. ~ \E k \in Handlers, s \in Sessions : Callback(k, s) \/ Request(k, s)
        BY <4>1, BegunRecord DEF Callback, Request
      <4>3. ~ \E k \in Handlers, o \in Sids : BackchannelLogout(k, o)
        <5> SUFFICES ASSUME NEW k \in Handlers, NEW o \in Sids, BackchannelLogout(k, o) PROVE FALSE
          OBVIOUS
        <5>1. /\ handler'[k].pc \in {"sidGet", "members"}
              /\ \A j \in Handlers \ {k} : handler'[j] = handler[j]
          BY BegunRecord DEF BackchannelLogout
        <5> QED
          BY <4>1, <5>1
      <4> QED
        BY <4>1, <4>2, <4>3 DEF Next, vars, InitiateLogin, SessionExpires, TokenExpires, ProviderEnds
    <3>2. handler'[h].s \in Sessions
      BY TypesNext DEF Types, Shape, Shaped, AtSession
    <3>3. PICK s \in Sessions : s = handler'[h].s
      BY <3>2
    <3>4. RefreshReads(h)
      BY <3>1, <3>3, Writers DEF Writes, pc
    <3>5. handler[h] \in Fields
      BY BusyHasFields
    <3> DEFINE d == store[handler[h].s]
               r == [handler[h] EXCEPT !.pc = "call", !.copy = d]
    <3>6. Passed(h, d).pc # "call" /\ Idle.pc # "call"
      BY PassedMoves DEF Idle
    <3>7. d # NoSession /\ Becomes(h, r)
      BY <3>4, <3>6 DEF RefreshReads, Becomes, Types, TypeOK
    <3>8. r.copy = d
      BY <3>5 DEF Fields
    <3>9. handler'[h] = r
      BY <3>7 DEF Becomes, Types, TypeOK
    <3> HIDE DEF r
    <3> QED
      BY <3>4, <3>7, <3>8, <3>9
  <2>3. ~InFlight(handler[h].at, handler[h].s)
    BY <2>2 DEF RefreshReads
  <2> QED
    BY <2>1, <2>2, <2>3 DEF OnceInv
<1>2. Once => [Once]_vars
  OBVIOUS
<1> QED
  BY <1>1, TypesInit, LoginGoneInit, TokensInit, TypesNext, LoginInvNext, IssuedInvNext, FreshInvNext, SidInvNext,
     OnceInvNext, PTL DEF Spec, TokenUsedOnce
=============================================================================
