------------------------------ MODULE BffSession ------------------------------
(***************************************************************************)
(* The browser sessions of the BFF: login, refresh, logout and             *)
(* back-channel logout (internal/bff/application/service/                  *)
(* session_service.go) over the Redis session store with its two indexes   *)
(* (internal/bff/adapters/outbound/redis_session_store.go), behind the     *)
(* session middleware (internal/bff/adapters/inbound/http), with several   *)
(* replicas and an identity provider.                                      *)
(*                                                                         *)
(* One user.  A handler is cut at every Redis command or pipeline, and at  *)
(* every call of the provider.  Redis executes the commands of a pipeline  *)
(* that arrive together without those of others in between.                *)
(***************************************************************************)
EXTENDS Naturals, FiniteSets

CONSTANTS Sessions,   \* ids of sessions, each given to one login
          Sids,       \* the user's sessions at the provider
          Handlers,   \* requests that may be handled at once
          Processes,  \* the replicas of the BFF
          MaxTokens,  \* bound: access tokens of one session at the provider
          MaxEvents,  \* bound: logouts of the user, and failures
          None

ASSUME ConstantsAssumption ==
  /\ MaxTokens \in Nat /\ MaxEvents \in Nat
  /\ None \notin Sessions /\ None \notin Processes

VARIABLES store,      \* the keys session:<id>
          userIndex,  \* the set user-sessions:<user>
          oidcIndex,  \* the keys oidc-session:<issuer>:<sid>
          login,      \* how far each login is, with its key pending-state:<state>
          handler,    \* the handlers' local variables
          provider,   \* the sessions at the identity provider
          events,     \* logouts of the user, and failures, so far
          gone,       \* history: how each session was deleted
          raced,      \* history: a call failed, or a save and a delete overlapped
          presented   \* history: refresh tokens each process has set out to use, of open sessions

redis == <<store, userIndex, oidcIndex>>
history == <<gone, raced, presented>>
vars == <<redis, login, handler, provider, events, history>>

NoSession == [sid |-> None]
\* token numbers the access token of the provider's session, and its refresh token.
Session == [sid : Sids, token : 1..MaxTokens]

Idle == [pc |-> "idle", job |-> "none", at |-> None, s |-> None, copy |-> NoSession, todo |-> {}]
Handler == {Idle} \cup
  [pc : {"exchange", "get", "do", "join", "call", "served", "stream", "save",
         "delGet", "del", "sidGet", "members", "delIndex"},
   job : {"callback", "request", "logout", "sid", "sub"},
   at : Processes, s : Sessions \cup {None}, copy : Session \cup [sid : Sids \cup {None}], todo : SUBSET Sessions]

TypeOK ==
  /\ store \in [Sessions -> Session \cup {NoSession}]
  /\ userIndex \subseteq Sessions
  /\ oidcIndex \in [Sids -> Sessions \cup {None}]
  /\ login \in [Sessions -> {"none", "started", "returned", "done"}]
  /\ handler \in [Handlers -> Handler]
  /\ provider \in [Sids -> [state : {"none", "open", "ended", "notified"},
                            issued : 0..MaxTokens, expired : 0..MaxTokens]]
  /\ events \in 0..MaxEvents
  /\ gone \in [Sessions -> {"no", "deleted", "revivable"}]
  /\ raced \subseteq Sessions
  /\ presented \subseteq Processes \X Sids \X (1..MaxTokens)

Init ==
  /\ store = [s \in Sessions |-> NoSession]
  /\ userIndex = {}
  /\ oidcIndex = [o \in Sids |-> None]
  /\ login = [s \in Sessions |-> "none"]
  /\ handler = [h \in Handlers |-> Idle]
  /\ provider = [o \in Sids |-> [state |-> "none", issued |-> 0, expired |-> 0]]
  /\ events = 0
  /\ gone = [s \in Sessions |-> "no"]
  /\ raced = {}
  /\ presented = {}

-----------------------------------------------------------------------------
Event == events < MaxEvents /\ events' = events + 1

pc(h) == handler[h].pc
\* A call reaches any of the replicas.
Begins(h, job, place, s, copy) ==
  /\ handler[h] = Idle
  /\ \E p \in Processes :
       handler' = [handler EXCEPT ![h] = [pc |-> place, job |-> job, at |-> p, s |-> s,
                                          copy |-> copy, todo |-> {}]]
Becomes(h, r) == handler' = [handler EXCEPT ![h] = r]
Goes(h, place) == handler' = [handler EXCEPT ![h].pc = place]
Ends(h) == Becomes(h, Idle)

\* IsExpired compares the clock with the time that the token's life ends.
Fresh(copy) == copy.token > provider[copy.sid].expired

\* Who refreshes or creates a session, and who deletes it.
Writes(h, s) == handler[h].s = s /\ pc(h) \in {"exchange", "call", "save"}
Deletes(h, s) == \/ handler[h].s = s /\ pc(h) = "del"
                 \/ handler[h].job = "sub"
Overlap(s) == (\E h \in Handlers : Writes(h, s)) /\ \E h \in Handlers : Deletes(h, s)
Overlaps == raced' = raced \cup {s \in Sessions : Overlap(s)'}

-----------------------------------------------------------------------------
(* Login                                                                   *)

\* The redirect is saved for the callback; if that fails, the login goes on.
InitiateLogin(s) ==
  /\ login[s] = "none"
  /\ login' = [login EXCEPT ![s] = "started"]
  /\ UNCHANGED <<redis, handler, provider, events, history>>

\* The callback of a login comes once: its state cookie and its code are used up.
Callback(h, s) ==
  /\ login[s] = "started"
  /\ login' = [login EXCEPT ![s] = "returned"]
  /\ Begins(h, "callback", "exchange", s, NoSession)
  /\ Overlaps
  /\ UNCHANGED <<redis, provider, events, gone, presented>>

Issues(o) ==
  /\ provider[o].issued < MaxTokens
  /\ provider' = [provider EXCEPT ![o].issued = @ + 1, ![o].state = "open"]
\* Mutant of IssuedTo: the number after the next one.
IssuedAfter(o) == [sid |-> o, token |-> provider[o].issued + 2]
IssuedTo(o) == [sid |-> o, token |-> provider[o].issued + 1]

\* ExchangeCode and FetchUserInfo.  The browser is logged in at the provider, or
\* logs in there now.
ExchangeCode(h) ==
  /\ pc(h) = "exchange"
  /\ \E o \in Sids :
       /\ provider[o].state \in {"none", "open"}
       /\ Issues(o)
       /\ Becomes(h, [handler[h] EXCEPT !.pc = "save", !.copy = IssuedTo(o)])
  /\ UNCHANGED <<redis, login, events, history>>

-----------------------------------------------------------------------------
(* Requests behind the session middleware: what they do with the session   *)

\* Any browser that has a session's cookie sends requests, or logs out.
Request(h, s) ==
  /\ login[s] = "done"
  /\ \/ Begins(h, "request", "get", s, NoSession) /\ UNCHANGED events
     \/ Begins(h, "logout", "get", s, NoSession) /\ Event
  /\ UNCHANGED <<redis, login, provider, history>>

\* Where a handler goes on when the middleware has let it pass.
Passed(k, copy) ==
  IF handler[k].job = "logout" THEN [handler[k] EXCEPT !.pc = "delGet", !.copy = NoSession]
  ELSE [handler[k] EXCEPT !.pc = "served", !.copy = copy]

GetSession(h) ==
  /\ pc(h) = "get"
  /\ LET copy == store[handler[h].s] IN
     Becomes(h, IF copy = NoSession THEN Idle
                ELSE IF Fresh(copy) THEN Passed(h, copy)
                ELSE [handler[h] EXCEPT !.pc = "do", !.copy = copy])
  /\ UNCHANGED <<redis, login, provider, events, history>>

\* The response of a request is out.
Respond(h) ==
  /\ pc(h) = "served"
  /\ Ends(h)
  /\ UNCHANGED <<redis, login, provider, events, history>>

\* The request is for the event stream; or it has a body, which its client does not
\* finish.
StreamEvents(h) ==
  /\ pc(h) = "served"
  /\ Goes(h, "stream")
  /\ UNCHANGED <<redis, login, provider, events, history>>

\* The client leaves, or the source of the stream ends: the loop of StreamEvents has no
\* other end, and does not look at the session again.
StreamEnds(h) ==
  /\ pc(h) = "stream"
  /\ Ends(h)
  /\ UNCHANGED <<redis, login, provider, events, history>>

-----------------------------------------------------------------------------
(* RefreshSession                                                          *)

Leads(h) == pc(h) \in {"call", "save"} /\ handler[h].job \in {"request", "logout"}
\* Mutant of InFlight: calls are not merged.
NeverInFlight(p, s) == FALSE
InFlight(p, s) == \E h \in Handlers : handler[h].at = p /\ handler[h].s = s /\ Leads(h)
Followers(h) ==
  {k \in Handlers : handler[k].at = handler[h].at /\ handler[k].s = handler[h].s /\ pc(k) = "join"}

\* The call that leads ends, and so do those that it was merged with.
FlightEnds(h, ok) ==
  handler' = [k \in Handlers |->
                IF k = h \/ k \in Followers(h)
                THEN IF ok THEN Passed(k, handler[h].copy) ELSE Idle
                ELSE handler[k]]

Join(h) ==
  /\ pc(h) = "do"
  /\ InFlight(handler[h].at, handler[h].s)
  /\ Goes(h, "join")
  /\ UNCHANGED <<redis, login, provider, events, history>>

\* Mutant of RefreshReads: the session is the one that the middleware has read.
RefreshTrusts(h) ==
  /\ pc(h) = "do"
  /\ ~InFlight(handler[h].at, handler[h].s)
  /\ Goes(h, "call")
  /\ Overlaps
  /\ UNCHANGED <<redis, login, provider, events, gone, presented>>

\* The session is read again: another call may have refreshed it.
RefreshReads(h) ==
  /\ pc(h) = "do"
  /\ ~InFlight(handler[h].at, handler[h].s)
  /\ LET copy == store[handler[h].s] IN
     IF copy # NoSession /\ ~Fresh(copy)
     THEN /\ Becomes(h, [handler[h] EXCEPT !.pc = "call", !.copy = copy])
          /\ presented' = IF provider[copy.sid].state = "open"
                          THEN presented \cup {<<handler[h].at, copy.sid, copy.token>>}
                          ELSE presented
     ELSE /\ Becomes(h, IF copy = NoSession THEN Idle ELSE Passed(h, copy))
          /\ UNCHANGED presented
  /\ Overlaps
  /\ UNCHANGED <<redis, login, provider, events, gone>>

\* Mutant of RefreshToken: a session that cannot be refreshed is served as it is.
RefreshTolerates(h) ==
  /\ pc(h) = "call"
  /\ LET copy == handler[h].copy IN
     IF provider[copy.sid].state = "open"
     THEN /\ Issues(copy.sid)
          /\ Becomes(h, [handler[h] EXCEPT !.pc = "save", !.copy = IssuedTo(copy.sid)])
     ELSE FlightEnds(h, TRUE) /\ UNCHANGED provider
  /\ UNCHANGED <<redis, login, events, history>>

\* The provider refuses the refresh token of a session that has ended.
RefreshToken(h) ==
  /\ pc(h) = "call"
  /\ LET copy == handler[h].copy IN
     IF provider[copy.sid].state = "open"
     THEN /\ Issues(copy.sid)
          /\ Becomes(h, [handler[h] EXCEPT !.pc = "save", !.copy = IssuedTo(copy.sid)])
     ELSE FlightEnds(h, FALSE) /\ UNCHANGED provider
  /\ UNCHANGED <<redis, login, events, history>>

-----------------------------------------------------------------------------
(* Save and Delete: each sends its commands in one pipeline.  Of a         *)
(* pipeline that fails, the first n commands have been executed.           *)

Saved(h, n) ==
  LET s == handler[h].s copy == handler[h].copy IN
  /\ store' = IF n >= 1 THEN [store EXCEPT ![s] = copy] ELSE store
  /\ userIndex' = IF n >= 2 THEN userIndex \cup {s} ELSE userIndex
  /\ oidcIndex' = IF n >= 3 THEN [oidcIndex EXCEPT ![copy.sid] = s] ELSE oidcIndex
  /\ UNCHANGED gone

\* Mutant of Deleted: the whole index of the user goes.
DeletedAll(h, n) ==
  LET s == handler[h].s IN
  /\ store' = IF n >= 1 THEN [store EXCEPT ![s] = NoSession] ELSE store
  /\ userIndex' = IF n >= 2 THEN {} ELSE userIndex
  /\ oidcIndex' = IF n >= 3 THEN [oidcIndex EXCEPT ![handler[h].copy.sid] = None] ELSE oidcIndex
  /\ gone' = IF n >= 1 THEN [gone EXCEPT ![s] = "deleted"] ELSE gone

\* A deleted session may come back if a refresh has read it before.
Deleted(h, n) ==
  LET s == handler[h].s
      revivable == \E k \in Handlers : Leads(k) /\ handler[k].s = s
  IN
  /\ store' = IF n >= 1 THEN [store EXCEPT ![s] = NoSession] ELSE store
  /\ userIndex' = IF n >= 2 THEN userIndex \ {s} ELSE userIndex
  /\ oidcIndex' = IF n >= 3 THEN [oidcIndex EXCEPT ![handler[h].copy.sid] = None] ELSE oidcIndex
  /\ gone' = IF n >= 1 THEN [gone EXCEPT ![s] = IF revivable THEN "revivable" ELSE "deleted"]
             ELSE gone

\* The callback goes on to fetch the redirect, and answers with the cookie.
Save(h) ==
  /\ pc(h) = "save"
  /\ Saved(h, 3)
  /\ IF handler[h].job = "callback"
     THEN login' = [login EXCEPT ![handler[h].s] = "done"] /\ Ends(h)
     ELSE FlightEnds(h, TRUE) /\ UNCHANGED login
  /\ UNCHANGED <<provider, events, raced, presented>>

\* Where DeleteByUserID goes on, with the next of the sessions it has read.
NextOf(h, todo) ==
  IF handler[h].job # "sub" THEN {Idle}
  ELSE IF todo = {} THEN {[handler[h] EXCEPT !.pc = "delIndex", !.s = None, !.copy = NoSession]}
  ELSE {[handler[h] EXCEPT !.pc = "delGet", !.s = s, !.copy = NoSession,
                               !.todo = todo \ {s}] : s \in todo}

DeleteReads(h) ==
  /\ pc(h) = "delGet"
  /\ LET copy == store[handler[h].s] IN
     IF copy = NoSession
     THEN \E r \in NextOf(h, handler[h].todo) : Becomes(h, r)
     ELSE Becomes(h, [handler[h] EXCEPT !.pc = "del", !.copy = copy])
  /\ Overlaps
  /\ UNCHANGED <<redis, login, provider, events, gone, presented>>

Delete(h) ==
  /\ pc(h) = "del"
  /\ Deleted(h, 3)
  /\ \E r \in NextOf(h, handler[h].todo) : Becomes(h, r)
  /\ UNCHANGED <<login, provider, events, raced, presented>>

-----------------------------------------------------------------------------
(* Back-channel logout                                                     *)

\* The provider tells the BFF once that a session has ended: by sid, or by user.
BackchannelLogout(h, o) ==
  /\ provider[o].state = "ended"
  /\ provider' = [provider EXCEPT ![o].state = "notified"]
  /\ \/ Begins(h, "sid", "sidGet", None, [sid |-> o])
     \/ Begins(h, "sub", "members", None, NoSession)
  /\ Overlaps
  /\ UNCHANGED <<redis, login, events, gone, presented>>

DeleteByOIDCSessionID(h) ==
  /\ pc(h) = "sidGet"
  /\ LET s == oidcIndex[handler[h].copy.sid] IN
     Becomes(h, IF s = None THEN Idle ELSE [handler[h] EXCEPT !.pc = "delGet", !.s = s])
  /\ UNCHANGED <<redis, login, provider, events, history>>

DeleteByUserID(h) ==
  /\ pc(h) = "members"
  /\ \E r \in NextOf(h, userIndex) : Becomes(h, r)
  /\ UNCHANGED <<redis, login, provider, events, history>>

DeleteIndex(h) ==
  /\ pc(h) = "delIndex"
  /\ userIndex' = {}
  /\ Ends(h)
  /\ UNCHANGED <<store, oidcIndex, login, provider, events, history>>

-----------------------------------------------------------------------------
(* Failures, time and the provider                                         *)

\* A call fails.  It fails the calls that were merged with it; DeleteByUserID goes
\* on with the next session.
Fails(h) ==
  /\ pc(h) \notin {"idle", "join", "served", "stream"}
  /\ Event
  /\ IF Leads(h) THEN FlightEnds(h, FALSE)
     ELSE IF handler[h].job = "sub" /\ pc(h) \in {"delGet", "del"}
     THEN \E r \in NextOf(h, handler[h].todo) : Becomes(h, r)
     ELSE Ends(h)
  /\ raced' = raced \cup IF handler[h].job = "sub" THEN Sessions ELSE {handler[h].s} \cap Sessions
  /\ CASE pc(h) = "save" -> \E n \in 0..3 : Saved(h, n)
       [] pc(h) = "del" -> \E n \in 0..3 : Deleted(h, n)
       [] OTHER -> UNCHANGED <<redis, gone>>
  /\ UNCHANGED <<login, provider, presented>>

TokenExpires(o) ==
  /\ provider[o].expired < provider[o].issued
  /\ provider' = [provider EXCEPT ![o].expired = @ + 1]
  /\ UNCHANGED <<redis, login, handler, events, history>>

\* The user logs out at the provider, or the provider ends the session.
ProviderEnds(o) ==
  /\ provider[o].state = "open"
  /\ provider' = [provider EXCEPT ![o].state = "ended"]
  /\ presented' = {t \in presented : t[2] # o}
  /\ UNCHANGED <<redis, login, handler, events, gone, raced>>

\* The keys of a session live for hours after the last save: long after its requests.
SessionExpires(s) ==
  /\ store[s] # NoSession
  /\ \A h \in Handlers : handler[h].s # s
  /\ ~Fresh(store[s])
  /\ store' = [store EXCEPT ![s] = NoSession]
  /\ oidcIndex' = [o \in Sids |-> IF oidcIndex[o] = s THEN None ELSE oidcIndex[o]]
  /\ UNCHANGED <<userIndex, login, handler, provider, events, history>>

-----------------------------------------------------------------------------
Step(h) ==
  \/ ExchangeCode(h)
  \/ GetSession(h) \/ Respond(h) \/ StreamEvents(h) \/ StreamEnds(h)
  \/ Join(h) \/ RefreshReads(h) \/ RefreshToken(h)
  \/ Save(h) \/ DeleteReads(h) \/ Delete(h)
  \/ DeleteByOIDCSessionID(h) \/ DeleteByUserID(h) \/ DeleteIndex(h)

Next ==
  \/ \E s \in Sessions : InitiateLogin(s) \/ SessionExpires(s)
  \/ \E h \in Handlers, s \in Sessions : Callback(h, s) \/ Request(h, s)
  \/ \E h \in Handlers, o \in Sids : BackchannelLogout(h, o)
  \/ \E h \in Handlers : Step(h) \/ Fails(h)
  \/ \E o \in Sids : TokenExpires(o) \/ ProviderEnds(o)

\* Handlers go on, as every call of Redis, the provider and the keeper has a timeout,
\* and access tokens expire.  The server itself has no timeouts (cmd/bff/main.go), so
\* that a stream need not end.
Fairness ==
  /\ \A h \in Handlers : WF_vars(Step(h) /\ pc(h) # "stream")
  /\ \A o \in Sids : WF_vars(TokenExpires(o))

Spec == Init /\ [][Next]_vars /\ Fairness

-----------------------------------------------------------------------------
\* The session can be found by a logout by user: it is in the user's index, unless
\* a save and a deletion of it have overlapped, or a call has failed
\* (redis_session_store.go:76-83, 123-128 and 145-151).
IndexedByUser ==
  \A s \in Sessions : store[s] # NoSession => s \in userIndex \/ s \in raced

\* A session that was deleted comes back only if a refresh had read it before the
\* deletion (session_service.go:163 and 186).
DeletedStaysDeleted ==
  \A s \in Sessions : gone[s] = "deleted" => store[s] = NoSession

\* What session.go:18 and 107 promise, without exception: violated, by a refresh that
\* saves the session after its deletion.
LogoutIsFinal ==
  \A s \in Sessions : gone[s] # "no" => store[s] = NoSession

\* Merging and the second read (session_service.go:162-170) work: a process presents
\* a refresh token of a live session once, unless a call about the session has failed
\* or it was being deleted.
TokenUsedOnce ==
  [][\A h \in Handlers :
       LET copy == handler'[h].copy IN
       pc(h) = "do" /\ handler'[h].pc = "call" /\ provider[copy.sid].state = "open"
         => \/ <<handler[h].at, copy.sid, copy.token>> \notin presented
            \/ handler[h].s \in raced]_vars

\* The middleware lets a request of the provider's session o pass.
Admits(h, o) == pc(h) # "served" /\ handler'[h].pc = "served" /\ handler'[h].copy.sid = o

\* When the session has ended at the provider, the BFF in the end admits no request
\* under it, and serves none but the streams it has admitted before, which last as long
\* as their clients like: whatever its own indexes have lost, access tokens expire, and
\* the provider refuses to refresh them (session_service.go:176-179).
LogoutTakesEffect ==
  \A o \in Sids :
    <>(provider[o].state = "ended") =>
      /\ <>[][\A h \in Handlers : ~Admits(h, o)]_vars
      /\ <>[](\A h \in Handlers : ~(pc(h) = "served" /\ handler[h].copy.sid = o))
=============================================================================
