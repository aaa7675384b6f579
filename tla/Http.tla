-------------------------------- MODULE Http -------------------------------
(***************************************************************************)
(* pkg/wkhttp over common/cache.go: a request goes through a chain of       *)
(* handlers, CORSMiddleware, AuthMiddleware and the route's own.  Each is   *)
(* wrapped by WKHttpHandler, which takes a Context from a pool for it and   *)
(* puts it back when the handler returns; a handler returns after those it *)
(* calls with Next.                                                        *)
(*                                                                         *)
(* Meanwhile users log in and out, entries expire and the cache fails.      *)
(***************************************************************************)
EXTENDS Naturals, Sequences, FiniteSets, SequencesExt

CONSTANTS
    Requests,   \* requests served, at the same time or not
    Tokens,     \* tokens users send
    UidOf,      \* [token -> the uid, as its parts around "code"]
    Entries,    \* [token -> the entries that are written for it: state, role, expiry]
    Shapes,     \* [request -> what it may be: route, method, token, company header]
    MaxEvents   \* how often sessions and the cache change (a model bound)

NoToken == "no token"

\* What the code looks at: an entry splits into a session or not; users are
\* given no empty token.
ASSUME HttpAssumption ==
    /\ NoToken \notin Tokens
    /\ \A t \in Tokens : \A e \in Entries[t] : e.state \in {"ok", "short", "blank"}
    /\ \A r \in Requests : \A s \in Shapes[r] : s.token \in Tokens \cup {NoToken}

\* What a route runs.  CORSMiddleware is there for every route (server.New).
Chain(route) == IF route = "open" THEN <<"cors", "handler">> ELSE <<"cors", "auth", "handler">>

VARIABLES
    cache,      \* [token -> the entry: its state, role and expiry]
    kind,       \* which implementation of cache.Cache: "redis" or "memory"
    cacheUp,    \* Redis answers
    eventCount, \* how often the three above changed
    contexts,   \* every pooled Context made: the request it points to, or "nil"
    free,       \* those in the pool
    req,        \* [request -> its parts, and where its chain is]
    loggedIn    \* kept for the properties: requests whose token was good throughout

httpVars == <<cache, kind, cacheUp, eventCount, contexts, free, req, loggedIn>>

Entry(state, role, expires) == [state |-> state, role |-> role, expires |-> expires]
NoEntry == Entry("none", "", FALSE)

HttpInit ==
    /\ cache = [t \in Tokens |-> NoEntry]
    /\ kind \in {"redis", "memory"}
    /\ cacheUp = TRUE
    /\ eventCount = 0
    /\ contexts = <<>>
    /\ free = {}
    /\ req = [r \in Requests |-> [pc |-> "new", route |-> "open", method |-> "GET", token |-> NoToken,
                company |-> "", held |-> <<>>, aborted |-> FALSE, status |-> 0, read |-> NoEntry,
                keys |-> [uid |-> <<>>, role |-> "", companyCode |-> <<>>]]]
    /\ loggedIn = {}

----------------------------------------------------------------------------
(* The cache: other code logs users in and out; entries expire; it fails.   *)

CacheEvent ==
    /\ eventCount < MaxEvents
    /\ eventCount' = eventCount + 1
    /\ UNCHANGED <<kind, contexts, free, req>>
Write(t, entry) ==
    /\ cache' = [cache EXCEPT ![t] = entry]
    /\ loggedIn' = IF entry.state = "ok" THEN loggedIn ELSE {r \in loggedIn : req[r].token # t}
    /\ UNCHANGED cacheUp

\* Set, or SetAndExpire: the program's log-in writes what AuthMiddleware splits.
Set(t) ==
    /\ CacheEvent
    /\ cacheUp
    /\ \E entry \in Entries[t] : Write(t, entry)
Delete(t) == CacheEvent /\ cacheUp /\ cache[t] # NoEntry /\ Write(t, NoEntry)
\* MemoryCache.SetAndExpire drops the duration.
Expire(t) == CacheEvent /\ kind = "redis" /\ cache[t].expires /\ Write(t, NoEntry)
\* The memory cache is a map behind a mutex and does not fail.
Fail == CacheEvent /\ kind = "redis" /\ cacheUp' = ~cacheUp /\ UNCHANGED <<cache, loggedIn>>

\* RedisCache.Get and MemoryCache.Get: a missing key is "" without an error.
GetFailed == ~cacheUp
Get(t) == cache[t]

----------------------------------------------------------------------------
(* The chain of a request.                                                 *)

Set1(r, with) == req' = [req EXCEPT ![r] = with]
Depth(r) == Len(req[r].held)
Handler(r) == Chain(req[r].route)[Depth(r)]
\* The Context that the handler now running was given.
Hc(r) == Last(req[r].held)
CacheUnchanged == UNCHANGED <<cache, kind, cacheUp, eventCount>>

Arrive(r) ==
    /\ req[r].pc = "new"
    /\ \E s \in Shapes[r] :
         /\ Set1(r, [req[r] EXCEPT !.pc = "call", !.route = s.route, !.method = s.method,
                                   !.token = s.token, !.company = s.company])
         /\ loggedIn' = IF s.token \in Tokens /\ cache[s.token].state = "ok"
                        THEN loggedIn \cup {r} ELSE loggedIn
    /\ CacheUnchanged
    /\ UNCHANGED <<contexts, free>>

\* As if Put were not deferred.
TakeAndPut(r) ==
    /\ req[r].pc = "call"
    /\ \E c \in free \cup {Len(contexts) + 1} :
         /\ contexts' = IF c \in free THEN [contexts EXCEPT ![c] = r] ELSE Append(contexts, r)
         /\ free' = free \cup {c}
         /\ Set1(r, [req[r] EXCEPT !.pc = "run", !.held = Append(@, c)])
    /\ CacheUnchanged
    /\ UNCHANGED loggedIn

\* WKHttpHandler: pool.Get, or a new Context; reset; point it to the request.
TakeContext(r) ==
    /\ req[r].pc = "call"
    /\ \E c \in free \cup {Len(contexts) + 1} :
         /\ contexts' = IF c \in free THEN [contexts EXCEPT ![c] = r] ELSE Append(contexts, r)
         /\ free' = free \ {c}
         /\ Set1(r, [req[r] EXCEPT !.pc = "run", !.held = Append(@, c)])
    /\ CacheUnchanged
    /\ UNCHANGED loggedIn

Stay == CacheUnchanged /\ UNCHANGED <<contexts, free, loggedIn>>
Aborts(r, status) == Set1(r, [req[r] EXCEPT !.pc = "return", !.aborted = TRUE, !.status = status])
Goes(r) == Set1(r, [req[r] EXCEPT !.pc = "call"])
Running(r, h) == req[r].pc = "run" /\ Handler(r) = h

CORSMiddleware(r) ==
    /\ Running(r, "cors")
    /\ IF req[r].method = "OPTIONS" THEN Aborts(r, 204) ELSE Goes(r)
    /\ Stay

\* The token from the header, then the cache.
UnavailableIsLoggedOut(r) == 401
Unavailable(r) == 503
AuthRead(r) ==
    /\ Running(r, "auth")
    /\ IF req[r].token = NoToken THEN Aborts(r, 401)
       ELSE IF GetFailed THEN Aborts(r, Unavailable(r))
       ELSE Set1(r, [req[r] EXCEPT !.pc = "decide", !.read = Get(req[r].token)])
    /\ Stay

UidCompanyCode(uid) == Head(uid)

\* What was read: blank, fewer than four parts, no company code, or a session.
AuthDecide(r) ==
    /\ req[r].pc = "decide"
    /\ LET uid == UidOf[req[r].token]
           code == IF req[r].company = "" THEN UidCompanyCode(uid) ELSE req[r].company IN
       IF req[r].read.state \in {"none", "blank", "short"} \/ code = ""
       THEN Aborts(r, 401)
       ELSE Set1(r, [req[r] EXCEPT !.pc = "call",
                !.keys = [uid |-> uid, role |-> req[r].read.role, companyCode |-> code]])
    /\ Stay

\* CheckLoginRole and CheckLoginRoleIsSuperAdmin, for those who have a role.
ManagerRoles == {"super_admin", "ga_admin", "game_admin", "company_admin", "normal_admin",
                 "readonly_admin"}
Allowed(route, role) ==
    CASE route = "manager" -> role \in ManagerRoles
      [] route = "super"   -> role = "super_admin"
      [] OTHER             -> TRUE

\* The route's handler: through its Context it reads the request and answers.
Asked(r) == contexts[Hc(r)]
Handle(r) ==
    /\ Running(r, "handler")
    /\ \E panics \in BOOLEAN :
         LET ok == req[r].route = "open" \/ Allowed(req[r].route, req[r].keys.role) IN
         Set1(r, [req[r] EXCEPT !.pc = "return", !.status =
             IF panics THEN 500 ELSE IF ok THEN 200 ELSE 400])
    /\ Stay

\* defer pool.Put; the handler before returns from its Next.  A panic comes the
\* same way, up to gin.Recovery.
PutContext(r) ==
    /\ req[r].pc = "return"
    /\ free' = free \cup {Hc(r)}
    /\ Set1(r, [req[r] EXCEPT !.held = Front(@), !.pc = IF Depth(r) = 1 THEN "done" ELSE "return"])
    /\ CacheUnchanged
    /\ UNCHANGED <<contexts, loggedIn>>

HttpNext ==
    \/ \E t \in Tokens : Set(t) \/ Delete(t) \/ Expire(t)
    \/ Fail
    \/ \E r \in Requests :
         \/ Arrive(r)
         \/ TakeContext(r)
         \/ CORSMiddleware(r)
         \/ AuthRead(r)
         \/ AuthDecide(r)
         \/ Handle(r)
         \/ PutContext(r)

HttpSpec == HttpInit /\ [][HttpNext]_httpVars

----------------------------------------------------------------------------
\* A client whose session was good from its request to its answer is not told
\* to log in again, whatever the cache did meanwhile: AuthMiddleware's comment
\* of 2026-08-20 (a failure of Redis answers 503, never 401).  A uid without a
\* company code is the exception the code makes.
FailureNeverLogsOut ==
    \A r \in Requests : req[r].status = 401 /\ r \in loggedIn =>
        req[r].company = "" /\ UidCompanyCode(UidOf[req[r].token]) = ""

\* A handler that runs has a Context of its own that points to its request, and
\* behind AuthMiddleware the identity its token's session had when it was read;
\* no handler runs after an abort, also while other requests come and go, fail
\* and panic (WKHttpHandler's pool).
HandlersSeeTheirRequest ==
    \A r \in Requests :
        /\ req[r].pc \in {"run", "decide"} =>
             /\ ~req[r].aborted
             /\ \A c \in ToSet(req[r].held) : contexts[c] = r /\ c \notin free
             /\ \A q \in Requests \ {r} : ToSet(req[q].held) \cap ToSet(req[r].held) = {}
        /\ Running(r, "handler") =>
             /\ Asked(r) = r
             /\ req[r].route # "open" =>
                  req[r].read.state = "ok" /\ req[r].keys.uid = UidOf[req[r].token]
============================================================================
