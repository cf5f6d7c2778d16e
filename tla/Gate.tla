-------------------------------- MODULE Gate --------------------------------
(* adapters/http and netutil: what stands between a TCP connection and a    *)
(* handler.  The connection limit, the global and per-IP request budgets,   *)
(* the not-found budget with its tarpit, Bearer authentication with its     *)
(* failure budget, role checks, the limit on heavy requests, and the API    *)
(* token rows that authentication reads while admins create and revoke them.*)
EXTENDS Throttle

CONSTANTS
  Req,          \* connections, each carrying one request
  Client,       \* addresses of clients
  Proxy,        \* address of the trusted reverse proxy
  Token,        \* API tokens
  Admin,        \* the one created when the system was set up
  Role,         \* the roles other tokens are given
  Chains,       \* X-Forwarded-For chains a client may send
  MaxConns, MaxHeavy,           \* MaxConnections, MaxConcurrentHeavyRequests
  Rate, Burst,                  \* per-IP budget (and that of auth failures)
  GlobalRate, GlobalBurst,
  MaxTime, MaxPages, MaxCalls,  \* bounds of the model
  Pause         \* bound: ticks a request spends between two locks

(* A budget of 0 switches its limiter off and a bound of 0 stands for its   *)
(* default; no client has the proxy's address, and a chain is a sequence.   *)
ASSUME GateAssumption ==
  /\ IsFiniteSet(Req)
  /\ {MaxEntries, TTL, MaxConns, MaxHeavy, Rate, Burst, GlobalRate, GlobalBurst} \subseteq Nat \ {0}
  /\ MaxTime \in Nat
  /\ Proxy \notin Client /\ Client \cap {"", "garbled", "all"} = {}
  /\ Admin \in Token /\ "" \notin Token
  /\ \A chain \in Chains : chain \in Seq(ToSet(chain))

(* "defaultBucketMapTTL is chosen so that by the time an entry becomes      *)
(* TTL-eligible for eviction, an un-evicted bucket would already have       *)
(* refilled to full", also one charged a pause after it was looked up.      *)
ASSUME EvictionAssumption == Pause \in Nat /\ Pause < TTL /\ Burst <= Rate * (TTL - Pause)

Ids == 1 .. (3 * MaxEntries + Cardinality(Req) + 1)
Maps == {"request", "notFound", "auth"}
Free == [tokens |-> 0, at |-> 0]

VARIABLES
  now,
  slots, acceptor,  \* LimitListener.sem, and where Accept is
  req,              \* the requests in flight
  heap,             \* token buckets
  maps,             \* the three evictingBucketMaps
  global,           \* the global bucket
  heavy,            \* heavyRequestLimiter.slots
  tokens,           \* api_tokens
  arrivals,         \* pages and API calls asked for so far
  granted,          \* history: requests admitted per address, up to each tick
  pushedOut         \* history: ticks at which an address lost its entry to the cap

listenerVars == <<slots, acceptor, arrivals>>
budgetVars == <<heap, maps, global, granted, pushedOut>>
vars == <<now, listenerVars, req, budgetVars, heavy, tokens>>

NoReq == [pc |-> "none", from |-> "", ip |-> "", op |-> "", cred |-> "", target |-> "",
          bucket |-> 0, since |-> 0, closes |-> 0,
          stale |-> FALSE, valid |-> FALSE, storeFailed |-> FALSE, answer |-> ""]

(* A row of api_tokens; known: somebody was given the secret; answered: the *)
(* response to its revocation was written.                                  *)
NoToken == [state |-> "absent", role |-> "", known |-> FALSE, answered |-> FALSE]
NewToken(role, known) == [state |-> "active", role |-> role, known |-> known, answered |-> FALSE]

Init ==
  /\ now = 0 /\ slots = 0 /\ acceptor = "sem"
  /\ req = [r \in Req |-> NoReq]
  /\ heap = [i \in Ids |-> Free]
  /\ maps = [m \in Maps |-> <<>>]
  /\ global = newTokenBucket(GlobalBurst, 0)
  /\ heavy = 0
  /\ \E others \in [Token \ {Admin} -> {NoToken} \cup {NewToken(role, TRUE) : role \in Role}] :
       tokens = [t \in Token |-> IF t = Admin THEN NewToken("admin", TRUE) ELSE others[t]]
  /\ arrivals = [pages |-> 0, calls |-> 0]
  /\ granted = [a \in Client \cup {"all"} |-> [t \in 0..MaxTime |-> 0]]
  /\ pushedOut = [a \in Client |-> {}]

Answer(r, code) ==
  [req EXCEPT ![r] = [@ EXCEPT !.pc = "done", !.answer = code, !.bucket = 0, !.since = 0,
                               !.op = "", !.cred = "", !.target = ""]]
Goto(r, pc) == [req EXCEPT ![r].pc = pc]
At(r, pc) == req[r].pc = pc

-----------------------------------------------------------------------------
(* LimitListener *)

AcceptWait ==
  /\ acceptor = "sem" /\ slots < MaxConns
  /\ slots' = slots + 1 /\ acceptor' = "accept"
  /\ UNCHANGED <<now, req, heavy, tokens, arrivals, budgetVars>>

AcceptFails ==
  /\ acceptor = "accept"
  /\ slots' = slots - 1 /\ acceptor' = "sem"
  /\ UNCHANGED <<now, req, heavy, tokens, arrivals, budgetVars>>

(* What a client may ask for: a page that exists or does not, or an API     *)
(* operation with some credential.                                          *)
Ask == [op : {"found", "missing"}, cred : {""}, target : {""}]
       \cup [op : {"stats"}, cred : {"", "wrong"} \cup Token, target : {""}]
       \cup [op : {"create"}, cred : Token, target : {""}]
       \cup [op : {"revoke"}, cred : Token, target : Token]

IsPage(ask) == ask.op \in {"found", "missing"}

(* Bound: MaxPages pages, or MaxCalls calls, or a mix of the same weight. *)
Arrived(ask) ==
  IF IsPage(ask) THEN [arrivals EXCEPT !.pages = @ + 1] ELSE [arrivals EXCEPT !.calls = @ + 1]
WithinLoad(n) == n.pages * MaxCalls + n.calls * MaxPages <= MaxPages * MaxCalls

(* A client connects directly, or through the proxy, which appends the      *)
(* address it saw to the chain the client sent.                             *)
AcceptConn(r) ==
  /\ acceptor = "accept" /\ At(r, "none") /\ acceptor' = "sem"
  /\ \E c \in Client, chain \in Chains, ask \in Ask, direct \in BOOLEAN :
       LET http == IF direct THEN [remote |-> c, xff |-> chain, realIP |-> ""]
                   ELSE [remote |-> Proxy, xff |-> Append(chain, c), realIP |-> ""]
       IN /\ WithinLoad(Arrived(ask)) /\ arrivals' = Arrived(ask)
          /\ ask.cred \in Token => tokens[ask.cred].known
          /\ req' = [req EXCEPT ![r] = [NoReq EXCEPT
               !.pc = IF IsPage(ask) THEN "global" ELSE "auth",
               !.from = c, !.ip = clientIP(http, {Proxy}),
               !.op = ask.op, !.cred = ask.cred, !.target = ask.target,
               !.stale = ask.cred \in Token /\ tokens[ask.cred].answered,
               !.valid = ask.cred \in Token /\ tokens[ask.cred].state = "active"]]
  /\ UNCHANGED <<now, slots, heavy, tokens, budgetVars>>

(* A connection is closed when its request is answered, or before, while a  *)
(* handler takes its time (a timeout, a client that went away); and perhaps *)
(* once more when it is answered.                                           *)
Closable(r) == (At(r, "done") /\ req[r].closes < 2) \/ (At(r, "heavy") /\ req[r].closes = 0)

(* Mutant: every Close releases. *)
CloseTwice(r) ==
  /\ Closable(r)
  /\ req' = [req EXCEPT ![r].closes = @ + 1]
  /\ slots' = slots - 1
  /\ UNCHANGED <<now, acceptor, heavy, tokens, arrivals, budgetVars>>

(* limitConn.Close, by the server or by the handler's side, perhaps by both:*)
(* the slot is released once.                                               *)
Close(r) ==
  /\ Closable(r)
  /\ req' = [req EXCEPT ![r].closes = @ + 1]
  /\ slots' = IF req[r].closes > 0 THEN slots ELSE slots - 1
  /\ UNCHANGED <<now, acceptor, heavy, tokens, arrivals, budgetVars>>

(* The goroutine of a closed connection ends. *)
EndConn(r) ==
  /\ At(r, "done") /\ req[r].closes > 0
  /\ req' = [req EXCEPT ![r] = NoReq]
  /\ UNCHANGED <<now, heavy, tokens, listenerVars, budgetVars>>

-----------------------------------------------------------------------------
(* Budgets *)

Referenced(ms) == {e.id : e \in UNION {ToSet(ms[m]) : m \in Maps}} \cup {req[r].bucket : r \in Req}
InUse == Referenced(maps)

NewId == CHOOSE i \in Ids : i \notin InUse /\ \A j \in Ids : j \notin InUse => i <= j

(* perIPLimiter.allowRequest / allowNotFound and authThrottle.failAllowed   *)
(* look their bucket up under the map's lock and charge it after unlocking. *)
Lookup(r, m, next) ==
  LET key == req[r].ip
      hit == IsHit(maps[m], key, now)
      after == getOrCreate(maps[m], key, NewId, now)
      lost == {e.key : e \in ToSet(maps[m])} \ {e.key : e \in ToSet(after)}
      expired == {e.key : e \in {e \in ToSet(maps[m]) : now - e.last >= TTL}}
  IN /\ maps' = [maps EXCEPT ![m] = after]
     /\ heap' = [i \in Ids |-> IF ~hit /\ i = NewId THEN newTokenBucket(Burst, now)
                               ELSE IF i \in Referenced(maps') THEN heap[i]
                               ELSE Free]
     /\ req' = [req EXCEPT ![r].pc = next, ![r].bucket = Head(after).id, ![r].since = now]
     /\ pushedOut' = IF m # "request" THEN pushedOut
                     ELSE [a \in Client |-> IF a \in lost \ expired THEN pushedOut[a] \cup {now} ELSE pushedOut[a]]

Charge(r) == heap' = [heap EXCEPT ![req[r].bucket] = AfterAllow(@, now, Rate, Burst)]
Affordable(r) == HasToken(heap[req[r].bucket], now, Rate, Burst)
Count(a) ==
  [granted EXCEPT ![a] = [t \in 0..MaxTime |-> IF t >= now THEN granted[a][t] + 1 ELSE granted[a][t]]]

globalRateLimit(r) ==
  /\ At(r, "global")
  /\ global' = AfterAllow(global, now, GlobalRate, GlobalBurst)
  /\ IF HasToken(global, now, GlobalRate, GlobalBurst)
       THEN req' = Goto(r, "perIP") /\ granted' = Count("all")
       ELSE req' = Answer(r, "429") /\ UNCHANGED granted
  /\ UNCHANGED <<now, heap, maps, heavy, tokens, pushedOut, listenerVars>>

allowRequestLookup(r) ==
  /\ At(r, "perIP") /\ Lookup(r, "request", "perIPCharge")
  /\ UNCHANGED <<now, global, heavy, tokens, granted, listenerVars>>

(* ServeHTTP goes on to the page, or to notFound. *)
allowRequestCharge(r) ==
  /\ At(r, "perIPCharge") /\ Charge(r)
  /\ IF Affordable(r)
       THEN /\ granted' = Count(req[r].ip)
            /\ req' = IF req[r].op = "found" THEN Answer(r, "200") ELSE [Goto(r, "notFound") EXCEPT ![r].bucket = 0]
       ELSE req' = Answer(r, "429") /\ UNCHANGED granted
  /\ UNCHANGED <<now, maps, global, heavy, tokens, pushedOut, listenerVars>>

notFoundLookup(r) ==
  /\ At(r, "notFound") /\ Lookup(r, "notFound", "notFoundCharge")
  /\ UNCHANGED <<now, global, heavy, tokens, granted, listenerVars>>

(* An exhausted budget sleeps first; the answer is the same. *)
notFoundCharge(r) ==
  /\ At(r, "notFoundCharge") /\ Charge(r)
  /\ req' = IF Affordable(r) THEN Answer(r, "404") ELSE [Goto(r, "tarpit") EXCEPT ![r].bucket = 0]
  /\ UNCHANGED <<now, maps, global, heavy, tokens, granted, pushedOut, listenerVars>>

tarpitSleep(r) ==
  /\ At(r, "tarpit") /\ req' = Answer(r, "404")
  /\ UNCHANGED <<now, heavy, tokens, listenerVars, budgetVars>>

-----------------------------------------------------------------------------
(* Authentication, roles and heavy requests *)

(* Mutant: revocation is not part of the query. *)
LookupActiveAPITokenAny(cred) == cred \in Token /\ tokens[cred].state # "absent"

LookupActiveAPIToken(cred) == cred \in Token /\ tokens[cred].state = "active"

(* Mutant: an address over its failure budget is turned away first. *)
authMiddlewareThrottled(r) ==
  /\ At(r, "auth")
  /\ LET e == {e \in ToSet(maps["auth"]) : e.key = req[r].ip /\ heap[e.id].tokens = 0}
     IN req' = CASE e # {} -> Answer(r, "429auth")
                 [] LookupActiveAPIToken(req[r].cred) -> Goto(r, "dispatch")
                 [] OTHER -> Goto(r, "reject")
  /\ UNCHANGED <<now, heavy, tokens, listenerVars, budgetVars>>

(* Found: the principal is installed (last_used_at, which recordAuthSuccess *)
(* touches, is left out).  No credential, not found, revoked, or the store  *)
(* failed: rejectAuth.                                                      *)
authMiddleware(r) ==
  /\ At(r, "auth")
  /\ \/ req' = IF LookupActiveAPIToken(req[r].cred) THEN Goto(r, "dispatch") ELSE Goto(r, "reject")
     \/ req[r].cred # "" /\ req' = [Goto(r, "reject") EXCEPT ![r].storeFailed = TRUE]
  /\ UNCHANGED <<now, heavy, tokens, listenerVars, budgetVars>>

rejectAuthLookup(r) ==
  /\ At(r, "reject") /\ Lookup(r, "auth", "rejectCharge")
  /\ UNCHANGED <<now, global, heavy, tokens, granted, listenerVars>>

rejectAuthCharge(r) ==
  /\ At(r, "rejectCharge") /\ Charge(r)
  /\ req' = Answer(r, IF Affordable(r) THEN "401" ELSE "429auth")
  /\ UNCHANGED <<now, maps, global, heavy, tokens, granted, pushedOut, listenerVars>>

Allowed == [stats |-> {"admin", "viewer"}, create |-> {"admin"}, revoke |-> {"admin"}]

authorize(r) == tokens[req[r].cred].role \in Allowed[req[r].op]

(* heavyLimitMiddleware wraps the handler, its role check included. *)
HeavyBegin(r) ==
  /\ At(r, "dispatch") /\ req[r].op = "stats"
  /\ IF heavy < MaxHeavy
       THEN heavy' = heavy + 1 /\ req' = Goto(r, "heavy")
       ELSE req' = Answer(r, "429") /\ UNCHANGED heavy
  /\ UNCHANGED <<now, tokens, listenerVars, budgetVars>>

(* Mutant: a panic unwinds past the release. *)
HeavyEndPanics(r) ==
  /\ At(r, "heavy")
  /\ \/ heavy' = heavy - 1 /\ req' = Answer(r, IF authorize(r) THEN "200" ELSE "403")
     \/ UNCHANGED heavy /\ req' = Answer(r, "500")
  /\ UNCHANGED <<now, tokens, listenerVars, budgetVars>>

(* The deferred release runs whether the handler returns, fails, panics     *)
(* (recoverMiddleware answers) or loses its client.                         *)
HeavyEnd(r) ==
  /\ At(r, "heavy")
  /\ heavy' = heavy - 1
  /\ \/ req' = Answer(r, IF authorize(r) THEN "200" ELSE "403")
     \/ req' = Answer(r, "500")
  /\ UNCHANGED <<now, tokens, listenerVars, budgetVars>>

(* The insert may fail; once the row is committed, reading it back may, and *)
(* then the secret is lost, and with it the token.                          *)
createAPIToken(r) ==
  /\ At(r, "dispatch") /\ req[r].op = "create"
  /\ \/ /\ authorize(r)
        /\ \E t \in Token, role \in Role, reloaded \in BOOLEAN :
             /\ tokens[t].state = "absent"
             /\ tokens' = [tokens EXCEPT ![t] = NewToken(role, reloaded)]
             /\ req' = Answer(r, IF reloaded THEN "201" ELSE "500")
     \/ /\ req' = Answer(r, IF authorize(r) THEN "500" ELSE "403")
        /\ UNCHANGED tokens
  /\ UNCHANGED <<now, heavy, listenerVars, budgetVars>>

(* revokeAPIToken: the row is updated, and later the 204 is written; or     *)
(* there is no row, or the store fails before it is updated.                *)
revokeAPIToken(r) ==
  /\ At(r, "dispatch") /\ req[r].op = "revoke"
  /\ LET t == req[r].target
     IN \/ /\ authorize(r) /\ tokens[t].state # "absent"
           /\ tokens' = [tokens EXCEPT ![t].state = "revoked"]
           /\ req' = [q \in Req |-> IF q = r THEN [req[q] EXCEPT !.pc = "revoked", !.valid = @ /\ req[q].cred # t]
                                    ELSE [req[q] EXCEPT !.valid = @ /\ req[q].cred # t]]
        \/ \E code \in {"403", "404", "500"} :
             /\ code = "403" <=> ~authorize(r)
             /\ code = "404" => tokens[t].state = "absent"
             /\ req' = Answer(r, code) /\ UNCHANGED tokens
  /\ UNCHANGED <<now, heavy, listenerVars, budgetVars>>

revokeAPITokenAnswer(r) ==
  /\ At(r, "revoked")
  /\ tokens' = [tokens EXCEPT ![req[r].target].answered = TRUE]
  /\ req' = Answer(r, "204")
  /\ UNCHANGED <<now, heavy, listenerVars, budgetVars>>

-----------------------------------------------------------------------------
(* Bound: a request holds a bucket for at most Pause ticks. *)
Tick ==
  /\ now < MaxTime
  /\ \A r \in Req : req[r].bucket # 0 => now + 1 - req[r].since <= Pause
  /\ now' = now + 1
  /\ UNCHANGED <<req, heavy, tokens, listenerVars, budgetVars>>

Next ==
  \/ Tick \/ AcceptWait \/ AcceptFails
  \/ \E r \in Req :
       \/ AcceptConn(r) \/ Close(r) \/ EndConn(r)
       \/ globalRateLimit(r) \/ allowRequestLookup(r) \/ allowRequestCharge(r)
       \/ notFoundLookup(r) \/ notFoundCharge(r) \/ tarpitSleep(r)
       \/ authMiddleware(r) \/ rejectAuthLookup(r) \/ rejectAuthCharge(r)
       \/ HeavyBegin(r) \/ HeavyEnd(r)
       \/ createAPIToken(r) \/ revokeAPIToken(r) \/ revokeAPITokenAnswer(r)

Spec == Init /\ [][Next]_vars

-----------------------------------------------------------------------------
(* Properties. *)

(* The shape of the state: where each request is, and what it was answered. *)
TypeOK ==
  /\ now \in 0..MaxTime /\ acceptor \in {"sem", "accept"}
  /\ \A r \in Req :
       /\ req[r].pc \in {"none", "global", "perIP", "perIPCharge", "notFound", "notFoundCharge", "tarpit", "auth",
                         "reject", "rejectCharge", "dispatch", "heavy", "revoked", "done"}
       /\ req[r].answer \in {"", "200", "201", "204", "401", "403", "404", "429", "429auth", "500"}
       /\ req[r].bucket \in Ids \cup {0}
  /\ \A i \in Ids : heap[i].tokens \in 0..Burst

(* The semaphore counts the open connections, whoever closes them, how      *)
(* often and in which order (limitConn.Close): none slips past the limit    *)
(* and none is lost, which would end in a server that accepts nothing.      *)
ConnLimit ==
  /\ slots <= MaxConns
  /\ slots = Cardinality({r \in Req : req[r].pc # "none" /\ req[r].closes = 0})
             + (IF acceptor = "accept" THEN 1 ELSE 0)

(* A slot for heavy requests is taken exactly while a handler runs, however *)
(* it ends (heavyLimitMiddleware).                                          *)
HeavyExact == heavy <= MaxHeavy /\ heavy = Cardinality({r \in Req : At(r, "heavy")})

(* In any window of time an address gets no more than its burst and what    *)
(* was refilled, although idle entries are evicted and come back full and   *)
(* buckets are charged outside the map's lock ("eviction never hands a      *)
(* returning client anything it would not already have gotten by simply     *)
(* waiting").  The cap is the exception, until the last request that holds  *)
(* the lost bucket is through.  Likewise for all clients together.          *)
Admitted(a, s, e) == granted[a][e] - (IF s = 0 THEN 0 ELSE granted[a][s - 1])

RateWindow ==
  \A a \in Client \cup {"all"}, e \in 0..now : \A s \in 0..e :
    (a \in Client => pushedOut[a] \cap ((s - Pause)..e) = {}) =>
      Admitted(a, s, e) <= IF a = "all" THEN GlobalBurst + GlobalRate * (e - s) ELSE Burst + Rate * (e - s)

(* The list is in the order of the last accesses, which is what lets        *)
(* evictExpiredLocked stop at the first fresh entry, and it stays in bounds.*)
LRUOrder ==
  \A m \in Maps :
    /\ Len(maps[m]) <= MaxEntries
    /\ \A i, j \in DOMAIN maps[m] : i < j => maps[m][i].last >= maps[m][j].last /\ maps[m][i].key # maps[m][j].key

(* Whatever X-Forwarded-For a client sends, directly or through the trusted *)
(* proxy, its budgets and its audit entries are those of its own address.   *)
IdentityNotForged == \A r \in Req : req[r].pc # "none" => req[r].ip = req[r].from

(* "revocation takes effect immediately for the next request bearing that   *)
(* token's secret": a request that begins after the 204 reaches no handler. *)
RevokedCutOff ==
  \A r \in Req : req[r].stale => ~(At(r, "dispatch") \/ At(r, "heavy") \/ At(r, "revoked"))
                                /\ req[r].answer \in {"", "401", "429auth"}

(* "a client presenting a valid token is never throttled" by the failures   *)
(* of others at its address, unless the token store itself fails.           *)
ValidNotThrottled ==
  \A r \in Req : req[r].valid /\ ~req[r].storeFailed => req[r].answer \notin {"401", "429auth"}

(* The shared structures of the two servers are exact under any             *)
(* interleaving: slots, lists, and the address each request is charged to.  *)
GateInv == TypeOK /\ ConnLimit /\ HeavyExact /\ LRUOrder /\ IdentityNotForged
=============================================================================
