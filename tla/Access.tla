------------------------------- MODULE Access -------------------------------
(***************************************************************************)
(* Who gets what: the scan of the route table (websRouteRequest, route.c), *)
(* authentication, roles and abilities (auth.c) and the sessions           *)
(* (http.c).  A request is routed within one turn of the event loop, so    *)
(* one request is in progress at a time and the steps of its routing are   *)
(* the actions; clients, the clock and pruneCache move between requests.   *)
(* A path is a sequence of symbols that begins with "/", and a prefix of a *)
(* path is a prefix of that sequence.                                      *)
(***************************************************************************)
EXTENDS Integers, FiniteSets, Sequences, TLC

CONSTANTS
  Clients,
  Requests,     \* what clients ask for: see AccessAssumption
  Routes,       \* the route table, as websLoad has built it
  Users,        \* user->roles, of each user
  Roles,        \* rp->abilities of each role, in the order of the hash table
  DepthMax,     \* the depth where computeAbilities gives up (20)
  RouteMax,     \* WEBS_MAX_ROUTE
  SessionMax,   \* BIT_GOAHEAD_LIMIT_SESSION_COUNT
  Life,         \* BIT_GOAHEAD_LIMIT_SESSION_LIFE, in ticks
  PruneTime,    \* WEBS_SESSION_PRUNE, in ticks
  Fails         \* TRUE: there may be no memory for a session

NoUser == ""
NoType == ""     \* wp->authType: no Authorization header
NoAuth == "none" \* route->authType is 0; form authentication is "form"

\* abilities, methods and extensions are {} where the route names none;
\* redirects is a function from codes.
ASSUME AccessAssumption ==
  /\ IsFiniteSet(Clients) /\ Clients # {} /\ Requests # {}
  /\ Len(Routes) \in Nat /\ DOMAIN Routes = 1 .. Len(Routes)
  /\ \A n \in DOMAIN Routes :
       /\ Len(Routes[n].uri) \in Nat \ {0}
       /\ Routes[n].auth \in {NoAuth, "form", "basic"}
       /\ Routes[n].handler \in {"continue", "test", "action", "file"}
  /\ \A r \in Requests : r.authType \in {NoType, "basic"} /\ r.good \in BOOLEAN
  /\ NoUser \notin DOMAIN Users
  /\ \A r \in DOMAIN Roles : DOMAIN Roles[r] \subseteq Nat \ {0}
  /\ DepthMax \in Nat /\ SessionMax \in Nat /\ RouteMax \in Nat \ {0}
  /\ Life \in Nat \ {0} /\ PruneTime \in Nat \ {0} /\ Fails \in BOOLEAN

VARIABLES
  pc,            \* where the thread is
  i, count,      \* the loop of websRouteRequest
  wp,            \* the request
  sessions,      \* the session table: its user, and the ticks until it expires
  sessionCount,
  pruneIn,       \* ticks until pruneCache is due
  cookies,       \* the session id that each client sends
  reply,         \* the reply to it
  member,        \* history: as whom a client has logged in
  unstored       \* history: sessions counted that never were in the table

loop == <<i, count>>
table == <<sessions, sessionCount, unstored>>
vars == <<pc, loop, wp, table, pruneIn, cookies, reply, member>>

\* Session ids: 0 is none, Lost a session that is not in the table.
NoId == 0
Lost == -1
Ids == 1 .. SessionMax + Cardinality(Clients) + 3

Code == {"none", "page", "login", "ok", "400", "401", "404", "406"}

NoRequest == [client |-> CHOOSE c \in Clients : TRUE, ask |-> CHOOSE r \in Requests : TRUE,
              path |-> << >>, cookie |-> NoId, username |-> NoUser, user |-> NoUser, encoded |-> FALSE,
              session |-> NoId, setCookie |-> NoId]

TypeOK ==
  /\ pc \in {"idle", "match", "auth", "can", "handler", "greet", "mark", "done"}
  /\ i \in 1 .. Len(Routes) + 1 /\ count \in 0 .. RouteMax
  /\ wp.client \in Clients /\ wp.ask \in Requests
  /\ {wp.username, wp.user} \subseteq DOMAIN Users \cup {NoUser} \cup {r.user : r \in Requests}
  /\ {wp.cookie, wp.setCookie} \subseteq Ids \cup {NoId}
  /\ wp.encoded \in BOOLEAN
  /\ wp.session \in Ids \cup {NoId, Lost}
  /\ DOMAIN sessions \subseteq Ids
  /\ \A s \in DOMAIN sessions :
       sessions[s].user \in DOMAIN Users \cup {NoUser} /\ sessions[s].left \in Int
  /\ sessionCount \in 0 .. SessionMax + 1
  /\ pruneIn \in 0 .. PruneTime
  /\ cookies \in [Clients -> Ids \cup {NoId}]
  /\ reply \in Code
  /\ member \in [Clients -> DOMAIN Users \cup {NoUser}]
  /\ unstored \in Nat

Init ==
  /\ pc = "idle" /\ i = 1 /\ count = 0 /\ wp = NoRequest
  /\ sessions = << >> /\ sessionCount = 0 /\ pruneIn = PruneTime
  /\ cookies = [c \in Clients |-> NoId]
  /\ reply = "none"
  /\ member = [c \in Clients |-> NoUser] /\ unstored = 0

At(place) == pc = place
Goto(place) == pc' = place

(***************************************************************************)
(* Roles and abilities.                                                    *)
(***************************************************************************)

Names == DOMAIN Roles \cup (UNION {{Roles[r][k] : k \in DOMAIN Roles[r]} : r \in DOMAIN Roles})
         \cup (UNION {{Users[u][k] : k \in DOMAIN Users[u]} : u \in DOMAIN Users})

\* What computeAbilities enters for a role when it is called n levels above
\* the deepest: the k-th ability of a role is entered k levels deeper.
computeAbilities[n \in 0 .. DepthMax] ==
  [role \in Names |->
     IF role \in DOMAIN Roles
     THEN UNION {IF k <= n THEN computeAbilities[n - k][Roles[role][k]] ELSE {} :
                   k \in DOMAIN Roles[role]}
     ELSE {role}]

\* user->abilities: computeUserAbilities.
Abilities ==
  UNION {{u} \X UNION {computeAbilities[DepthMax][Users[u][k]] : k \in DOMAIN Users[u]} :
           u \in DOMAIN Users}

(***************************************************************************)
(* Sessions.                                                               *)
(***************************************************************************)

NewSession == [user |-> NoUser, left |-> Life]

\* Mutated Known: the cookie is not looked up.
KnownNot == wp.session

\* The session of the request: the one it holds, or that of its cookie.
Known ==
  IF wp.session # NoId THEN wp.session
  ELSE IF wp.cookie \in DOMAIN sessions THEN wp.cookie ELSE NoId

Renewed(id) ==
  IF id \in DOMAIN sessions THEN [sessions EXCEPT ![id].left = Life] ELSE sessions

\* The table with a new session in it.
Made(id) ==
  [s \in DOMAIN sessions \cup {id} |-> IF s = id THEN NewSession ELSE sessions[s]]

\* makeSessionID, unless the client has sent an id.
NewId ==
  IF wp.cookie # NoId THEN wp.cookie
  ELSE CHOOSE id \in Ids : id \notin DOMAIN sessions /\ \A c \in Clients : cookies[c] # id

Full == sessionCount > SessionMax

\* websGetSession(wp, 1): what it may return and leave behind.
GetSession ==
  IF Known # NoId
  THEN {[session |-> Known, table |-> Renewed(Known), counted |-> 0, cookie |-> NoId]}
  ELSE IF Full
  THEN {[session |-> NoId, table |-> sessions, counted |-> 0, cookie |-> NoId]}
  ELSE {[session |-> NewId, table |-> Made(NewId),
         counted |-> 1, cookie |-> NewId]}
       \cup {[session |-> s, table |-> sessions, counted |-> 1, cookie |-> NoId] :
               s \in IF Fails THEN {NoId, Lost} ELSE {}}

\* websSetSessionVar and websRemoveSessionVar of the user's name.
SetUser(o, user) ==
  IF o.session \in DOMAIN o.table THEN [o.table EXCEPT ![o.session].user = user]
  ELSE o.table

\* The outcome o of GetSession, and then t for its table.
Session(o, t) ==
  /\ sessions' = t
  /\ sessionCount' = sessionCount + o.counted
  /\ unstored' = unstored + (IF o.session \in DOMAIN t THEN 0 ELSE o.counted)

Holding(w, o) ==
  [w EXCEPT !.session = o.session,
            !.setCookie = IF o.cookie # NoId THEN o.cookie ELSE @]

(***************************************************************************)
(* Replies.                                                                *)
(***************************************************************************)

\* The headers of w's reply take the cookie with them.
Send(w, code) ==
  IF code = "silent" THEN UNCHANGED <<reply, cookies>>
  ELSE /\ reply' = code
       /\ cookies' = IF w.setCookie # NoId THEN [cookies EXCEPT ![w.client] = w.setCookie]
                     ELSE cookies

route == Routes[i]

\* websRedirectByStatus: what the reply is; "silent" if there is none.
Redirect(status, done) ==
  IF route.redirects = << >> THEN (IF status = 401 THEN "401" ELSE "ok")
  ELSE IF status \in DOMAIN route.redirects THEN done ELSE "silent"

(***************************************************************************)
(* websRouteRequest.                                                       *)
(***************************************************************************)

Arrive(c, r) ==
  /\ At("idle")
  /\ Goto("match")
  /\ i' = 1 /\ count' = 0
  /\ wp' = [client |-> c, ask |-> r, path |-> r.path, cookie |-> cookies[c],
            username |-> NoUser, user |-> NoUser, encoded |-> FALSE,
            session |-> NoId, setCookie |-> NoId]
  /\ UNCHANGED <<table, pruneIn, cookies, reply, member>>

Under(path, uri) == Len(path) >= Len(uri) /\ SubSeq(path, 1, Len(uri)) = uri
safeMethod(r) == r.method \in {"POST", "GET", "HEAD"}

Matches(r) ==
  /\ Under(wp.path, r.uri)
  /\ r.protocol \in {"any", wp.ask.protocol}
  /\ IF r.methods # {} THEN wp.ask.method \in r.methods ELSE safeMethod(wp.ask)
  /\ r.extensions = {} \/ wp.ask.ext \in r.extensions

\* Mutated NextRoute: the loop does not go on.
NextRouteNot == i

NextRoute == i + 1

\* The routes from i on that match.
Matching == {n \in i .. Len(Routes) : Matches(Routes[n])}

Match ==
  /\ At("match") /\ Matching # {}
  /\ i' = CHOOSE n \in Matching : \A k \in Matching : n <= k
  /\ Goto("auth")
  /\ UNCHANGED <<count, wp, table, pruneIn, cookies, reply, member>>

NoRoute ==
  /\ At("match") /\ Matching = {}
  /\ Send(wp, "406") /\ Goto("done")
  /\ UNCHANGED <<loop, wp, table, pruneIn, member>>

(***************************************************************************)
(* websAuthenticate.                                                       *)
(***************************************************************************)

AuthNone ==
  /\ At("auth") /\ route.auth = NoAuth
  /\ Goto("can")
  /\ UNCHANGED <<loop, wp, table, pruneIn, cookies, reply, member>>

\* Looking for the user in a session renews the session.
CachedUser ==
  IF wp.cookie # NoId /\ Known \in DOMAIN sessions THEN sessions[Known].user ELSE NoUser
Looked == IF wp.cookie # NoId THEN [wp EXCEPT !.session = Known] ELSE wp
LookedUp ==
  /\ sessions' = IF wp.cookie # NoId THEN Renewed(Known) ELSE sessions
  /\ UNCHANGED <<sessionCount, unstored>>

AuthCached ==
  /\ At("auth") /\ route.auth # NoAuth /\ CachedUser # NoUser
  /\ LookedUp
  /\ wp' = [Looked EXCEPT !.username = CachedUser]
  /\ Goto("can")
  /\ UNCHANGED <<loop, pruneIn, cookies, reply, member>>

NotCached == At("auth") /\ route.auth # NoAuth /\ CachedUser = NoUser

AuthWrongType ==
  /\ NotCached
  /\ wp.ask.authType # NoType /\ wp.ask.authType # route.auth
  /\ LookedUp /\ wp' = Looked
  /\ Send(wp, "400") /\ Goto("done")
  /\ UNCHANGED <<loop, pruneIn, member>>

\* wp->username, after parseAuth; verify looks up wp->user for it.
Claimed == IF wp.ask.authType # NoType THEN wp.ask.user ELSE wp.username
TypeFits == wp.ask.authType \in {NoType, route.auth}
Account(name) == IF name \in DOMAIN Users THEN name ELSE NoUser

\* websVerifyPasswordFromFile takes wp->user as it is, unless it is 0; and
\* takes a password for one that is encoded when an earlier one was.
Verifier(name) == IF wp.user # NoUser THEN wp.user ELSE Account(name)
verify(name, encoded) ==
  name # NoUser /\ Verifier(name) = name /\ wp.ask.good /\ ~encoded
Verified(w, name) ==
  [w EXCEPT !.username = name, !.user = Verifier(name),
            !.encoded = @ \/ Verifier(name) # NoUser]

\* No name, or not its password.  When there is no redirection for 401,
\* nothing is sent and websPump routes the request again.
AuthRefused ==
  /\ NotCached /\ TypeFits /\ ~verify(Claimed, FALSE)
  /\ LookedUp
  /\ wp' = Verified(Looked, Claimed)
  /\ Send(wp, Redirect(401, "login"))
  /\ IF Redirect(401, "login") = "silent" THEN Goto("match") /\ i' = 1 /\ count' = 0
                                          ELSE Goto("done") /\ UNCHANGED loop
  /\ UNCHANGED <<pruneIn, member>>

AuthVerified ==
  /\ NotCached /\ TypeFits /\ verify(Claimed, FALSE)
  /\ \E o \in GetSession :
       /\ Session(o, SetUser(o, Claimed))
       /\ wp' = Verified(Holding(wp, o), Claimed)
  /\ member' = [member EXCEPT ![wp.client] = Claimed]
  /\ Goto("can")
  /\ UNCHANGED <<loop, pruneIn, cookies, reply>>

(***************************************************************************)
(* websCan, for the abilities of the route.                                *)
(***************************************************************************)

\* wp->user, which websCan looks up if it is not known.
WhoAsks == IF wp.user # NoUser THEN wp.user ELSE Account(wp.username)
websCan == WhoAsks # NoUser /\ {WhoAsks} \X route.abilities \subseteq Abilities

Can ==
  /\ At("can") /\ (route.abilities = {} \/ websCan)
  /\ wp' = [wp EXCEPT !.user = IF route.abilities = {} THEN @ ELSE WhoAsks]
  /\ Goto("handler")
  /\ UNCHANGED <<loop, table, pruneIn, cookies, reply, member>>

Cannot ==
  /\ At("can") /\ route.abilities # {} /\ ~websCan
  /\ Send(wp, "401") /\ Goto("done")
  /\ UNCHANGED <<loop, wp, table, pruneIn, member>>

(***************************************************************************)
(* Handlers.                                                               *)
(***************************************************************************)

Handler(h) == At("handler") /\ route.handler = h

\* continueHandler.
Continue ==
  /\ Handler("continue")
  /\ i' = NextRoute /\ Goto("match")
  /\ UNCHANGED <<count, wp, table, pruneIn, cookies, reply, member>>

\* testHandler, the one handler that rewrites: routing begins again, behind
\* the first route.
Test ==
  /\ Handler("test")
  /\ IF wp.path = <<"/">>
     THEN /\ wp' = [wp EXCEPT !.path = <<"/", "home">>]
          /\ count' = count + 1
          /\ IF count' >= RouteMax THEN Goto("done") /\ Send(wp, "406") /\ UNCHANGED i
                                   ELSE Goto("match") /\ i' = 2 /\ UNCHANGED <<cookies, reply>>
     ELSE i' = NextRoute /\ Goto("match") /\ UNCHANGED <<count, wp, cookies, reply>>
  /\ UNCHANGED <<table, pruneIn, member>>

File ==
  /\ Handler("file")
  /\ Send(wp, "page") /\ Goto("done")
  /\ UNCHANGED <<loop, wp, table, pruneIn, member>>

Action(name) == Handler("action") /\ Len(wp.path) > 2 /\ wp.path[3] = name

NoAction ==
  /\ Handler("action") /\ ~Action("login") /\ ~Action("logout")
  /\ Send(wp, "404") /\ Goto("done")
  /\ UNCHANGED <<loop, wp, table, pruneIn, member>>

\* loginServiceProc, websLoginUser: the name goes into the session.
Login ==
  /\ Action("login") /\ verify(wp.ask.user, wp.encoded)
  /\ \E o \in GetSession :
       /\ Session(o, SetUser(o, wp.ask.user))
       /\ wp' = Verified(Holding(wp, o), wp.ask.user)
  /\ member' = [member EXCEPT ![wp.client] = wp.ask.user]
  /\ Goto("greet")
  /\ UNCHANGED <<loop, pruneIn, cookies, reply>>

\* Its "referrer", and the reply.
Greet ==
  /\ At("greet")
  /\ \E o \in GetSession :
       /\ Session(o, o.table)
       /\ wp' = Holding(wp, o)
       /\ Send(Holding(wp, o), Redirect(200, "ok"))
  /\ Goto("mark")
  /\ UNCHANGED <<loop, pruneIn, member>>

\* Its "loginStatus", after the reply.
Mark ==
  /\ At("mark")
  /\ \E o \in GetSession : Session(o, o.table) /\ wp' = Holding(wp, o)
  /\ Goto("done")
  /\ UNCHANGED <<loop, pruneIn, cookies, reply, member>>

\* A login that fails stores its "loginStatus" first.
LoginFails ==
  /\ Action("login") /\ ~verify(wp.ask.user, wp.encoded)
  /\ \E o \in GetSession :
       /\ Session(o, o.table)
       /\ wp' = Verified(Holding(wp, o), wp.ask.user)
       /\ Send(Holding(wp, o), Redirect(401, "login"))
  /\ Goto("done")
  /\ UNCHANGED <<loop, pruneIn, member>>

\* Mutated LoggedOut: the name stays in the session.
LoggedOutNot(o) == o.table

LoggedOut(o) == SetUser(o, NoUser)

\* logoutServiceProc.
Logout ==
  /\ Action("logout")
  /\ \E o \in GetSession :
       /\ Session(o, LoggedOut(o))
       /\ wp' = Holding(wp, o)
       /\ Send(Holding(wp, o),
               IF wp.ask.authType = "basic" THEN "401" ELSE Redirect(200, "ok"))
  /\ member' = [member EXCEPT ![wp.client] = NoUser]
  /\ Goto("done")
  /\ UNCHANGED <<loop, pruneIn>>

(***************************************************************************)
(* Between requests.                                                       *)
(***************************************************************************)

\* Mutated Expired: a session that expires now stays.
ExpiredBefore == {s \in DOMAIN sessions : sessions[s].left < 0}

Expired == {s \in DOMAIN sessions : sessions[s].left <= 0}

\* Mutated CountPruned: counts one for all.
CountPrunedOnce(gone) == sessionCount - (IF gone = {} THEN 0 ELSE 1)

CountPruned(gone) == sessionCount - Cardinality(gone)

\* Mutated RestartPrune: the event is not started again.
RestartPruneNot == pruneIn

RestartPrune == PruneTime

\* The thread is done with the request, and no request follows on the
\* connection before the connection is cleared.
Done ==
  /\ At("done")
  /\ Goto("idle") /\ i' = 1 /\ count' = 0 /\ wp' = NoRequest /\ reply' = "none"
  /\ UNCHANGED <<table, pruneIn, cookies, member>>

pruneCache ==
  /\ At("idle") /\ pruneIn = 0
  /\ sessions' = [s \in DOMAIN sessions \ Expired |-> sessions[s]]
  /\ sessionCount' = CountPruned(Expired)
  /\ pruneIn' = RestartPrune
  /\ UNCHANGED <<pc, loop, wp, cookies, reply, member, unstored>>

Tick ==
  /\ At("idle") /\ pruneIn > 0
  /\ pruneIn' = pruneIn - 1
  /\ sessions' = [s \in DOMAIN sessions |-> [sessions[s] EXCEPT !.left = @ - 1]]
  /\ UNCHANGED <<pc, loop, wp, sessionCount, cookies, reply, member, unstored>>

\* A client ends its own session.
Forget(c) ==
  /\ At("idle") /\ cookies[c] # NoId
  /\ cookies' = [cookies EXCEPT ![c] = NoId]
  /\ member' = [member EXCEPT ![c] = NoUser]
  /\ UNCHANGED <<pc, loop, wp, table, pruneIn, reply>>

websRouteRequest == Match \/ NoRoute
websAuthenticate == AuthNone \/ AuthCached \/ AuthWrongType \/ AuthRefused \/ AuthVerified
Handle ==
  \/ Can \/ Cannot \/ Continue \/ Test \/ File \/ NoAction
  \/ Login \/ Greet \/ Mark \/ LoginFails \/ Logout \/ Done

Thread == websRouteRequest \/ websAuthenticate \/ Handle

Next ==
  \/ Thread
  \/ \E c \in Clients, r \in Requests : Arrive(c, r)
  \/ \E c \in Clients : Forget(c)
  \/ pruneCache
  \/ Tick

Spec == Init /\ [][Next]_vars

\* A request is routed within one turn; time passes, and timers run.
FairSpec == Spec /\ WF_vars(Thread) /\ SF_vars(Tick) /\ SF_vars(pruneCache)

(***************************************************************************)
(* Properties.                                                             *)
(***************************************************************************)

\* The count that limits sessions is that of the table, but for those that
\* found no memory, which stay counted (websGetSession, pruneCache).
CountAccounts == sessionCount = Cardinality(DOMAIN sessions) + unstored

\* The smallest set that has the abilities of a user's roles, and with a
\* role its abilities, without the roles.
Holds(u) ==
  LET closed(S) ==
        /\ \A k \in DOMAIN Users[u] : Users[u][k] \in S
        /\ \A r \in S \cap DOMAIN Roles : \A k \in DOMAIN Roles[r] : Roles[r][k] \in S
  IN (CHOOSE S \in SUBSET Names :
        closed(S) /\ \A T \in SUBSET S : closed(T) => T = S) \ DOMAIN Roles
Held == UNION {{u} \X Holds(u) : u \in DOMAIN Users}

\* What ServedRight needs of the routes: a request that is rewritten is not
\* compared with the first route (websRouteRequest), and one whose login is
\* refused in silence is routed again with the name that was refused
\* (websAuthenticate).
Open(r) == r.auth = NoAuth /\ r.abilities = {}
FirstRouteSafe ==
  Len(Routes) > 0 => Open(Routes[1]) \/ ~Under(<<"/", "home">>, Routes[1].uri)
RedirectsComplete ==
  \A n \in DOMAIN Routes :
    Routes[n].auth # NoAuth => Routes[n].redirects = << >> \/ 401 \in DOMAIN Routes[n].redirects

\* What RefusedRight needs of them besides: the action handler is that of
\* /action.  And of the roles: none names itself through others, and with
\* height[r], the depth of what r names, computeAbilities enters all of it.
ActionPaths ==
  \A n \in DOMAIN Routes :
    Routes[n].handler = "action" => Len(Routes[n].uri) > 1 /\ Routes[n].uri[2] = "action"
RolesWithin(height) ==
  /\ height \in [Names -> 0 .. DepthMax]
  /\ \A r \in DOMAIN Roles : \A k \in DOMAIN Roles[r] : height[r] >= k + height[Roles[r][k]]

\* A handler serves a request only if all routes up to its own that match
\* the request are content: the client has logged in with this or an earlier
\* request, as a user with the abilities of the route, and has not logged
\* out since (websAuthenticate, websCan, logoutServiceProc, continueHandler).
Entitled(r) ==
  /\ r.auth # NoAuth => member[wp.client] # NoUser
  /\ {member[wp.client]} \X r.abilities \subseteq Held
ServedRight ==
  At("handler") => \A n \in 1 .. i : Matches(Routes[n]) => Entitled(Routes[n])

\* A client is sent to the login page only if its cookie stands for no
\* session in which somebody is logged in; and who is refused for want of
\* abilities does not have them.
RefusedRight ==
  At("done") =>
    /\ reply = "login" /\ wp.path[2] # "action" =>
         \/ wp.cookie \notin DOMAIN sessions
         \/ sessions[wp.cookie].user = NoUser
    /\ reply = "401" /\ route.handler # "action" /\ WhoAsks # NoUser =>
         \/ wp.ask.authType # NoType /\ ~wp.ask.good
         \/ ~({WhoAsks} \X route.abilities \subseteq Held)

\* No session in the table had expired when pruneCache last ran: none is
\* older, since it was last used, than its life and the time between two
\* prunings (websGetSession renews it, pruneCache deletes it).
SessionsBounded ==
  \A s \in DOMAIN sessions : sessions[s].left > pruneIn - PruneTime

\* Every request is routed to an end (continue, rewriting, redirections).
Answered == pc # "idle" ~> pc = "idle"

\* When no more requests come, no session stays (pruneCache starts its event
\* again).
Abandoned ==
  <>[][pc = "idle" => pc' = "idle"]_vars => <>[](DOMAIN sessions = {})
=============================================================================
