------------------------------- MODULE Config -------------------------------
(***************************************************************************)
(* The tables of routes, handlers, users and roles: how websLoad builds    *)
(* them from the lines of its files, how the calls of route.c and auth.c   *)
(* edit them while the server runs, and how gopass writes users and roles  *)
(* back.  A line is its kind and its options, in order; a value that       *)
(* addOption takes apart is the sequence of its parts.  A hash table is    *)
(* its handle, and its keys in the order in which they are walked; memory  *)
(* does not run out.                                                       *)
(***************************************************************************)
EXTENDS Integers, Sequences, SequencesExt, FiniteSets, TLC

CONSTANTS
  ROUTE_INCR,   \* entries the route table grows by (16)
  DepthMax,     \* depth where computeAbilities gives up (20)
  BuiltIn,      \* handlers that are defined before the files are loaded
  Files,        \* what websLoad finds first, as sequences of lines
  MoreFiles,    \* what it finds when it is called again
  Uris, UserNames, RoleNames, RoleLists, AbilityLists,   \* arguments of calls
  CallMax       \* calls in one behaviour

VARIABLES
  site,     \* the tables
  asked,    \* history: the prefixes in the order in which they were to stand
  fresh,    \* history: users whose abilities nobody has changed since they were computed
  calls

None == "none"     \* a null string
NoTable == -1
Junk == [prefix |-> "junk"]

Opened ==
  [routes |-> << >>, routeCount |-> 0, routeMax |-> 0,
   handlers |-> [h \in BuiltIn \cup {"continue", "redirect"} |-> "live"],
   users |-> << >>, roles |-> << >>, tables |-> << >>, fault |-> FALSE]

Without(f, x) == [y \in DOMAIN f \ {x} |-> f[y]]
Put(f, x, v) == (x :> v) @@ f

(***************************************************************************)
(* Hash tables.                                                            *)
(***************************************************************************)

NewHandle(s) == CHOOSE h \in 0 .. Cardinality(DOMAIN s.tables) :
  h \notin DOMAIN s.tables /\ \A k \in 0 .. h - 1 : k \in DOMAIN s.tables
hashCreate(s) == [s EXCEPT !.tables = Put(@, NewHandle(s), << >>)]
hashFree(s, h) ==
  IF h < 0 THEN s
  ELSE IF h \in DOMAIN s.tables THEN [s EXCEPT !.tables = Without(@, h)]
  ELSE [s EXCEPT !.fault = TRUE]
\* One after the other.
FreeAll(s, handles) ==
  LET freed[k \in 0 .. Len(handles)] == IF k = 0 THEN s ELSE hashFree(freed[k - 1], handles[k])
  IN freed[Len(handles)]

Keys(table) == {table[k].key : k \in DOMAIN table}
hashEnter(table, key, value) ==
  IF key \in Keys(table)
  THEN [k \in DOMAIN table |-> IF table[k].key = key THEN [key |-> key, value |-> value] ELSE table[k]]
  ELSE Append(table, [key |-> key, value |-> value])

\* addOption, for the table *hash: a new one if there is none.
addOption(s, hash, keys, value) ==
  LET h == IF hash < 0 THEN NewHandle(s) ELSE hash
      t == IF hash < 0 THEN hashCreate(s) ELSE s
      entered[k \in 0 .. Len(keys)] ==
        IF k = 0 THEN t.tables[h]
        ELSE IF keys[k] = "none" THEN entered[k - 1] ELSE hashEnter(entered[k - 1], keys[k], value)
  IN [site |-> [t EXCEPT !.tables[h] = entered[Len(keys)]], table |-> h]

(***************************************************************************)
(* Routes.                                                                 *)
(***************************************************************************)

growRoutes(s) ==
  IF s.routeCount < s.routeMax THEN s
  ELSE [s EXCEPT !.routeMax = @ + ROUTE_INCR,
                 !.routes = [k \in 0 .. s.routeMax + ROUTE_INCR - 1 |->
                               IF k < s.routeMax THEN @[k] ELSE Junk]]

NewRoute(uri, handler) ==
  [prefix |-> uri, handler |-> handler, auth |-> None, dir |-> None, protocol |-> None,
   abilities |-> NoTable, extensions |-> NoTable, methods |-> NoTable, redirects |-> NoTable]

\* The memory of websAddRoute's memmove: the routes from pos on stand one
\* place further.  Callers insert at 0 only, where no byte too many moves.
Shifted(s, pos) ==
  [k \in DOMAIN s.routes |-> IF k > pos /\ k <= s.routeCount THEN s.routes[k - 1] ELSE s.routes[k]]

Defined(handler) == IF handler = None THEN "file" ELSE handler
Addable(s, uri, handler) == uri # None /\ Defined(handler) \in DOMAIN s.handlers
Position(s, pos) == IF pos < 0 THEN s.routeCount ELSE pos

websAddRoute(s, route, pos) ==
  LET t == growRoutes(s)
      p == Position(s, pos)
  IN [t EXCEPT !.routes = [Shifted(t, p) EXCEPT ![p] = route], !.routeCount = @ + 1]

\* smatch, for the first route of this very prefix.
lookupRoute(s, uri) ==
  LET same == {k \in 0 .. s.routeCount - 1 : s.routes[k].prefix = uri}
  IN IF same = {} THEN -1 ELSE CHOOSE k \in same : \A n \in same : k <= n

\* The handler goes too, though other routes and the table of handlers have it.
freeRoute(s, route) ==
  LET t == FreeAll(s, <<route.abilities, route.extensions, route.methods, route.redirects>>)
  IN [t EXCEPT !.handlers[route.handler] = "freed"]

\* The last entry moves down too, read from behind the array when that is full.
websRemoveRoute(s, uri) ==
  LET i == lookupRoute(s, uri)
      t == freeRoute(s, s.routes[i])
  IN IF i < 0 THEN s
     ELSE [t EXCEPT !.routes = [k \in DOMAIN @ |->
                                  IF k < i \/ k >= t.routeCount THEN @[k]
                                  ELSE IF k + 1 < t.routeMax THEN @[k + 1] ELSE Junk],
                    !.routeCount = @ - 1]

websDefineHandler(s, name) == [s EXCEPT !.handlers = Put(@, name, "live")]

(***************************************************************************)
(* Users and roles.                                                        *)
(***************************************************************************)

RoleKeys(s, role) ==
  LET table == s.tables[s.roles[role]] IN [k \in DOMAIN table |-> table[k].key]

\* What computeAbilities enters, n levels above the deepest (see Access).
computeAbilities(s, name) ==
  LET Names == {name} \cup DOMAIN s.roles \cup UNION {Range(RoleKeys(s, r)) : r \in DOMAIN s.roles}
      compute[n \in 0 .. DepthMax] ==
        [role \in Names |->
           IF role \in DOMAIN s.roles
           THEN UNION {IF k <= n THEN compute[n - k][RoleKeys(s, role)[k]] ELSE {} :
                         k \in DOMAIN RoleKeys(s, role)}
           ELSE {role}]
  IN compute[DepthMax][name]

\* The table that the user had before is not freed.
computeUserAbilities(s, user) ==
  LET abilities == UNION {computeAbilities(s, s.users[user].roles[k]) : k \in DOMAIN s.users[user].roles}
      made == addOption(s, NoTable, SetToSeq(abilities), 0)
  IN [made.site EXCEPT !.users[user].abilities = made.table]
websComputeAllUserAbilities(s) ==
  LET names == SetToSeq(DOMAIN s.users)
      computed[k \in 0 .. Len(names)] ==
        IF k = 0 THEN s ELSE computeUserAbilities(computed[k - 1], names[k])
  IN computed[Len(names)]

websAddUser(s, name, password, roles) ==
  [s EXCEPT !.users = Put(@, name, [password |-> password, roles |-> roles, abilities |-> NoTable])]
websRemoveUser(s, name) ==
  IF name \notin DOMAIN s.users THEN s
  ELSE [hashFree(s, s.users[name].abilities) EXCEPT !.users = Without(@, name)]
websSetUserRoles(s, name, roles) ==
  IF name \notin DOMAIN s.users THEN s
  ELSE computeUserAbilities([s EXCEPT !.users[name].roles = roles], name)
websAddRole(s, name, abilities) == [s EXCEPT !.roles = Put(@, name, abilities)]
websRemoveRole(s, name) ==
  IF name \notin DOMAIN s.roles THEN s
  ELSE [hashFree(s, s.roles[name]) EXCEPT !.roles = Without(@, name)]

\* websCloseAuth, websCloseRoute and opening again: the tables of routes stay.
websClose(s) ==
  LET users == SetToSeq(DOMAIN s.users)
      roles == SetToSeq(DOMAIN s.roles)
      t == FreeAll(s, [k \in DOMAIN users |-> s.users[users[k]].abilities]
                      \o [k \in DOMAIN roles |-> s.roles[roles[k]]])
  IN [Opened EXCEPT !.tables = t.tables, !.fault = t.fault]

(***************************************************************************)
(* websLoad.                                                               *)
(***************************************************************************)

Option(key, value) == [key |-> key, value |-> value]
Lists == {"abilities", "extensions", "methods"}

\* The options of a line so far, and the tables that were made for them.
TakeOption(o, option) ==
  CASE option.key \in Lists ->
         LET a == addOption(o.site, o[option.key], option.value, 0)
         IN [o EXCEPT !.site = a.site, ![option.key] = a.table]
    [] option.key = "redirect" ->
         LET status == IF option.value.status \in {<< >>, <<"*">>} THEN <<"0">> ELSE option.value.status
             a == addOption(o.site, o.redirects, status,
                            IF option.value.uri \in {"http", "https"} THEN option.value.uri \o "://"
                            ELSE option.value.uri)
         IN [o EXCEPT !.site = a.site, !.redirects = a.table]
    [] option.key \in {"auth", "dir", "handler", "protocol", "uri", "name", "password", "roles"} ->
         [o EXCEPT ![option.key] = option.value]
    [] OTHER -> o
NoOptions(s) ==
  [site |-> s, uri |-> None, handler |-> None, auth |-> None, dir |-> None, protocol |-> None,
   abilities |-> NoTable, extensions |-> NoTable, methods |-> NoTable, redirects |-> NoTable,
   name |-> None, password |-> None, roles |-> << >>]

\* websSetRouteAuth knows basic and digest; any other name is the empty one.
AuthType(auth) == IF auth \in {None, "basic", "digest"} THEN auth ELSE ""

\* The route of a line, with what websSetRouteMatch gives it.
RouteOf(o) ==
  [prefix |-> o.uri, handler |-> Defined(o.handler), auth |-> AuthType(o.auth), dir |-> o.dir,
   protocol |-> o.protocol, abilities |-> o.abilities, extensions |-> o.extensions,
   methods |-> o.methods, redirects |-> o.redirects]

TakeOptions(s, options) ==
  LET taken[k \in 0 .. Len(options)] ==
        IF k = 0 THEN NoOptions(s) ELSE TakeOption(taken[k - 1], options[k])
  IN taken[Len(options)]

\* One turn of the loop: p.rc is -1 once a line was refused.
LoadLine(p, line) ==
  LET o == TakeOptions(p.site, line.options)
      refused == [site |-> o.site, rc |-> -1]
      accepted(s) == [site |-> s, rc |-> 0]
  IN CASE p.rc < 0 \/ line.kind = "#" -> p
       [] p.rc = 0 /\ line.kind = "route" ->
            IF Addable(o.site, o.uri, o.handler) THEN accepted(websAddRoute(o.site, RouteOf(o), -1))
            ELSE refused
       [] p.rc = 0 /\ line.kind = "user" ->
            IF o.name # None /\ o.name \notin DOMAIN o.site.users
            THEN accepted(websAddUser(o.site, o.name, o.password, o.roles)) ELSE refused
       [] p.rc = 0 /\ line.kind = "role" ->
            IF o.name # None /\ o.name \notin DOMAIN o.site.roles
            THEN accepted(websAddRole(o.site, o.name, o.abilities)) ELSE refused
       [] OTHER -> [p EXCEPT !.rc = -1]

websLoad(s, lines) ==
  LET loaded[k \in 0 .. Len(lines)] ==
        IF k = 0 THEN [site |-> s, rc |-> 0] ELSE LoadLine(loaded[k - 1], lines[k])
  IN [loaded[Len(lines)] EXCEPT !.site = websComputeAllUserAbilities(@)]

\* writeAuthFile of gopass: the lines it writes.
writeAuthFile(s) ==
  [k \in 1 .. Cardinality(DOMAIN s.roles) |->
     LET role == SetToSeq(DOMAIN s.roles)[k]
     IN [kind |-> "role", options |-> <<Option("name", role), Option("abilities", RoleKeys(s, role))>>]]
  \o
  [k \in 1 .. Cardinality(DOMAIN s.users) |->
     LET user == SetToSeq(DOMAIN s.users)[k]
     IN [kind |-> "user", options |-> <<Option("name", user), Option("password", s.users[user].password),
                                        Option("roles", s.users[user].roles)>>]]

----------------------------------------------------------------------------
ConfigInit == site = Opened /\ asked = << >> /\ fresh = {} /\ calls = 0

\* The prefixes of the lines that websLoad has come to, one for each route.
Loaded(s, p) ==
  [k \in 1 .. p.site.routeCount - s.routeCount |-> p.site.routes[s.routeCount + k - 1].prefix]
RouteUris(lines) ==
  LET routes == SelectSeq(lines, LAMBDA line : line.kind = "route")
  IN [k \in DOMAIN routes |->
        LET uris == SelectSeq(routes[k].options, LAMBDA option : option.key = "uri")
        IN uris[Len(uris)].value]

Load == \E lines \in IF calls = 0 THEN Files ELSE MoreFiles :
  LET p == websLoad(site, lines)
  IN /\ site' = p.site
     /\ asked' = IF p.rc = 0 THEN asked \o RouteUris(lines) ELSE asked \o Loaded(site, p)
     /\ fresh' = DOMAIN p.site.users
AddRoute == \E uri \in Uris, pos \in {-1, 0} :
  /\ site' = websAddRoute(site, NewRoute(uri, "file"), pos)
  /\ asked' = IF pos < 0 THEN Append(asked, uri) ELSE <<uri>> \o asked
  /\ UNCHANGED fresh
RemoveRoute == \E uri \in Uris :
  /\ site' = websRemoveRoute(site, uri)
  /\ asked' = LET same == {k \in DOMAIN asked : asked[k] = uri}
              IN IF same = {} THEN asked
                 ELSE RemoveAt(asked, CHOOSE k \in same : \A n \in same : k <= n)
  /\ UNCHANGED fresh
DefineHandler ==
  site' = websDefineHandler(site, "legacy") /\ UNCHANGED <<asked, fresh>>
AddUser == \E name \in UserNames, roles \in RoleLists :
  /\ name \notin DOMAIN site.users
  /\ site' = websAddUser(site, name, "secret", roles) /\ UNCHANGED <<asked, fresh>>
RemoveUser == \E name \in UserNames :
  site' = websRemoveUser(site, name) /\ fresh' = fresh \ {name} /\ UNCHANGED asked
SetUserRoles == \E name \in UserNames, roles \in RoleLists :
  /\ site' = websSetUserRoles(site, name, roles)
  /\ fresh' = fresh \cup ({name} \cap DOMAIN site.users) /\ UNCHANGED asked
\* The caller makes the table.
AddRole == \E name \in RoleNames, abilities \in AbilityLists :
  LET a == addOption(site, NoTable, abilities, 0)
  IN /\ name \notin DOMAIN site.roles
     /\ site' = websAddRole(a.site, name, a.table) /\ fresh' = {} /\ UNCHANGED asked
RemoveRole == \E name \in RoleNames :
  site' = websRemoveRole(site, name) /\ fresh' = {} /\ UNCHANGED asked
Close == site' = websClose(site) /\ asked' = << >> /\ fresh' = {}

ConfigNext ==
  /\ calls < CallMax /\ calls' = calls + 1
  /\ \/ Load \/ AddRoute \/ RemoveRoute \/ DefineHandler
     \/ AddUser \/ RemoveUser \/ SetUserRoles \/ AddRole \/ RemoveRole \/ Close

----------------------------------------------------------------------------
RouteAt(k) == site.routes[k - 1]

\* Requests are matched with the routes in the order that was asked for.
RoutesInOrder == [k \in 1 .. site.routeCount |-> RouteAt(k).prefix] = asked

\* Nobody frees a table that is not open, or that somebody else has.
OwnedTables ==
  [k \in {<<"route", n, field>> : n \in 1 .. site.routeCount,
                                  field \in {"abilities", "extensions", "methods", "redirects"}}
         \cup {<<"user", u, "">> : u \in DOMAIN site.users}
         \cup {<<"role", r, "">> : r \in DOMAIN site.roles} |->
     CASE k[1] = "route" -> RouteAt(k[2])[k[3]]
       [] k[1] = "user" -> site.users[k[2]].abilities
       [] k[1] = "role" -> site.roles[k[2]]]
TablesOwned ==
  /\ ~ site.fault
  /\ \A k \in DOMAIN OwnedTables : OwnedTables[k] \in DOMAIN site.tables \cup {NoTable}
  /\ \A k, n \in DOMAIN OwnedTables : k # n /\ OwnedTables[k] # NoTable => OwnedTables[k] # OwnedTables[n]

\* A user has the abilities of its roles, and of the roles these contain,
\* whatever the order in which users and roles were named.
Holds(u) ==
  LET names == UNION ({Range(site.users[u].roles)} \cup {Range(RoleKeys(site, r)) : r \in DOMAIN site.roles})
      closed(S) ==
        /\ Range(site.users[u].roles) \subseteq S
        /\ \A r \in S \cap DOMAIN site.roles : Range(RoleKeys(site, r)) \subseteq S
  IN (CHOOSE S \in SUBSET names : closed(S) /\ \A T \in SUBSET S : closed(T) => T = S) \ DOMAIN site.roles
AbilitiesRight == \A u \in fresh : Keys(site.tables[site.users[u].abilities]) = Holds(u)

\* What gopass writes, websLoad reads back.
WrittenBack ==
  LET p == websLoad(Opened, writeAuthFile(site))
      people(s) == [u \in DOMAIN s.users |-> <<s.users[u].password, s.users[u].roles>>]
      parts(s) == [r \in DOMAIN s.roles |-> Range(RoleKeys(s, r))]
  IN p.rc = 0 /\ people(p.site) = people(site) /\ parts(p.site) = parts(site)
=============================================================================
