---------------------------- MODULE Access_proofs ----------------------------
(***************************************************************************)
(* Proofs about Access: its types, the account of sessions, how old a      *)
(* session in the table may be, that only those are served who are         *)
(* entitled to it, and that only others are refused.                       *)
(***************************************************************************)
EXTENDS Access, FiniteSetTheorems, WellFoundedInduction, TLAPS

(***************************************************************************)
(* The inductive invariant.                                                *)
(***************************************************************************)

Who == DOMAIN Users \cup {NoUser}
Asked == {r.user : r \in Requests}
WebsType ==
  [client : Clients, ask : Requests,
   path : {r.path : r \in Requests} \cup {<< >>, <<"/", "home">>},
   cookie : Ids \cup {NoId}, username : Who \cup Asked, user : Who, encoded : BOOLEAN,
   session : Ids \cup {NoId, Lost}, setCookie : Ids \cup {NoId}]

\* The table and its account.
TableInv ==
  /\ DOMAIN sessions \subseteq Ids
  /\ sessions \in [DOMAIN sessions -> [user : Who, left : Int]]
  /\ sessionCount \in 0 .. SessionMax + 1 /\ unstored \in Nat
  /\ CountAccounts
  /\ pruneIn \in 0 .. PruneTime
  /\ SessionsBounded

\* The loop of websRouteRequest: a route that is looked at is in the table,
\* and routing goes on only below the limit of rewritings.
LoopInv ==
  /\ pc \in {"idle", "match", "auth", "can", "handler", "greet", "mark", "done"}
  /\ i \in 1 .. Len(Routes) + 1 /\ count \in 0 .. RouteMax
  /\ pc \in {"auth", "can", "handler", "greet", "mark"} => i \in 1 .. Len(Routes)
  /\ pc # "done" => count < RouteMax

WebsInv ==
  /\ wp \in WebsType
  /\ cookies \in [Clients -> Ids \cup {NoId}]
  /\ member \in [Clients -> Who]
  /\ reply \in Code

AccessInv == TableInv /\ LoopInv /\ WebsInv

LEMMA InvImplies == AccessInv => TypeOK /\ CountAccounts /\ SessionsBounded
<1>1. ASSUME AccessInv PROVE TypeOK
  BY <1>1 DEF AccessInv, TableInv, LoopInv, WebsInv, WebsType, TypeOK, Who, Asked
<1>2. QED BY <1>1 DEF AccessInv, TableInv

LEMMA IdsFinite ==
  IsFiniteSet(Ids) /\ Cardinality(Ids) = SessionMax + Cardinality(Clients) + 3
<1> DEFINE top == SessionMax + Cardinality(Clients) + 3
<1>1. Cardinality(Clients) \in Nat /\ SessionMax \in Nat
  BY AccessAssumption, FS_CardinalityType
<1>2. top \in Int /\ 1 \in Int /\ top - 1 + 1 = top /\ ~(1 > top)
  BY <1>1
<1>3. Ids = 1 .. top
  BY DEF Ids
<1> HIDE DEF top
<1>4. IsFiniteSet(1 .. top) /\ Cardinality(1 .. top) = IF 1 > top THEN 0 ELSE top - 1 + 1
  BY <1>2, FS_Interval
<1>5. QED BY <1>2, <1>3, <1>4 DEF top

LEMMA TableFinite ==
  ASSUME TableInv
  PROVE  IsFiniteSet(DOMAIN sessions) /\ Cardinality(DOMAIN sessions) \in Nat
BY IdsFinite, FS_Subset, FS_CardinalityType DEF TableInv

LEMMA InitInv == Init => AccessInv
<1> SUFFICES ASSUME Init PROVE AccessInv
  OBVIOUS
<1> USE DEF Init
<1>1. TableInv
  <2>1. DOMAIN sessions = {} /\ Cardinality({}) = 0
    BY FS_EmptySet
  <2>2. sessions \in [DOMAIN sessions -> [user : Who, left : Int]]
    BY <2>1
  <2>3. SessionMax \in Nat /\ PruneTime \in Nat
    BY AccessAssumption
  <2>4. CountAccounts
    BY <2>1 DEF CountAccounts
  <2>5. SessionsBounded
    BY <2>1 DEF SessionsBounded
  <2>6. QED BY <2>1, <2>2, <2>3, <2>4, <2>5 DEF TableInv
<1>2. LoopInv
  BY AccessAssumption DEF LoopInv
<1>3. WebsInv
  <2>1. NoRequest \in WebsType
    BY AccessAssumption DEF NoRequest, WebsType, Who
  <2>2. QED BY <2>1 DEF WebsInv, Who, Code
<1>4. QED BY <1>1, <1>2, <1>3 DEF AccessInv

(***************************************************************************)
(* Sessions.                                                               *)
(***************************************************************************)

\* An id that no session and no client has: there are more ids than sessions
\* and clients.
LEMMA FreshId ==
  ASSUME TableInv, WebsInv, ~Full
  PROVE  \E id \in Ids : id \notin DOMAIN sessions /\ \A c \in Clients : cookies[c] # id
<1> DEFINE Sent == {cookies[c] : c \in Clients}
           Taken == DOMAIN sessions \cup Sent
<1>1. cookies \in Surjection(Clients, Sent)
  <2>1. cookies \in [Clients -> Sent]
    BY DEF WebsInv
  <2>2. QED BY <2>1 DEF Surjection
<1>2. IsFiniteSet(Sent) /\ Cardinality(Sent) <= Cardinality(Clients)
  BY <1>1, AccessAssumption, FS_Surjection
<1>3. IsFiniteSet(DOMAIN sessions) /\ Cardinality(DOMAIN sessions) <= SessionMax
  <2>1. Cardinality(DOMAIN sessions) \in Nat
    BY TableFinite
  <2>2. QED BY <2>1, TableFinite, AccessAssumption DEF TableInv, CountAccounts, Full
<1>4. /\ IsFiniteSet(Taken)
      /\ Cardinality(Taken) = Cardinality(DOMAIN sessions) + Cardinality(Sent)
                              - Cardinality(DOMAIN sessions \cap Sent)
  BY <1>2, <1>3, FS_Union
<1>5. Cardinality(DOMAIN sessions \cap Sent) \in Nat
  <2>1. IsFiniteSet(DOMAIN sessions \cap Sent)
    BY <1>3, FS_Subset
  <2>2. QED BY <2>1, FS_CardinalityType
<1>6. /\ Cardinality(Taken) \in Nat /\ Cardinality(Sent) \in Nat
      /\ Cardinality(DOMAIN sessions) \in Nat /\ Cardinality(Clients) \in Nat
  BY <1>2, <1>3, <1>4, AccessAssumption, FS_CardinalityType
<1>7. SessionMax \in Nat
  BY AccessAssumption
<1>8. Cardinality(Taken) < Cardinality(Ids)
  BY <1>2, <1>3, <1>4, <1>5, <1>6, <1>7, IdsFinite
<1>9. ~(Ids \subseteq Taken)
  <2>1. SUFFICES ASSUME Ids \subseteq Taken PROVE FALSE
    OBVIOUS
  <2>2. Cardinality(Ids) <= Cardinality(Taken)
    BY <1>4, <2>1, FS_Subset
  <2>3. Cardinality(Ids) \in Nat
    BY IdsFinite, FS_CardinalityType
  <2>4. QED BY <1>6, <1>8, <2>2, <2>3
<1>10. QED BY <1>9

\* A session that is made has an id of its own.
LEMMA NewIdFresh ==
  ASSUME TableInv, WebsInv, ~Full, Known = NoId
  PROVE  NewId \in Ids /\ NewId \notin DOMAIN sessions /\ NewId # NoId
<1>1. wp.session = NoId
  BY DEF Known
<1>2. NoId \notin Ids
  <2>1. SessionMax + Cardinality(Clients) + 3 \in Int
    BY IdsFinite, AccessAssumption, FS_CardinalityType
  <2>2. QED BY <2>1 DEF NoId, Ids
<1>3. CASE wp.cookie # NoId
  <2>1. wp.cookie \in Ids
    BY <1>3 DEF WebsInv, WebsType
  <2>2. wp.cookie \notin DOMAIN sessions
    BY <1>1, <1>3 DEF Known
  <2>3. QED BY <1>3, <2>1, <2>2 DEF NewId
<1>4. CASE wp.cookie = NoId
  <2>1. /\ NewId \in Ids /\ NewId \notin DOMAIN sessions
        /\ \A c \in Clients : cookies[c] # NewId
    BY <1>4, FreshId DEF NewId
  <2>2. QED BY <1>2, <2>1
<1>5. QED BY <1>3, <1>4

\* A table like the one there is, for which the properties hold.
Tables == {t \in UNION {[D -> [user : Who, left : Int]] : D \in SUBSET Ids} :
             \A s \in DOMAIN t : t[s].left > pruneIn - PruneTime}

LEMMA SessionsTable == TableInv => sessions \in Tables
BY DEF TableInv, Tables, SessionsBounded

\* What is made or renewed has its whole life before it.
LEMMA LifeLong ==
  ASSUME TableInv
  PROVE  NewSession \in [user : Who, left : Int] /\ Life > pruneIn - PruneTime
BY AccessAssumption DEF TableInv, NewSession, Who

LEMMA RenewedTable ==
  ASSUME TableInv, NEW id
  PROVE  Renewed(id) \in Tables /\ DOMAIN Renewed(id) = DOMAIN sessions
<1>1. Life \in Int /\ Life > pruneIn - PruneTime
  BY LifeLong, AccessAssumption
<1>2. CASE id \in DOMAIN sessions
  <2> DEFINE t == [sessions EXCEPT ![id].left = Life]
  <2>1. Renewed(id) = t
    BY <1>2 DEF Renewed
  <2>2. t \in [DOMAIN sessions -> [user : Who, left : Int]]
    BY <1>1, <1>2 DEF TableInv
  <2>3. \A s \in DOMAIN sessions : t[s].left = IF s = id THEN Life ELSE sessions[s].left
    BY <1>2 DEF TableInv
  <2>4. \A s \in DOMAIN t : t[s].left > pruneIn - PruneTime
    BY <1>1, <2>2, <2>3 DEF TableInv, SessionsBounded
  <2>5. QED BY <2>1, <2>2, <2>4 DEF Tables, TableInv
<1>3. CASE id \notin DOMAIN sessions
  BY <1>3, SessionsTable DEF Renewed
<1>4. QED BY <1>2, <1>3

LEMMA SetUserTable ==
  ASSUME NEW o, o.table \in Tables, NEW user \in Who
  PROVE  SetUser(o, user) \in Tables /\ DOMAIN SetUser(o, user) = DOMAIN o.table
<1>1. CASE o.session \in DOMAIN o.table
  <2> DEFINE t == [o.table EXCEPT ![o.session].user = user]
  <2>1. PICK D \in SUBSET Ids : o.table \in [D -> [user : Who, left : Int]]
    BY DEF Tables
  <2>2. t \in [D -> [user : Who, left : Int]]
    BY <1>1, <2>1
  <2>3. \A s \in D : t[s].left = o.table[s].left
    BY <1>1, <2>1
  <2>4. t \in Tables /\ DOMAIN t = DOMAIN o.table
    BY <2>1, <2>2, <2>3 DEF Tables
  <2>5. QED BY <1>1, <2>4 DEF SetUser
<1>2. CASE o.session \notin DOMAIN o.table
  BY <1>2 DEF SetUser
<1>3. QED BY <1>1, <1>2

LEMMA MadeTable ==
  ASSUME TableInv, NEW id \in Ids, id \notin DOMAIN sessions
  PROVE  /\ Made(id) \in Tables
         /\ DOMAIN Made(id) = DOMAIN sessions \cup {id}
<1> DEFINE t == Made(id)
<1>1. /\ DOMAIN t = DOMAIN sessions \cup {id}
      /\ \A s \in DOMAIN t : t[s] = IF s = id THEN NewSession ELSE sessions[s]
      /\ t = [s \in DOMAIN t |-> t[s]]
  BY DEF Made
<1>2. \A s \in DOMAIN t : t[s] \in [user : Who, left : Int] /\ t[s].left > pruneIn - PruneTime
  BY <1>1, LifeLong DEF TableInv, SessionsBounded, NewSession
<1>3. t \in [DOMAIN t -> [user : Who, left : Int]] /\ DOMAIN t \subseteq Ids
  BY <1>1, <1>2 DEF TableInv
<1>4. QED BY <1>1, <1>2, <1>3 DEF Tables

\* What websGetSession may leave behind.
Outcomes ==
  {o \in [session : Ids \cup {NoId, Lost}, table : Tables, counted : {0, 1}, cookie : Ids \cup {NoId}] :
     \/ o.counted = 0 /\ DOMAIN o.table = DOMAIN sessions
     \/ /\ o.counted = 1 /\ sessionCount <= SessionMax
        /\ DOMAIN o.table = DOMAIN sessions \/ o.session \in DOMAIN o.table
        /\ DOMAIN o.table = DOMAIN sessions => o.session \notin DOMAIN sessions
        /\ o.session \in DOMAIN o.table =>
             o.session \notin DOMAIN sessions /\ DOMAIN o.table = DOMAIN sessions \cup {o.session}}

LEMMA SessionOutcome ==
  ASSUME TableInv, WebsInv, NEW o \in GetSession
  PROVE  o \in Outcomes
<1>1. NoId \notin Ids /\ Lost \notin Ids
  <2>1. SessionMax + Cardinality(Clients) + 3 \in Int
    BY IdsFinite, AccessAssumption, FS_CardinalityType
  <2>2. QED BY <2>1 DEF NoId, Lost, Ids
<1>2. Known \in Ids \cup {NoId, Lost}
  BY DEF Known, WebsInv, WebsType, TableInv
<1>3. CASE Known # NoId
  <2>1. o = [session |-> Known, table |-> Renewed(Known), counted |-> 0, cookie |-> NoId]
    BY <1>3 DEF GetSession
  <2>2. QED BY <1>2, <2>1, RenewedTable DEF Outcomes
<1>4. CASE Known = NoId /\ Full
  <2>1. o = [session |-> NoId, table |-> sessions, counted |-> 0, cookie |-> NoId]
    BY <1>4 DEF GetSession
  <2>2. QED BY <2>1, SessionsTable DEF Outcomes
<1>5. CASE Known = NoId /\ ~Full
  <2>1. sessionCount <= SessionMax
    BY <1>5, AccessAssumption DEF Full, TableInv
  <2>2. CASE o = [session |-> NewId, table |-> Made(NewId),
                  counted |-> 1, cookie |-> NewId]
    <3>1. NewId \in Ids /\ NewId \notin DOMAIN sessions
      BY <1>5, NewIdFresh
    <3> DEFINE t == Made(NewId)
    <3>2. t \in Tables /\ DOMAIN t = DOMAIN sessions \cup {NewId}
      BY <3>1, MadeTable
    <3> HIDE DEF t
    <3>3. o = [session |-> NewId, table |-> t, counted |-> 1, cookie |-> NewId]
      BY <2>2 DEF t
    <3>4. QED BY <2>1, <3>1, <3>2, <3>3 DEF Outcomes
  <2>3. CASE \E s \in {NoId, Lost} : o = [session |-> s, table |-> sessions, counted |-> 1, cookie |-> NoId]
    <3>1. NoId \notin DOMAIN sessions /\ Lost \notin DOMAIN sessions
      BY <1>1 DEF TableInv
    <3>2. QED BY <2>1, <2>3, <3>1, SessionsTable DEF Outcomes
  <2>4. QED BY <1>5, <2>2, <2>3 DEF GetSession
<1>6. QED BY <1>3, <1>4, <1>5

\* A table with the same sessions, renewed or with other users.
LEMMA SameSessions ==
  ASSUME TableInv, NEW t \in Tables, DOMAIN t = DOMAIN sessions, sessions' = t,
         UNCHANGED <<sessionCount, unstored, pruneIn>>
  PROVE  TableInv'
BY DEF TableInv, Tables, CountAccounts, SessionsBounded

LEMMA SessionKeeps ==
  ASSUME TableInv, WebsInv, NEW o \in GetSession, NEW t \in Tables, DOMAIN t = DOMAIN o.table,
         Session(o, t), pruneIn' = pruneIn
  PROVE  TableInv'
<1>1. o \in Outcomes
  BY SessionOutcome
<1>2. /\ sessions' = t /\ sessionCount' = sessionCount + o.counted
      /\ unstored' = unstored + (IF o.session \in DOMAIN t THEN 0 ELSE o.counted)
  BY DEF Session
<1>3. sessionCount \in 0 .. SessionMax + 1 /\ unstored \in Nat /\ SessionMax \in Nat
  BY AccessAssumption DEF TableInv
<1>4. /\ sessionCount' \in 0 .. SessionMax + 1 /\ unstored' \in Nat
      /\ sessionCount' = Cardinality(DOMAIN t) + unstored'
  <2>1. CASE o.counted = 0
    <3>1. DOMAIN t = DOMAIN sessions
      BY <1>1, <2>1 DEF Outcomes
    <3>2. sessionCount' = sessionCount /\ unstored' = unstored
      BY <1>2, <1>3, <2>1
    <3>3. QED BY <1>3, <3>1, <3>2 DEF TableInv, CountAccounts
  <2>2. CASE o.counted = 1 /\ o.session \in DOMAIN t
    <3>1. /\ o.session \notin DOMAIN sessions /\ sessionCount <= SessionMax
          /\ DOMAIN t = DOMAIN sessions \cup {o.session}
      BY <1>1, <2>2 DEF Outcomes
    <3>2. Cardinality(DOMAIN t) = Cardinality(DOMAIN sessions) + 1
      BY <3>1, TableFinite, FS_AddElement
    <3>3. sessionCount' = sessionCount + 1 /\ unstored' = unstored
      BY <1>2, <1>3, <2>2
    <3>4. QED BY <1>3, <3>1, <3>2, <3>3, TableFinite DEF TableInv, CountAccounts
  <2>3. CASE o.counted = 1 /\ o.session \notin DOMAIN t
    <3>1. DOMAIN t = DOMAIN sessions /\ sessionCount <= SessionMax
      BY <1>1, <2>3 DEF Outcomes
    <3>2. sessionCount' = sessionCount + 1 /\ unstored' = unstored + 1
      BY <1>2, <1>3, <2>3
    <3>3. QED BY <1>3, <3>1, <3>2, TableFinite DEF TableInv, CountAccounts
  <2>4. o.counted \in {0, 1}
    BY <1>1 DEF Outcomes
  <2>5. QED BY <2>1, <2>2, <2>3, <2>4
<1>5. /\ DOMAIN t \subseteq Ids /\ t \in [DOMAIN t -> [user : Who, left : Int]]
      /\ \A s \in DOMAIN t : t[s].left > pruneIn - PruneTime
  BY DEF Tables
<1>6. QED BY <1>2, <1>4, <1>5 DEF TableInv, CountAccounts, SessionsBounded

\* Calls of websGetSession that leave the user alone, or set it.
LEMMA PlainSession ==
  ASSUME TableInv, WebsInv, NEW o \in GetSession, Session(o, o.table), pruneIn' = pruneIn
  PROVE  TableInv'
<1>1. o.table \in Tables
  BY SessionOutcome DEF Outcomes
<1>2. QED BY <1>1, SessionKeeps

LEMMA UserSession ==
  ASSUME TableInv, WebsInv, NEW o \in GetSession, NEW user \in Who,
         Session(o, SetUser(o, user)), pruneIn' = pruneIn
  PROVE  TableInv'
<1>1. o.table \in Tables
  BY SessionOutcome DEF Outcomes
<1>2. SetUser(o, user) \in Tables /\ DOMAIN SetUser(o, user) = DOMAIN o.table
  BY <1>1, SetUserTable
<1>3. QED BY <1>2, SessionKeeps

\* websAuthenticate renews the session it looks at.
LEMMA LookedUpKeeps ==
  ASSUME TableInv, LookedUp, pruneIn' = pruneIn
  PROVE  TableInv'
<1>1. sessions' \in Tables /\ DOMAIN sessions' = DOMAIN sessions
  BY RenewedTable, SessionsTable DEF LookedUp
<1>2. UNCHANGED <<sessionCount, unstored, pruneIn>>
  BY DEF LookedUp
<1>3. QED BY <1>1, <1>2, SameSessions

(***************************************************************************)
(* The request and the replies.                                            *)
(***************************************************************************)

LEMMA KnownType ==
  ASSUME TableInv, WebsInv
  PROVE  Known \in Ids \cup {NoId, Lost}
BY DEF Known, WebsInv, WebsType, TableInv

LEMMA LookedType ==
  ASSUME TableInv, WebsInv
  PROVE  Looked \in WebsType
<1>1. [wp EXCEPT !.session = Known] \in WebsType
  BY KnownType DEF WebsInv, WebsType
<1>2. QED BY <1>1 DEF Looked, WebsInv

LEMMA CachedUserType ==
  ASSUME TableInv
  PROVE  CachedUser \in Who
BY DEF CachedUser, TableInv, Who

LEMMA HoldingType ==
  ASSUME TableInv, WebsInv, NEW o \in GetSession
  PROVE  Holding(wp, o) \in WebsType
<1>1. o.session \in Ids \cup {NoId, Lost} /\ o.cookie \in Ids \cup {NoId}
  BY SessionOutcome DEF Outcomes
<1>2. QED BY <1>1 DEF Holding, WebsInv, WebsType

LEMMA NamesAsked ==
  ASSUME WebsInv
  PROVE  wp.ask.user \in Asked /\ Claimed \in Who \cup Asked
BY DEF WebsInv, WebsType, Claimed, Asked

LEMMA VerifiedType ==
  ASSUME WebsInv, NEW w \in WebsType, NEW name \in Who \cup Asked
  PROVE  Verified(w, name) \in WebsType
<1>1. Verifier(name) \in Who
  BY DEF Verifier, Account, WebsInv, WebsType, Who
<1>2. (w.encoded \/ Verifier(name) # NoUser) \in BOOLEAN
  OBVIOUS
<1>3. QED BY <1>1, <1>2 DEF Verified, WebsType

\* Whoever is verified is in the table of users.
LEMMA VerifiedUser ==
  ASSUME WebsInv, NEW name, NEW encoded, verify(name, encoded)
  PROVE  name \in Who
BY DEF verify, Verifier, Account, WebsInv, WebsType, Who

LEMMA SendType ==
  ASSUME WebsInv, NEW w \in WebsType, NEW code \in Code \cup {"silent"}, Send(w, code)
  PROVE  reply' \in Code /\ cookies' \in [Clients -> Ids \cup {NoId}]
<1>1. CASE code = "silent"
  BY <1>1 DEF Send, WebsInv
<1>2. CASE code # "silent"
  BY <1>2 DEF Send, WebsInv, WebsType
<1>3. QED BY <1>1, <1>2

LEMMA RedirectType ==
  ASSUME NEW status, NEW done \in Code
  PROVE  Redirect(status, done) \in Code \cup {"silent"}
BY DEF Redirect, Code

(***************************************************************************)
(* The actions.                                                            *)
(***************************************************************************)

LEMMA SmallestOfNat ==
  ASSUME NEW T \in SUBSET Nat, T # {}
  PROVE  LET x == CHOOSE n \in T : \A k \in T : n <= k IN x \in T /\ \A k \in T : x <= k
<1>1. PICK x \in T : \A y \in T : ~(<<y, x>> \in OpToRel(<, Nat))
  BY NatLessThanWellFounded, WFMin
<1>2. \A y \in T : ~(y < x)
  BY <1>1, Zenon DEF OpToRel
<1>3. \A y \in T : x <= y
  BY <1>2
<1>4. QED BY <1>3

\* What an action that leaves the table alone does not disturb.
LEMMA TableStays ==
  ASSUME TableInv, UNCHANGED <<table, pruneIn>>
  PROVE  TableInv'
BY DEF TableInv, table, CountAccounts, SessionsBounded

LEMMA RouteKeeps ==
  ASSUME AccessInv, Match \/ NoRoute
  PROVE  AccessInv'
<1>1. Len(Routes) \in Nat
  BY AccessAssumption
<1>2. CASE Match
  <2>1. Matching \in SUBSET Nat /\ Matching # {} /\ Matching \subseteq 1 .. Len(Routes)
    BY <1>1, <1>2 DEF Matching, Match, AccessInv, LoopInv
  <2>2. i' \in 1 .. Len(Routes)
    BY <1>2, <2>1, SmallestOfNat DEF Match
  <2>3. UNCHANGED <<count, wp, table, pruneIn, cookies, reply, member>> /\ pc' = "auth" /\ pc = "match"
    BY <1>2 DEF Match, At, Goto
  <2>4. LoopInv'
    BY <1>1, <2>2, <2>3 DEF AccessInv, LoopInv
  <2>5. QED BY <2>3, <2>4, TableStays DEF AccessInv, WebsInv
<1>3. CASE NoRoute
  <2>1. UNCHANGED <<loop, wp, table, pruneIn, member>> /\ pc' = "done" /\ Send(wp, "406")
    BY <1>3 DEF NoRoute, Goto
  <2>2. reply' \in Code /\ cookies' \in [Clients -> Ids \cup {NoId}]
    BY <2>1, SendType DEF AccessInv, WebsInv, Code
  <2>3. LoopInv'
    BY <2>1 DEF AccessInv, LoopInv, loop
  <2>4. QED BY <2>1, <2>2, <2>3, TableStays DEF AccessInv, WebsInv
<1>4. QED BY <1>2, <1>3

LEMMA AuthenticateKeeps ==
  ASSUME AccessInv, websAuthenticate
  PROVE  AccessInv'
<1> USE DEF Goto, At
<1>1. TableInv /\ WebsInv /\ LoopInv
  BY DEF AccessInv
<1>2. CASE AuthNone
  <2>1. UNCHANGED <<loop, wp, table, pruneIn, cookies, reply, member>> /\ pc' = "can" /\ pc = "auth"
    BY <1>2 DEF AuthNone
  <2>2. LoopInv'
    BY <1>1, <2>1 DEF LoopInv, loop
  <2>3. QED BY <1>1, <2>1, <2>2, TableStays DEF AccessInv, WebsInv
<1>3. CASE AuthCached
  <2>1. /\ UNCHANGED <<loop, pruneIn, cookies, reply, member>> /\ pc' = "can" /\ pc = "auth"
        /\ LookedUp /\ wp' = [Looked EXCEPT !.username = CachedUser]
    BY <1>3 DEF AuthCached
  <2>2. wp' \in WebsType
    BY <1>1, <2>1, LookedType, CachedUserType DEF WebsType
  <2>3. TableInv'
    BY <1>1, <2>1, LookedUpKeeps
  <2>4. LoopInv'
    BY <1>1, <2>1 DEF LoopInv, loop
  <2>5. QED BY <1>1, <2>1, <2>2, <2>3, <2>4 DEF AccessInv, WebsInv
<1>4. CASE AuthWrongType
  <2>1. /\ UNCHANGED <<loop, pruneIn, member>> /\ pc' = "done"
        /\ LookedUp /\ wp' = Looked /\ Send(wp, "400")
    BY <1>4 DEF AuthWrongType
  <2>2. reply' \in Code /\ cookies' \in [Clients -> Ids \cup {NoId}]
    BY <1>1, <2>1, SendType DEF WebsInv, Code
  <2>3. TableInv'
    BY <1>1, <2>1, LookedUpKeeps
  <2>4. LoopInv'
    BY <1>1, <2>1 DEF LoopInv, loop
  <2>5. QED BY <1>1, <2>1, <2>2, <2>3, <2>4, LookedType DEF AccessInv, WebsInv
<1>5. CASE AuthRefused
  <2>1. /\ UNCHANGED <<pruneIn, member>> /\ LookedUp
        /\ wp' = Verified(Looked, Claimed) /\ Send(wp, Redirect(401, "login"))
    BY <1>5 DEF AuthRefused
  <2>2. Redirect(401, "login") \in Code \cup {"silent"}
    BY RedirectType DEF Code
  <2>3. reply' \in Code /\ cookies' \in [Clients -> Ids \cup {NoId}]
    BY <1>1, <2>1, <2>2, SendType DEF WebsInv
  <2>4. TableInv'
    BY <1>1, <2>1, LookedUpKeeps
  <2>5. wp' \in WebsType
    BY <1>1, <2>1, LookedType, NamesAsked, VerifiedType
  <2>6. \/ pc' = "match" /\ i' = 1 /\ count' = 0
        \/ pc' = "done" /\ UNCHANGED loop
    BY <1>5 DEF AuthRefused
  <2>7. LoopInv'
    BY <1>1, <2>6, AccessAssumption DEF LoopInv, loop
  <2>8. QED BY <1>1, <2>1, <2>3, <2>4, <2>5, <2>7 DEF AccessInv, WebsInv
<1>6. CASE AuthVerified
  <2>1. Claimed \in Who
    BY <1>1, <1>6, VerifiedUser DEF AuthVerified
  <2>2. PICK o \in GetSession : Session(o, SetUser(o, Claimed))
                                /\ wp' = Verified(Holding(wp, o), Claimed)
    BY <1>6 DEF AuthVerified
  <2>3. /\ UNCHANGED <<loop, pruneIn, cookies, reply>> /\ pc' = "can" /\ pc = "auth"
        /\ member' = [member EXCEPT ![wp.client] = Claimed]
    BY <1>6 DEF AuthVerified, NotCached
  <2>4. TableInv'
    BY <1>1, <2>1, <2>2, <2>3, UserSession
  <2>5. wp' \in WebsType
    BY <1>1, <2>2, HoldingType, NamesAsked, VerifiedType
  <2>6. member' \in [Clients -> Who]
    BY <1>1, <2>1, <2>3 DEF WebsInv
  <2>7. LoopInv'
    BY <1>1, <2>3 DEF LoopInv, loop
  <2>8. QED BY <1>1, <2>3, <2>4, <2>5, <2>6, <2>7 DEF AccessInv, WebsInv
<1>7. QED BY <1>2, <1>3, <1>4, <1>5, <1>6 DEF websAuthenticate

LEMMA CanKeeps ==
  ASSUME AccessInv, Can \/ Cannot
  PROVE  AccessInv'
<1> USE DEF Goto, At
<1>1. TableInv /\ WebsInv /\ LoopInv
  BY DEF AccessInv
<1>2. CASE Can
  <2>1. /\ UNCHANGED <<loop, table, pruneIn, cookies, reply, member>>
        /\ pc' = "handler" /\ pc = "can"
        /\ wp' = [wp EXCEPT !.user = IF route.abilities = {} THEN @ ELSE WhoAsks]
    BY <1>2 DEF Can
  <2>2. WhoAsks \in Who
    BY <1>1 DEF WhoAsks, Account, WebsInv, WebsType, Who
  <2>3. wp' \in WebsType
    BY <1>1, <2>1, <2>2 DEF WebsInv, WebsType
  <2>4. LoopInv'
    BY <1>1, <2>1 DEF LoopInv, loop
  <2>5. QED BY <1>1, <2>1, <2>3, <2>4, TableStays DEF AccessInv, WebsInv
<1>3. CASE Cannot
  <2>1. UNCHANGED <<loop, wp, table, pruneIn, member>> /\ pc' = "done" /\ Send(wp, "401")
    BY <1>3 DEF Cannot
  <2>2. reply' \in Code /\ cookies' \in [Clients -> Ids \cup {NoId}]
    BY <1>1, <2>1, SendType DEF WebsInv, Code
  <2>3. LoopInv'
    BY <1>1, <2>1 DEF LoopInv, loop
  <2>4. QED BY <1>1, <2>1, <2>2, <2>3, TableStays DEF AccessInv, WebsInv
<1>4. QED BY <1>2, <1>3

\* Handlers that leave the sessions alone.
LEMMA HandlerKeeps ==
  ASSUME AccessInv, Continue \/ Test \/ File \/ NoAction
  PROVE  AccessInv'
<1> USE DEF Goto, At
<1>1. TableInv /\ WebsInv /\ LoopInv /\ Len(Routes) \in Nat
  BY AccessAssumption DEF AccessInv
<1>2. pc = "handler" /\ i \in 1 .. Len(Routes) /\ count < RouteMax /\ RouteMax \in Nat
  BY <1>1, AccessAssumption DEF Continue, Test, File, NoAction, Handler, Action, LoopInv
<1>3. UNCHANGED <<table, pruneIn, member>>
  BY DEF Continue, Test, File, NoAction
<1>4. CASE Continue \/ (Test /\ wp.path # <<"/">>)
  <2>1. /\ i' = i + 1 /\ pc' = "match"
        /\ UNCHANGED <<count, wp, cookies, reply>>
    BY <1>4 DEF Continue, Test, NextRoute
  <2>2. LoopInv'
    BY <1>1, <1>2, <2>1 DEF LoopInv
  <2>3. QED BY <1>1, <1>3, <2>1, <2>2, TableStays DEF AccessInv, WebsInv
<1>5. CASE Test /\ wp.path = <<"/">>
  <2>1. /\ wp' = [wp EXCEPT !.path = <<"/", "home">>] /\ count' = count + 1
        /\ \/ count' >= RouteMax /\ pc' = "done" /\ Send(wp, "406") /\ UNCHANGED i
           \/ count' < RouteMax /\ pc' = "match" /\ i' = 2 /\ UNCHANGED <<cookies, reply>>
    BY <1>1, <1>2, <1>5 DEF Test, LoopInv
  <2>2. wp' \in WebsType
    BY <1>1, <2>1 DEF WebsInv, WebsType
  <2>3. reply' \in Code /\ cookies' \in [Clients -> Ids \cup {NoId}]
    <3>1. CASE Send(wp, "406")
      BY <1>1, <3>1, SendType DEF WebsInv, Code
    <3>2. CASE UNCHANGED <<cookies, reply>>
      BY <1>1, <3>2 DEF WebsInv
    <3>3. QED BY <2>1, <3>1, <3>2
  <2>4. LoopInv'
    BY <1>1, <1>2, <2>1 DEF LoopInv
  <2>5. QED BY <1>1, <1>3, <2>2, <2>3, <2>4, TableStays DEF AccessInv, WebsInv
<1>6. CASE File \/ NoAction
  <2>1. /\ UNCHANGED <<loop, wp>> /\ pc' = "done"
        /\ Send(wp, "page") \/ Send(wp, "404")
    BY <1>6 DEF File, NoAction
  <2>2. reply' \in Code /\ cookies' \in [Clients -> Ids \cup {NoId}]
    BY <1>1, <2>1, SendType DEF WebsInv, Code
  <2>3. LoopInv'
    BY <1>1, <2>1 DEF LoopInv, loop
  <2>4. QED BY <1>1, <1>3, <2>1, <2>2, <2>3, TableStays DEF AccessInv, WebsInv
<1>7. QED BY <1>4, <1>5, <1>6

LEMMA LoginKeeps ==
  ASSUME AccessInv, Login \/ LoginFails
  PROVE  AccessInv'
<1> USE DEF Goto, At
<1>1. TableInv /\ WebsInv /\ LoopInv
  BY DEF AccessInv
<1>2. pc = "handler" /\ UNCHANGED <<loop, pruneIn>>
  BY DEF Login, LoginFails, Action, Handler
<1>3. wp.ask.user \in Asked
  BY <1>1, NamesAsked
<1>4. CASE Login
  <2>1. wp.ask.user \in Who
    BY <1>1, <1>4, VerifiedUser DEF Login
  <2>2. PICK o \in GetSession : Session(o, SetUser(o, wp.ask.user))
                                /\ wp' = Verified(Holding(wp, o), wp.ask.user)
    BY <1>4 DEF Login
  <2>3. /\ UNCHANGED <<cookies, reply>> /\ pc' = "greet"
        /\ member' = [member EXCEPT ![wp.client] = wp.ask.user]
    BY <1>4 DEF Login
  <2>4. TableInv'
    BY <1>1, <1>2, <2>1, <2>2, UserSession
  <2>5. wp' \in WebsType
    BY <1>1, <1>3, <2>2, HoldingType, VerifiedType
  <2>6. member' \in [Clients -> Who]
    BY <1>1, <2>1, <2>3 DEF WebsInv
  <2>7. LoopInv'
    BY <1>1, <1>2, <2>3 DEF LoopInv, loop
  <2>8. QED BY <1>1, <2>3, <2>4, <2>5, <2>6, <2>7 DEF AccessInv, WebsInv
<1>5. CASE LoginFails
  <2>1. PICK o \in GetSession :
          /\ Session(o, o.table)
          /\ wp' = Verified(Holding(wp, o), wp.ask.user)
          /\ Send(Holding(wp, o), Redirect(401, "login"))
    BY <1>5 DEF LoginFails
  <2>2. UNCHANGED member /\ pc' = "done"
    BY <1>5 DEF LoginFails
  <2>3. Holding(wp, o) \in WebsType /\ Redirect(401, "login") \in Code \cup {"silent"}
    BY <1>1, <2>1, HoldingType, RedirectType DEF Code
  <2>4. reply' \in Code /\ cookies' \in [Clients -> Ids \cup {NoId}]
    BY <1>1, <2>1, <2>3, SendType
  <2>5. wp' \in WebsType
    BY <1>1, <1>3, <2>1, <2>3, VerifiedType
  <2>6. TableInv'
    BY <1>1, <1>2, <2>1, PlainSession
  <2>7. LoopInv'
    BY <1>1, <1>2, <2>2 DEF LoopInv, loop
  <2>8. QED BY <1>1, <2>2, <2>4, <2>5, <2>6, <2>7 DEF AccessInv, WebsInv
<1>6. QED BY <1>4, <1>5

LEMMA GreetKeeps ==
  ASSUME AccessInv, Greet \/ Mark
  PROVE  AccessInv'
<1> USE DEF Goto, At
<1>1. TableInv /\ WebsInv /\ LoopInv
  BY DEF AccessInv
<1>2. PICK o \in GetSession : Session(o, o.table) /\ wp' = Holding(wp, o)
                              /\ (Greet => Send(Holding(wp, o), Redirect(200, "ok")))
  BY DEF Greet, Mark
<1>3. UNCHANGED <<loop, pruneIn, member>>
  BY DEF Greet, Mark
<1>4. \/ pc = "greet" /\ pc' = "mark"
      \/ pc = "mark" /\ pc' = "done"
  BY DEF Greet, Mark
<1>5. Holding(wp, o) \in WebsType /\ Redirect(200, "ok") \in Code \cup {"silent"}
  BY <1>1, <1>2, HoldingType, RedirectType DEF Code
<1>6. reply' \in Code /\ cookies' \in [Clients -> Ids \cup {NoId}]
  <2>1. CASE Greet
    BY <1>1, <1>2, <1>5, <2>1, SendType
  <2>2. CASE Mark
    BY <1>1, <2>2 DEF Mark, WebsInv
  <2>3. QED BY <2>1, <2>2
<1>7. TableInv'
  BY <1>1, <1>2, <1>3, PlainSession
<1>8. LoopInv'
  BY <1>1, <1>3, <1>4 DEF LoopInv, loop
<1>9. QED BY <1>1, <1>2, <1>3, <1>5, <1>6, <1>7, <1>8 DEF AccessInv, WebsInv

LEMMA LogoutKeeps ==
  ASSUME AccessInv, Logout
  PROVE  AccessInv'
<1> USE DEF Goto, At
<1>1. TableInv /\ WebsInv /\ LoopInv
  BY DEF AccessInv
<1> DEFINE code == IF wp.ask.authType = "basic" THEN "401" ELSE Redirect(200, "ok")
<1>2. NoUser \in Who
  BY DEF Who
<1>3. PICK o \in GetSession : /\ Session(o, SetUser(o, NoUser))
                              /\ wp' = Holding(wp, o)
                              /\ Send(Holding(wp, o), code)
  BY DEF Logout, LoggedOut
<1>4. /\ UNCHANGED <<loop, pruneIn>> /\ pc' = "done"
      /\ member' = [member EXCEPT ![wp.client] = NoUser]
  BY DEF Logout
<1>5. code \in Code \cup {"silent"}
  <2>1. Redirect(200, "ok") \in Code \cup {"silent"}
    BY RedirectType DEF Code
  <2>2. QED BY <2>1 DEF Code
<1>6. Holding(wp, o) \in WebsType
  BY <1>1, <1>3, HoldingType
<1> HIDE DEF code
<1>7. reply' \in Code /\ cookies' \in [Clients -> Ids \cup {NoId}]
  BY <1>1, <1>3, <1>5, <1>6, SendType
<1>8. TableInv'
  BY <1>1, <1>2, <1>3, <1>4, UserSession
<1>9. member' \in [Clients -> Who]
  BY <1>1, <1>2, <1>4 DEF WebsInv
<1>10. LoopInv'
  BY <1>1, <1>4 DEF LoopInv, loop
<1>11. QED BY <1>1, <1>3, <1>4, <1>6, <1>7, <1>8, <1>9, <1>10 DEF AccessInv, WebsInv

LEMMA TurnKeeps ==
  ASSUME AccessInv, Done \/ (\E c \in Clients, r \in Requests : Arrive(c, r))
  PROVE  AccessInv'
<1> USE DEF Goto, At
<1>1. TableInv /\ WebsInv /\ LoopInv
  BY DEF AccessInv
<1>2. Len(Routes) \in Nat /\ RouteMax \in Nat \ {0}
  BY AccessAssumption
<1>3. CASE Done
  <2>1. /\ UNCHANGED <<table, pruneIn, cookies, member>>
        /\ pc' = "idle" /\ i' = 1 /\ count' = 0 /\ wp' = NoRequest /\ reply' = "none"
    BY <1>3 DEF Done
  <2>2. NoRequest \in WebsType
    BY AccessAssumption DEF NoRequest, WebsType, Who
  <2>3. LoopInv'
    BY <1>2, <2>1 DEF LoopInv
  <2>4. QED BY <1>1, <2>1, <2>2, <2>3, TableStays DEF AccessInv, WebsInv, Code
<1>4. ASSUME NEW c \in Clients, NEW r \in Requests, Arrive(c, r)
      PROVE  AccessInv'
  <2>1. /\ UNCHANGED <<table, pruneIn, cookies, reply, member>>
        /\ pc' = "match" /\ i' = 1 /\ count' = 0
        /\ wp' = [client |-> c, ask |-> r, path |-> r.path, cookie |-> cookies[c],
                  username |-> NoUser, user |-> NoUser, encoded |-> FALSE,
                  session |-> NoId, setCookie |-> NoId]
    BY <1>4 DEF Arrive
  <2>2. cookies[c] \in Ids \cup {NoId}
    BY <1>1 DEF WebsInv
  <2>3. wp' \in WebsType
    BY <2>1, <2>2 DEF WebsType, Who
  <2>4. LoopInv'
    BY <1>2, <2>1 DEF LoopInv
  <2>5. QED BY <1>1, <2>1, <2>3, <2>4, TableStays DEF AccessInv, WebsInv
<1>5. QED BY <1>3, <1>4

LEMMA ForgetKeeps ==
  ASSUME AccessInv, NEW c \in Clients, Forget(c)
  PROVE  AccessInv'
<1>1. TableInv'
  BY TableStays DEF AccessInv, Forget
<1>2. LoopInv'
  BY DEF AccessInv, LoopInv, Forget, loop
<1>3. NoId \in Ids \cup {NoId} /\ NoUser \in Who
  BY DEF Who
<1>4. WebsInv'
  BY <1>3 DEF AccessInv, WebsInv, Forget
<1>5. QED BY <1>1, <1>2, <1>4 DEF AccessInv

LEMMA TickKeeps ==
  ASSUME AccessInv, Tick
  PROVE  AccessInv'
<1>1. TableInv /\ LoopInv /\ WebsInv /\ PruneTime \in Nat
  BY AccessAssumption DEF AccessInv
<1>2. /\ pruneIn > 0 /\ pruneIn' = pruneIn - 1
      /\ sessions' = [s \in DOMAIN sessions |-> [sessions[s] EXCEPT !.left = @ - 1]]
      /\ UNCHANGED <<sessionCount, unstored>>
  BY DEF Tick
<1>3. sessions' \in [DOMAIN sessions -> [user : Who, left : Int]]
  BY <1>1, <1>2 DEF TableInv
<1>4. \A s \in DOMAIN sessions : sessions'[s].left = sessions[s].left - 1
  BY <1>1, <1>2 DEF TableInv
<1>5. pruneIn \in Nat /\ pruneIn' \in 0 .. PruneTime
  BY <1>1, <1>2 DEF TableInv
<1>6. SessionsBounded'
  <2>1. \A s \in DOMAIN sessions : sessions[s].left \in Int
    BY <1>1 DEF TableInv
  <2>2. QED BY <1>1, <1>2, <1>3, <1>4, <1>5, <2>1 DEF TableInv, SessionsBounded
<1>7. DOMAIN sessions' = DOMAIN sessions
  BY <1>3
<1>8. TableInv'
  BY <1>1, <1>2, <1>3, <1>5, <1>6, <1>7 DEF TableInv, CountAccounts
<1>9. UNCHANGED <<pc, loop, wp, cookies, reply, member>>
  BY DEF Tick
<1>10. QED BY <1>1, <1>8, <1>9 DEF AccessInv, LoopInv, WebsInv, loop

LEMMA PruneKeeps ==
  ASSUME AccessInv, pruneCache
  PROVE  AccessInv'
<1>1. TableInv /\ LoopInv /\ WebsInv /\ PruneTime \in Nat /\ SessionMax \in Nat
  BY AccessAssumption DEF AccessInv
<1> DEFINE D == DOMAIN sessions \ Expired
<1>2. /\ sessions' = [s \in D |-> sessions[s]] /\ UNCHANGED unstored
      /\ sessionCount' = sessionCount - Cardinality(Expired) /\ pruneIn' = PruneTime
  BY DEF pruneCache, CountPruned, RestartPrune
<1>3. sessions' \in [D -> [user : Who, left : Int]] /\ DOMAIN sessions' = D
  BY <1>1, <1>2 DEF TableInv
<1>4. /\ Cardinality(D) = Cardinality(DOMAIN sessions) - Cardinality(Expired)
      /\ Cardinality(D) \in Nat /\ Cardinality(Expired) \in Nat
  <2>1. IsFiniteSet(DOMAIN sessions) /\ Expired \subseteq DOMAIN sessions
    BY <1>1, TableFinite DEF Expired
  <2>2. DOMAIN sessions \cap Expired = Expired
    BY <2>1
  <2>3. IsFiniteSet(D) /\ IsFiniteSet(Expired)
    BY <2>1, FS_Subset
  <2>4. Cardinality(D) = Cardinality(DOMAIN sessions) - Cardinality(Expired)
    BY <2>1, <2>2, <2>3, FS_Difference
  <2>5. QED BY <2>3, <2>4, FS_CardinalityType
<1>5. /\ sessionCount' = Cardinality(D) + unstored' /\ unstored' \in Nat
      /\ sessionCount' \in 0 .. SessionMax + 1
  BY <1>1, <1>2, <1>4, TableFinite DEF TableInv, CountAccounts
<1>6. SessionsBounded'
  <2>1. \A s \in D : sessions'[s] = sessions[s] /\ sessions[s].left \in Int /\ sessions[s].left > 0
    BY <1>1, <1>2 DEF TableInv, Expired
  <2>2. QED BY <1>1, <1>2, <1>3, <2>1 DEF SessionsBounded
<1>7. TableInv'
  BY <1>1, <1>2, <1>3, <1>5, <1>6 DEF TableInv, CountAccounts
<1>8. UNCHANGED <<pc, loop, wp, cookies, reply, member>>
  BY DEF pruneCache
<1>9. QED BY <1>1, <1>7, <1>8 DEF AccessInv, LoopInv, WebsInv, loop

LEMMA NextKeeps == AccessInv /\ [Next]_vars => AccessInv'
<1> SUFFICES ASSUME AccessInv, [Next]_vars PROVE AccessInv'
  OBVIOUS
<1>1. CASE websRouteRequest
  BY <1>1, RouteKeeps DEF websRouteRequest
<1>2. CASE websAuthenticate
  BY <1>2, AuthenticateKeeps
<1>3. CASE Handle
  BY <1>3, CanKeeps, HandlerKeeps, LoginKeeps, GreetKeeps, LogoutKeeps, TurnKeeps DEF Handle
<1>4. ASSUME NEW c \in Clients, NEW r \in Requests, Arrive(c, r) PROVE AccessInv'
  BY <1>4, TurnKeeps
<1>5. ASSUME NEW c \in Clients, Forget(c) PROVE AccessInv'
  BY <1>5, ForgetKeeps
<1>6. CASE pruneCache \/ Tick
  BY <1>6, PruneKeeps, TickKeeps
<1>7. CASE UNCHANGED vars
  BY <1>7, TableStays DEF AccessInv, LoopInv, WebsInv, vars, loop
<1>8. QED BY <1>1, <1>2, <1>3, <1>4, <1>5, <1>6, <1>7 DEF Next, Thread

(***************************************************************************)
(* The theorems.                                                           *)
(***************************************************************************)

\* Every reachable state is of its type, whatever the routes, users, roles
\* and requests are: a route that is looked at is in the table
\* (websRouteRequest), and the ids last (makeSessionID).
THEOREM TypeCorrect == Spec => []TypeOK
<1>1. Spec => []AccessInv
  BY InitInv, NextKeeps, PTL DEF Spec
<1>2. QED BY <1>1, InvImplies, PTL

\* The count that limits sessions stays that of the table and of the
\* sessions that found no memory, for every number of clients and sessions
\* (websGetSession, pruneCache).
THEOREM CountRight == Spec => []CountAccounts
<1>1. Spec => []AccessInv
  BY InitInv, NextKeeps, PTL DEF Spec
<1>2. QED BY <1>1, InvImplies, PTL

\* No session is kept longer than its life and the time between two
\* prunings after it was last used, for every life and every such time.
THEOREM SessionsStayBounded == Spec => []SessionsBounded
<1>1. Spec => []AccessInv
  BY InitInv, NextKeeps, PTL DEF Spec
<1>2. QED BY <1>1, InvImplies, PTL

(***************************************************************************)
(* Abilities: what computeAbilities enters.                                *)
(***************************************************************************)

\* The abilities of a role, from those of the roles it names.
Entered(f, n) ==
  [role \in Names |->
     IF role \in DOMAIN Roles
     THEN UNION {IF k <= n THEN f[n - k][Roles[role][k]] ELSE {} : k \in DOMAIN Roles[role]}
     ELSE {role}]

LEMMA LeastOf ==
  ASSUME NEW T \in SUBSET Nat, T # {}
  PROVE  \E x \in T : \A k \in T : x <= k
BY SmallestOfNat

\* It depends on what was entered fewer levels above the deepest.
LEMMA EnteredLocal ==
  ASSUME NEW f, NEW g, NEW n \in Nat, \A m \in 0 .. n - 1 : f[m] = g[m]
  PROVE  Entered(f, n) = Entered(g, n)
<1> DEFINE F(role, k) == IF k <= n THEN f[n - k][Roles[role][k]] ELSE {}
           G(role, k) == IF k <= n THEN g[n - k][Roles[role][k]] ELSE {}
<1>1. ASSUME NEW role \in DOMAIN Roles, NEW k \in DOMAIN Roles[role]
      PROVE  F(role, k) = G(role, k)
  <2>1. k \in Nat \ {0}
    BY AccessAssumption
  <2>2. CASE k <= n
    <3>1. n - k \in 0 .. n - 1
      BY <2>1, <2>2
    <3>2. QED BY <2>2, <3>1
  <2>3. CASE ~(k <= n)
    BY <2>3
  <2>4. QED BY <2>2, <2>3
<1>2. ASSUME NEW role \in DOMAIN Roles
      PROVE  UNION {F(role, k) : k \in DOMAIN Roles[role]} = UNION {G(role, k) : k \in DOMAIN Roles[role]}
  <2> HIDE DEF F, G
  <2>1. \A k \in DOMAIN Roles[role] : F(role, k) = G(role, k)
    BY <1>1
  <2>2. {F(role, k) : k \in DOMAIN Roles[role]} = {G(role, k) : k \in DOMAIN Roles[role]}
    BY <2>1
  <2>3. QED BY <2>2
<1>3. QED BY <1>2 DEF Entered

LEMMA EnteredUpTo ==
  ASSUME NEW top \in Nat
  PROVE  \E g : g = [m \in 0 .. top |-> Entered(g, m)]
<1> DEFINE Bad == {n \in Nat : ~\E g : g = [m \in 0 .. n |-> Entered(g, m)]}
<1>1. Bad = {}
  <2>1. SUFFICES ASSUME Bad # {} PROVE FALSE
    OBVIOUS
  <2>2. PICK b \in Bad : \A k \in Bad : b <= k
    BY <2>1, LeastOf
  <2>3. PICK g : b > 0 => g = [m \in 0 .. b - 1 |-> Entered(g, m)]
    <3>1. CASE b > 0
      <4>1. b - 1 \in Nat /\ b - 1 \notin Bad
        BY <2>2, <3>1
      <4>2. QED BY <3>1, <4>1
    <3>2. CASE ~(b > 0)
      BY <3>2
    <3>3. QED BY <3>1, <3>2
  <2> DEFINE h == [m \in 0 .. b |-> IF m < b THEN g[m] ELSE Entered(g, b)]
  <2>4. b \in Nat
    BY <2>2
  <2>a. /\ h = [m \in 0 .. b |-> h[m]]
        /\ \A m \in 0 .. b : h[m] = IF m < b THEN g[m] ELSE Entered(g, b)
    OBVIOUS
  <2> HIDE DEF h
  <2>5. ASSUME NEW m \in 0 .. b PROVE h[m] = Entered(h, m)
    <3>1. \A k \in 0 .. m - 1 : g[k] = h[k]
      BY <2>4, <2>a
    <3>2. Entered(g, m) = Entered(h, m)
      BY <2>4, <3>1, EnteredLocal
    <3>3. CASE m < b
      <4>1. b > 0 /\ m \in 0 .. b - 1
        BY <2>4, <3>3
      <4>2. g[m] = Entered(g, m)
        BY <2>3, <4>1
      <4>3. QED BY <2>a, <3>2, <3>3, <4>2
    <3>4. CASE ~(m < b)
      <4>1. m = b
        BY <2>4, <3>4
      <4>2. QED BY <2>a, <3>2, <3>4, <4>1
    <3>5. QED BY <3>3, <3>4
  <2>6. h = [m \in 0 .. b |-> Entered(h, m)]
    BY <2>5, <2>a
  <2>7. b \notin Bad
    BY <2>4, <2>6
  <2>8. QED BY <2>2, <2>7
<1>2. QED BY <1>1

LEMMA ComputeAbilities ==
  /\ computeAbilities = [m \in 0 .. DepthMax |-> Entered(computeAbilities, m)]
  /\ \A n \in 0 .. DepthMax : computeAbilities[n] = Entered(computeAbilities, n)
<1>1. \E g : g = [m \in 0 .. DepthMax |-> Entered(g, m)]
  BY AccessAssumption, EnteredUpTo
<1>2. computeAbilities = CHOOSE g : g = [m \in 0 .. DepthMax |-> Entered(g, m)]
  BY DEF computeAbilities, Entered
<1>3. QED BY <1>1, <1>2

\* What has the roles of a user, and with a role what it names (see Holds).
ClosedFor(u, T) ==
  /\ \A k \in DOMAIN Users[u] : Users[u][k] \in T
  /\ \A r \in T \cap DOMAIN Roles : \A k \in DOMAIN Roles[r] : Roles[r][k] \in T

LEMMA NamedByRole ==
  ASSUME NEW r \in DOMAIN Roles, NEW k \in DOMAIN Roles[r]
  PROVE  r \in Names /\ Roles[r][k] \in Names
BY DEF Names

LEMMA NamedByUser ==
  ASSUME NEW u \in DOMAIN Users, NEW k \in DOMAIN Users[u]
  PROVE  Users[u][k] \in Names
BY DEF Names

\* computeAbilities enters nothing that a closed set does not have.
LEMMA EnteredWithin ==
  ASSUME NEW u \in DOMAIN Users, NEW T, ClosedFor(u, T), NEW n \in 0 .. DepthMax,
         NEW role \in Names \cap T, NEW a \in computeAbilities[n][role]
  PROVE  a \in T \ DOMAIN Roles
<1> DEFINE Bad == {m \in 0 .. DepthMax : \E r \in Names \cap T : \E b \in computeAbilities[m][r] :
                                            b \notin T \ DOMAIN Roles}
<1>1. Bad = {}
  <2>1. SUFFICES ASSUME Bad # {} PROVE FALSE
    OBVIOUS
  <2>a. Bad \subseteq Nat
    BY AccessAssumption
  <2> HIDE DEF Bad
  <2>2. PICK m \in Bad : \A k \in Bad : m <= k
    BY <2>1, <2>a, LeastOf
  <2> USE DEF Bad
  <2>3. PICK r \in Names \cap T : \E b \in computeAbilities[m][r] : b \notin T \ DOMAIN Roles
    BY <2>2
  <2>4. PICK b \in computeAbilities[m][r] : b \notin T \ DOMAIN Roles
    BY <2>3
  <2>5. m \in 0 .. DepthMax
    BY <2>2
  <2>6. computeAbilities[m][r] =
          IF r \in DOMAIN Roles
          THEN UNION {IF k <= m THEN computeAbilities[m - k][Roles[r][k]] ELSE {} : k \in DOMAIN Roles[r]}
          ELSE {r}
    BY <2>5, ComputeAbilities DEF Entered
  <2>7. CASE r \in DOMAIN Roles
    <3>1. PICK k \in DOMAIN Roles[r] : k <= m /\ b \in computeAbilities[m - k][Roles[r][k]]
      BY <2>4, <2>6, <2>7
    <3>2. k \in Nat \ {0}
      BY <2>7, AccessAssumption
    <3>3. Roles[r][k] \in Names \cap T
      BY <2>7, NamedByRole DEF ClosedFor
    <3>4. m - k \in 0 .. DepthMax /\ ~(m <= m - k)
      BY <2>5, <3>1, <3>2, AccessAssumption
    <3>5. m - k \notin Bad
      BY <2>2, <3>4
    <3>6. QED BY <2>4, <3>1, <3>3, <3>4, <3>5
  <2>8. CASE r \notin DOMAIN Roles
    BY <2>4, <2>6, <2>8
  <2>9. QED BY <2>7, <2>8
<1>2. QED BY <1>1

\* There is a smallest closed set: what is in all of them.
LEMMA HoldsClosed ==
  ASSUME NEW u \in DOMAIN Users
  PROVE  \E T \in SUBSET Names : ClosedFor(u, T) /\ Holds(u) = T \ DOMAIN Roles
<1> DEFINE Smallest(T) == ClosedFor(u, T) /\ \A V \in SUBSET T : ClosedFor(u, V) => V = T
           M == {x \in Names : \A T \in SUBSET Names : ClosedFor(u, T) => x \in T}
<1>1. ClosedFor(u, M)
  <2>1. ASSUME NEW k \in DOMAIN Users[u] PROVE Users[u][k] \in M
    BY NamedByUser DEF ClosedFor
  <2>2. ASSUME NEW r \in M \cap DOMAIN Roles, NEW k \in DOMAIN Roles[r] PROVE Roles[r][k] \in M
    BY NamedByRole DEF ClosedFor
  <2>3. QED BY <2>1, <2>2 DEF ClosedFor
<1>2. Smallest(M)
  <2>1. ASSUME NEW V \in SUBSET M, ClosedFor(u, V) PROVE V = M
    BY <2>1
  <2>2. QED BY <1>1, <2>1
<1>3. Holds(u) = (CHOOSE T \in SUBSET Names : Smallest(T)) \ DOMAIN Roles
  BY DEF Holds, ClosedFor
<1>4. \E T \in SUBSET Names : Smallest(T)
  <2>1. M \in SUBSET Names
    OBVIOUS
  <2>2. QED BY <1>2, <2>1
<1> HIDE DEF Smallest
<1>5. (CHOOSE T \in SUBSET Names : Smallest(T)) \in SUBSET Names
      /\ Smallest(CHOOSE T \in SUBSET Names : Smallest(T))
  BY <1>4
<1>6. QED BY <1>3, <1>5 DEF Smallest

\* A user has no ability that its roles do not give (computeUserAbilities).
LEMMA AbilitiesHeld == Abilities \subseteq Held
<1> SUFFICES ASSUME NEW p \in Abilities PROVE p \in Held
  OBVIOUS
<1>1. PICK u \in DOMAIN Users :
        p \in {u} \X UNION {computeAbilities[DepthMax][Users[u][k]] : k \in DOMAIN Users[u]}
  BY DEF Abilities
<1>2. PICK T \in SUBSET Names : ClosedFor(u, T) /\ Holds(u) = T \ DOMAIN Roles
  BY HoldsClosed
<1>3. ASSUME NEW k \in DOMAIN Users[u], NEW a \in computeAbilities[DepthMax][Users[u][k]]
      PROVE  a \in Holds(u)
  <2>1. DepthMax \in 0 .. DepthMax
    BY AccessAssumption
  <2>2. Users[u][k] \in Names \cap T
    BY <1>2, NamedByUser DEF ClosedFor
  <2>3. QED BY <1>2, <2>1, <2>2, EnteredWithin
<1>4. p \in {u} \X Holds(u)
  BY <1>1, <1>3
<1>5. QED BY <1>4 DEF Held

(***************************************************************************)
(* The inductive invariant.                                                *)
(***************************************************************************)

\* With cookies ck, request w, table t and members m: no two clients share a
\* session, the request has the session that its cookie stands for, and a
\* session has the name of its client's last login, or none.
Owner(ck, w, t, m) ==
  /\ \A c, d \in Clients : c # d /\ ck[c] # NoId => ck[c] # ck[d]
  /\ \A d \in Clients \ {w.client} : ck[d] # NoId => ck[d] \notin {w.cookie, w.session}
  /\ w.setCookie \in {NoId, w.session}
  /\ w.session # NoId /\ w.cookie \in DOMAIN t => w.session = w.cookie
  /\ \A c \in Clients : ck[c] \in DOMAIN t => t[ck[c]].user \in {NoUser, m[c]}
  /\ \A s \in {w.cookie, w.session} \cap DOMAIN t : t[s].user \in {NoUser, m[w.client]}

OwnerInv == Owner(cookies, wp, sessions, member)

\* A route that has let the request pass.
Passed(r) == Open(r) \/ (wp.username # NoUser /\ Entitled(r))

\* While the request is routed, its name is that of its client's last login
\* and would be found or verified again as the same; if the first route is
\* safe, the request has passed the earlier routes.
NameInv ==
  /\ wp.user \in {NoUser, wp.username} /\ wp.username \in {NoUser, member[wp.client]}
  /\ wp.username # NoUser /\ CachedUser = NoUser =>
       wp.username = Claimed /\ wp.ask.authType # NoType
RoutingInv ==
  /\ pc \in {"match", "auth", "can", "handler"} =>
       /\ wp.cookie = cookies[wp.client]
       /\ NameInv
       /\ FirstRouteSafe =>
            \A n \in 1 .. Len(Routes) : n < i /\ Matches(Routes[n]) => Passed(Routes[n])
       /\ pc = "can" /\ route.auth # NoAuth => wp.username # NoUser
       /\ pc = "handler" => Passed(route)
  /\ pc = "idle" => wp.cookie = NoId /\ wp.session = NoId

ServedInv == AccessInv /\ OwnerInv /\ RoutingInv

LEMMA OpenEntitled ==
  ASSUME NEW r, Passed(r)
  PROVE  Entitled(r)
BY DEF Passed, Open, Entitled

LEMMA InvServes == FirstRouteSafe /\ ServedInv => ServedRight
<1> SUFFICES ASSUME FirstRouteSafe, ServedInv, pc = "handler", NEW n \in 1 .. i, Matches(Routes[n])
             PROVE  Entitled(Routes[n])
  BY DEF ServedRight, At
<1>1. i \in 1 .. Len(Routes) /\ Len(Routes) \in Nat
  BY AccessAssumption DEF ServedInv, AccessInv, LoopInv
<1>2. CASE n = i
  BY <1>2, OpenEntitled DEF ServedInv, RoutingInv, route
<1>3. CASE n # i
  <2>1. n \in 1 .. Len(Routes) /\ n < i
    BY <1>1, <1>3
  <2>2. QED BY <2>1, OpenEntitled DEF ServedInv, RoutingInv
<1>4. QED BY <1>2, <1>3

LEMMA NoIds == NoId \notin Ids /\ Lost \notin Ids /\ NoId # Lost
<1>1. SessionMax + Cardinality(Clients) + 3 \in Int
  BY IdsFinite, AccessAssumption, FS_CardinalityType
<1>2. QED BY <1>1 DEF NoId, Lost, Ids

LEMMA ServedInit == Init => ServedInv
<1> SUFFICES ASSUME Init PROVE ServedInv
  OBVIOUS
<1>1. DOMAIN sessions = {}
  BY DEF Init
<1>2. \A c \in Clients : cookies[c] = NoId
  BY DEF Init
<1>3. OwnerInv
  BY <1>1, <1>2 DEF Init, OwnerInv, Owner, NoRequest
<1>4. RoutingInv
  BY DEF Init, RoutingInv, NoRequest
<1>5. QED BY <1>3, <1>4, InitInv DEF ServedInv

(***************************************************************************)
(* Whose session it is.                                                    *)
(***************************************************************************)

\* The reply takes the cookie to the client whose session it is.
LEMMA SendOwner ==
  ASSUME WebsInv, NEW w \in WebsType, NEW t, NEW m, Owner(cookies, w, t, m),
         NEW code, Send(w, code)
  PROVE  Owner(cookies', w, t, m)
<1>1. CASE cookies' = cookies
  BY <1>1
<1>2. CASE cookies' # cookies
  <2>1. w.setCookie # NoId /\ cookies' = [cookies EXCEPT ![w.client] = w.setCookie]
    BY <1>2 DEF Send
  <2>2. w.client \in Clients /\ cookies \in [Clients -> Ids \cup {NoId}]
    BY DEF WebsInv, WebsType
  <2>3. \A c \in Clients : cookies'[c] = IF c = w.client THEN w.session ELSE cookies[c]
    BY <2>1, <2>2 DEF Owner
  <2>4. QED BY <2>1, <2>2, <2>3 DEF Owner
<1>3. QED BY <1>1, <1>2

\* What websGetSession returns is the client's own.
LEMMA OwnSession ==
  ASSUME TableInv, WebsInv, OwnerInv, NEW o \in GetSession
  PROVE  /\ o.cookie \in {NoId, o.session}
         /\ \A d \in Clients \ {wp.client} : cookies[d] # NoId => cookies[d] # o.session
         /\ wp.cookie \in DOMAIN o.table => o.session = wp.cookie
         /\ \A s \in DOMAIN o.table :
              \/ s \in DOMAIN sessions /\ o.table[s].user = sessions[s].user
              \/ s \notin DOMAIN sessions /\ s = o.session /\ o.table[s].user = NoUser
         /\ wp.session # NoId => o.session = wp.session
         /\ o.session \in DOMAIN sessions => o.session \in {wp.cookie, wp.session}
<1>1. DOMAIN sessions \subseteq Ids /\ wp.cookie \in Ids \cup {NoId}
      /\ \A d \in Clients : cookies[d] \in Ids \cup {NoId}
  BY DEF TableInv, WebsInv, WebsType
<1>2. CASE Known # NoId
  <2>1. /\ o.session = Known /\ o.table = Renewed(Known) /\ o.cookie = NoId
    BY <1>2 DEF GetSession
  <2>2. DOMAIN o.table = DOMAIN sessions
    BY <2>1, RenewedTable
  <2>3. \A s \in DOMAIN sessions : o.table[s].user = sessions[s].user
    BY <2>1 DEF Renewed, TableInv
  <2>4. Known \in {wp.cookie, wp.session} /\ (wp.session # NoId => Known = wp.session)
    BY <1>2 DEF Known
  <2>5. wp.cookie \in DOMAIN sessions => Known = wp.cookie
    BY <1>2 DEF Known, OwnerInv, Owner
  <2>6. QED BY <2>1, <2>2, <2>3, <2>4, <2>5 DEF OwnerInv, Owner
<1>3. CASE Known = NoId
  <2>1. wp.session = NoId /\ wp.cookie \notin DOMAIN sessions
    BY <1>1, <1>3, NoIds DEF Known
  <2>2. CASE o.session \in {NoId, Lost} /\ o.table = sessions /\ o.cookie = NoId
    BY <1>1, <2>1, <2>2, NoIds
  <2>3. CASE ~Full /\ o = [session |-> NewId, table |-> Made(NewId), counted |-> 1, cookie |-> NewId]
    <3>1. NewId \in Ids /\ NewId \notin DOMAIN sessions
      BY <1>3, <2>3, NewIdFresh
    <3>2. \A d \in Clients \ {wp.client} : cookies[d] # NoId => cookies[d] # NewId
      <4>1. CASE wp.cookie # NoId
        BY <4>1 DEF NewId, OwnerInv, Owner
      <4>2. CASE wp.cookie = NoId
        BY <2>3, <4>2, FreshId DEF NewId
      <4>3. QED BY <4>1, <4>2
    <3>3. wp.cookie # NoId => NewId = wp.cookie
      BY DEF NewId
    <3> DEFINE id == NewId
    <3> HIDE DEF id
    <3>4. /\ o.session = id /\ o.cookie = id /\ o.table = Made(id)
      BY <2>3 DEF id
    <3>5. /\ DOMAIN o.table = DOMAIN sessions \cup {id}
          /\ \A s \in DOMAIN o.table : o.table[s] = IF s = id THEN NewSession ELSE sessions[s]
      BY <3>4 DEF Made
    <3>6. NewSession.user = NoUser
      BY DEF NewSession
    <3>7. id \in Ids /\ id \notin DOMAIN sessions /\ (wp.cookie # NoId => id = wp.cookie)
          /\ \A d \in Clients \ {wp.client} : cookies[d] # NoId => cookies[d] # id
      BY <3>1, <3>2, <3>3 DEF id
    <3>8. QED BY <1>1, <2>1, <3>4, <3>5, <3>6, <3>7, NoIds
  <2>4. \/ o.session \in {NoId, Lost} /\ o.table = sessions /\ o.cookie = NoId
        \/ ~Full /\ o = [session |-> NewId, table |-> Made(NewId), counted |-> 1, cookie |-> NewId]
    BY <1>3 DEF GetSession
  <2>5. QED BY <2>2, <2>3, <2>4
<1>4. QED BY <1>2, <1>3

\* The request holds what websGetSession returned.
Takes(w, o) ==
  /\ w.client = wp.client /\ w.cookie = wp.cookie /\ w.session = o.session
  /\ w.setCookie = IF o.cookie # NoId THEN o.cookie ELSE wp.setCookie

LEMMA HoldingTakes ==
  ASSUME WebsInv, NEW o, NEW name
  PROVE  Takes(Holding(wp, o), o) /\ Takes(Verified(Holding(wp, o), name), o)
BY DEF Takes, Holding, Verified, WebsInv, WebsType

LEMMA PlainOwner ==
  ASSUME TableInv, WebsInv, OwnerInv, NEW o \in GetSession, NEW w, Takes(w, o)
  PROVE  Owner(cookies, w, o.table, member)
<1> USE OwnSession
<1>1. \A d \in Clients \ {w.client} : cookies[d] # NoId => cookies[d] \notin {w.cookie, w.session}
  BY DEF Takes, OwnerInv, Owner
<1>2. w.setCookie \in {NoId, w.session}
  BY DEF Takes, OwnerInv, Owner
<1>3. w.session # NoId /\ w.cookie \in DOMAIN o.table => w.session = w.cookie
  BY DEF Takes
<1>4. \A c \in Clients : cookies[c] \in DOMAIN o.table => o.table[cookies[c]].user \in {NoUser, member[c]}
  BY DEF OwnerInv, Owner
<1>5. \A s \in {w.cookie, w.session} \cap DOMAIN o.table : o.table[s].user \in {NoUser, member[w.client]}
  BY DEF Takes, OwnerInv, Owner
<1>6. \A c, d \in Clients : c # d /\ cookies[c] # NoId => cookies[c] # cookies[d]
  BY DEF OwnerInv, Owner
<1>7. QED BY <1>1, <1>2, <1>3, <1>4, <1>5, <1>6 DEF Owner

\* A login or a logout, which sets the user of the session and the member.
LEMMA SetOwner ==
  ASSUME TableInv, WebsInv, OwnerInv, wp.cookie = cookies[wp.client],
         NEW o \in GetSession, NEW user \in Who, NEW w, Takes(w, o)
  PROVE  Owner(cookies, w, SetUser(o, user), [member EXCEPT ![wp.client] = user])
<1> DEFINE t == SetUser(o, user)
           m == [member EXCEPT ![wp.client] = user]
<1>1. wp.client \in Clients /\ m \in [Clients -> Who]
      /\ \A c \in Clients : m[c] = IF c = wp.client THEN user ELSE member[c]
  BY DEF WebsInv, WebsType
<1>2. o.table \in Tables
  BY SessionOutcome DEF Outcomes
<1>3. DOMAIN t = DOMAIN o.table /\ DOMAIN t \subseteq Ids
  BY <1>2, SetUserTable DEF Tables
<1>4. \A s \in DOMAIN t : t[s].user = IF s = o.session THEN user ELSE o.table[s].user
  <2>1. CASE o.session \in DOMAIN o.table
    <3>1. t = [o.table EXCEPT ![o.session].user = user]
      BY <2>1 DEF SetUser
    <3>2. \A s \in DOMAIN o.table : o.table[s] \in [user : Who, left : Int]
      BY <1>2 DEF Tables
    <3>3. QED BY <1>3, <2>1, <3>1, <3>2
  <2>2. CASE o.session \notin DOMAIN o.table
    BY <1>3, <2>2 DEF SetUser
  <2>3. QED BY <2>1, <2>2
<1> HIDE DEF t, m
<1>5. Owner(cookies, w, o.table, member)
  BY PlainOwner
<1>6. w.client = wp.client /\ w.cookie = wp.cookie /\ w.session = o.session
  BY DEF Takes
<1>7. \A c \in Clients : cookies[c] \in DOMAIN t => t[cookies[c]].user \in {NoUser, m[c]}
  <2>1. SUFFICES ASSUME NEW c \in Clients, cookies[c] \in DOMAIN t
                 PROVE  t[cookies[c]].user \in {NoUser, m[c]}
    OBVIOUS
  <2>2. cookies[c] # NoId
    BY <1>3, <2>1, NoIds
  <2>3. CASE c = wp.client
    <3>1. cookies[c] = o.session
      BY <1>3, <2>1, <2>3, OwnSession
    <3>2. QED BY <1>1, <1>4, <2>1, <2>3, <3>1
  <2>4. CASE c # wp.client
    <3>1. cookies[c] # o.session
      BY <2>2, <2>4, OwnSession
    <3>2. QED BY <1>1, <1>3, <1>4, <1>5, <2>1, <2>4, <3>1 DEF Owner
  <2>5. QED BY <2>3, <2>4
<1>8. \A s \in {w.cookie, w.session} \cap DOMAIN t : t[s].user \in {NoUser, m[w.client]}
  <2>1. SUFFICES ASSUME NEW s \in {w.cookie, w.session} \cap DOMAIN t PROVE s = o.session
    BY <1>1, <1>4, <1>6
  <2>2. QED BY <1>3, <1>6, OwnSession
<1>9. QED BY <1>3, <1>5, <1>7, <1>8 DEF Owner, t, m

\* websAuthenticate looks for the user in the session of the cookie.
LEMMA LookedOwner ==
  ASSUME TableInv, WebsInv, OwnerInv, LookedUp, NEW w,
         w.client = Looked.client, w.cookie = Looked.cookie, w.session = Looked.session,
         w.setCookie = Looked.setCookie
  PROVE  Owner(cookies, w, sessions', member)
<1>1. Looked.client = wp.client /\ Looked.cookie = wp.cookie /\ Looked.setCookie = wp.setCookie
      /\ Looked.session = IF wp.cookie # NoId THEN Known ELSE wp.session
  BY DEF Looked, WebsInv, WebsType
<1>2. DOMAIN sessions' = DOMAIN sessions /\ \A s \in DOMAIN sessions : sessions'[s].user = sessions[s].user
  BY RenewedTable DEF LookedUp, Renewed, TableInv
<1>3. Known \in {wp.session, wp.cookie, NoId} /\ (wp.session # NoId => Known = wp.session)
  BY DEF Known
<1>4. NoId \notin DOMAIN sessions
  BY NoIds DEF TableInv
<1>5. \A d \in Clients \ {w.client} : cookies[d] # NoId => cookies[d] \notin {w.cookie, w.session}
  BY <1>1, <1>3 DEF OwnerInv, Owner
<1>6. w.setCookie \in {NoId, w.session}
  BY <1>1, <1>3 DEF OwnerInv, Owner
<1>7. w.session # NoId /\ w.cookie \in DOMAIN sessions => w.session = w.cookie
  BY <1>1, <1>3 DEF OwnerInv, Owner
<1>8. \A s \in {w.cookie, w.session} \cap DOMAIN sessions : sessions[s].user \in {NoUser, member[w.client]}
  BY <1>1, <1>3, <1>4 DEF OwnerInv, Owner
<1>9. QED BY <1>2, <1>5, <1>6, <1>7, <1>8 DEF OwnerInv, Owner

\* The user that is found is the client's last login, and found again.
LEMMA CachedMember ==
  ASSUME TableInv, OwnerInv
  PROVE  CachedUser \in {NoUser, member[wp.client]}
BY DEF CachedUser, Known, OwnerInv, Owner

LEMMA CachedAgain ==
  ASSUME TableInv, WebsInv, LookedUp, CachedUser # NoUser,
         wp' = [Looked EXCEPT !.username = CachedUser]
  PROVE  CachedUser' = CachedUser
<1>1. wp.cookie # NoId /\ Known \in DOMAIN sessions /\ CachedUser = sessions[Known].user
  BY DEF CachedUser
<1>2. wp'.cookie = wp.cookie /\ wp'.session = Known
  BY <1>1 DEF Looked, WebsInv, WebsType
<1>3. DOMAIN sessions' = DOMAIN sessions /\ sessions'[Known].user = sessions[Known].user
  BY <1>1, RenewedTable DEF LookedUp, Renewed, TableInv
<1>4. Known # NoId
  BY <1>1, NoIds DEF TableInv
<1>5. Known' = Known
  BY <1>2, <1>4 DEF Known
<1>6. QED BY <1>1, <1>2, <1>3, <1>5 DEF CachedUser

\* A refused login is answered.
LEMMA NotSilent ==
  ASSUME RedirectsComplete, LoopInv, pc = "auth", route.auth # NoAuth
  PROVE  Redirect(401, "login") # "silent"
<1>1. i \in DOMAIN Routes
  BY AccessAssumption DEF LoopInv
<1>2. QED BY <1>1 DEF RedirectsComplete, Redirect, route

(***************************************************************************)
(* The actions.                                                            *)
(***************************************************************************)

\* A step that leaves the sessions and who holds them alone.
LEMMA OwnerStays ==
  ASSUME OwnerInv, UNCHANGED <<sessions, cookies, member>>,
         wp'.client = wp.client, wp'.cookie = wp.cookie, wp'.session = wp.session,
         wp'.setCookie = wp.setCookie
  PROVE  OwnerInv'
BY DEF OwnerInv, Owner

\* The same name for the same request.
LEMMA NameStays ==
  ASSUME NameInv, UNCHANGED <<sessions, member>>,
         wp'.client = wp.client, wp'.cookie = wp.cookie, wp'.session = wp.session,
         wp'.ask = wp.ask, wp'.username = wp.username, wp'.user \in {NoUser, wp.username}
  PROVE  NameInv'
<1>1. CachedUser' = CachedUser
  BY DEF CachedUser, Known
<1>2. Claimed' = Claimed
  BY DEF Claimed
<1>3. QED BY <1>1, <1>2 DEF NameInv

\* A route that was passed stays passed, as the name stays.
LEMMA PassedStays ==
  ASSUME NEW r, Passed(r), wp'.client = wp.client, member' = member, wp'.username = wp.username
  PROVE  Passed(r)'
BY DEF Passed, Entitled, Open

LEMMA MatchesStays ==
  ASSUME NEW r, wp'.path = wp.path, wp'.ask = wp.ask
  PROVE  Matches(r)' = Matches(r)
BY DEF Matches, Under, safeMethod

LEMMA ServeRoute ==
  ASSUME ServedInv, Match \/ NoRoute
  PROVE  OwnerInv' /\ RoutingInv'
<1>1. OwnerInv /\ TableInv /\ WebsInv /\ LoopInv
  BY DEF ServedInv, AccessInv
<1>2. CASE Match
  <2>1. /\ UNCHANGED <<count, wp, table, pruneIn, cookies, reply, member>> /\ pc' = "auth" /\ pc = "match"
        /\ sessions' = sessions
    BY <1>2 DEF Match, At, Goto, table
  <2>2. Matching \in SUBSET Nat /\ Matching # {} /\ Matching \subseteq i .. Len(Routes) /\ i \in Nat
    BY <1>1, <1>2, AccessAssumption DEF Matching, Match, LoopInv
  <2>3. i' \in Matching /\ \A k \in Matching : i' <= k
    BY <1>2, <2>2, SmallestOfNat DEF Match
  <2>4. OwnerInv'
    BY <1>1, <2>1, OwnerStays
  <2>5. NameInv'
    BY <2>1, NameStays DEF ServedInv, RoutingInv, NameInv
  <2>6. ASSUME FirstRouteSafe, NEW n \in 1 .. Len(Routes), n < i', Matches(Routes[n])'
      PROVE  Passed(Routes[n])'
    <3>1. Matches(Routes[n])
      BY <2>1, <2>6, MatchesStays
    <3>2. n \notin Matching
      BY <2>2, <2>3, <2>6
    <3>3. n < i
      BY <2>2, <3>1, <3>2, AccessAssumption DEF Matching
    <3>4. Passed(Routes[n])
      BY <2>1, <2>6, <3>1, <3>3 DEF ServedInv, RoutingInv
    <3>5. QED BY <2>1, <3>4, PassedStays
  <2>7. QED BY <2>1, <2>4, <2>5, <2>6 DEF ServedInv, RoutingInv
<1>3. CASE NoRoute
  <2>1. /\ UNCHANGED <<wp, table, member>> /\ pc' = "done" /\ Send(wp, "406") /\ sessions' = sessions
    BY <1>3 DEF NoRoute, Goto, table
  <2>2. Owner(cookies', wp, sessions, member)
    BY <1>1, <2>1, SendOwner DEF OwnerInv, WebsInv
  <2>3. OwnerInv'
    BY <2>1, <2>2 DEF OwnerInv, Owner
  <2>4. QED BY <2>1, <2>3 DEF RoutingInv
<1>4. QED BY <1>2, <1>3

LEMMA ServeAuthNone ==
  ASSUME ServedInv, AuthNone
  PROVE  OwnerInv' /\ RoutingInv'
<1>1. /\ UNCHANGED <<loop, wp, table, pruneIn, cookies, reply, member>> /\ pc' = "can" /\ pc = "auth"
      /\ sessions' = sessions /\ i' = i /\ route.auth = NoAuth
  BY DEF AuthNone, At, Goto, table, loop
<1>2. OwnerInv'
  BY <1>1, OwnerStays DEF ServedInv
<1>3. NameInv'
  BY <1>1, NameStays DEF ServedInv, RoutingInv, NameInv
<1>4. ASSUME FirstRouteSafe, NEW n \in 1 .. Len(Routes), n < i', Matches(Routes[n])'
      PROVE  Passed(Routes[n])'
  <2>1. Matches(Routes[n])
    BY <1>1, <1>4, MatchesStays
  <2>2. Passed(Routes[n])
    BY <1>1, <1>4, <2>1 DEF ServedInv, RoutingInv
  <2>3. QED BY <1>1, <2>2, PassedStays
<1>5. route'.auth = NoAuth
  BY <1>1 DEF route
<1>6. QED BY <1>1, <1>2, <1>3, <1>4, <1>5 DEF ServedInv, RoutingInv

LEMMA ServeAuthCached ==
  ASSUME ServedInv, AuthCached
  PROVE  OwnerInv' /\ RoutingInv'
<1>1. TableInv /\ WebsInv /\ OwnerInv /\ NameInv
  <2>1. pc = "auth"
    BY DEF AuthCached, At
  <2>2. QED BY <2>1 DEF ServedInv, AccessInv, RoutingInv
<1>2. /\ UNCHANGED <<loop, pruneIn, cookies, reply, member>> /\ pc' = "can" /\ pc = "auth"
      /\ LookedUp /\ wp' = [Looked EXCEPT !.username = CachedUser] /\ i' = i
      /\ CachedUser # NoUser
  BY DEF AuthCached, At, Goto, loop
<1>3. /\ wp'.client = wp.client /\ wp'.cookie = wp.cookie /\ wp'.user = wp.user
      /\ wp'.ask = wp.ask /\ wp'.path = wp.path /\ wp'.username = CachedUser
      /\ wp'.session = Looked.session /\ wp'.setCookie = Looked.setCookie
      /\ Looked.client = wp.client /\ Looked.cookie = wp.cookie
  BY <1>1, <1>2 DEF Looked, WebsInv, WebsType
<1>4. OwnerInv'
  <2>1. Owner(cookies, wp', sessions', member)
    BY <1>1, <1>2, <1>3, LookedOwner
  <2>2. QED BY <1>2, <2>1 DEF OwnerInv, Owner
<1>5. CachedUser = member[wp.client]
  BY <1>1, <1>2, CachedMember
<1>6. wp.username \in {NoUser, CachedUser} /\ wp.user \in {NoUser, CachedUser}
  BY <1>1, <1>5 DEF NameInv
<1>7. NameInv'
  <2>1. CachedUser' # NoUser
    BY <1>1, <1>2, CachedAgain
  <2>2. QED BY <1>2, <1>3, <1>5, <1>6, <2>1 DEF NameInv
<1>8. ASSUME FirstRouteSafe, NEW n \in 1 .. Len(Routes), n < i', Matches(Routes[n])'
      PROVE  Passed(Routes[n])'
  <2>1. Matches(Routes[n])
    BY <1>3, <1>8, MatchesStays
  <2>2. Passed(Routes[n])
    BY <1>2, <1>8, <2>1 DEF ServedInv, RoutingInv
  <2>3. QED BY <1>2, <1>3, <2>2 DEF Passed, Entitled, Open
<1>9. QED BY <1>2, <1>3, <1>4, <1>7, <1>8 DEF ServedInv, RoutingInv

\* A step that replies.
LEMMA Replies ==
  ASSUME WebsInv, NEW w \in WebsType, w = wp', Owner(cookies, w, sessions', member'),
         NEW code, Send(w, code)
  PROVE  OwnerInv'
<1>1. Owner(cookies', w, sessions', member')
  BY SendOwner
<1>2. QED BY <1>1 DEF OwnerInv, Owner

LEMMA ServeAuthRefused ==
  ASSUME ServedInv, AuthWrongType \/ AuthRefused, RedirectsComplete
  PROVE  OwnerInv' /\ RoutingInv'
<1>1. TableInv /\ WebsInv /\ OwnerInv /\ LoopInv /\ Looked \in WebsType /\ member' = member
  BY LookedType DEF ServedInv, AccessInv, AuthWrongType, AuthRefused
<1>2. \E w \in WebsType : \E code : w = wp' /\ Send(w, code) /\ Owner(cookies, w, sessions', member)
  <2>1. CASE AuthWrongType
    <3>1. wp' = Looked /\ Send(wp, "400") /\ LookedUp
      BY <2>1 DEF AuthWrongType
    <3>2. Looked.client = wp.client /\ Looked.setCookie = wp.setCookie
      BY <1>1 DEF Looked, WebsInv, WebsType
    <3>3. Send(Looked, "400")
      BY <3>1, <3>2 DEF Send
    <3>4. Owner(cookies, Looked, sessions', member)
      BY <1>1, <3>1, LookedOwner
    <3>5. QED BY <1>1, <3>1, <3>3, <3>4
  <2>2. CASE AuthRefused
    <3> DEFINE w == Verified(Looked, Claimed)
               code == Redirect(401, "login")
    <3>1. wp' = w /\ Send(wp, code) /\ LookedUp
      BY <2>2 DEF AuthRefused
    <3>2. /\ w.client = Looked.client /\ w.cookie = Looked.cookie
          /\ w.session = Looked.session /\ w.setCookie = Looked.setCookie
      BY <1>1 DEF Verified, WebsType
    <3>3. Looked.client = wp.client /\ Looked.setCookie = wp.setCookie
      BY <1>1 DEF Looked, WebsInv, WebsType
    <3>4. w \in WebsType
      BY <1>1, NamesAsked, VerifiedType
    <3> HIDE DEF w, code
    <3>5. Send(w, code)
      BY <3>1, <3>2, <3>3 DEF Send
    <3>6. Owner(cookies, w, sessions', member)
      BY <1>1, <3>1, <3>2, LookedOwner
    <3>7. QED BY <3>1, <3>4, <3>5, <3>6
  <2>3. QED BY <2>1, <2>2
<1>3. OwnerInv'
  BY <1>1, <1>2, Replies
<1>4. pc' = "done"
  BY <1>1, NotSilent DEF AuthWrongType, AuthRefused, NotCached, At, Goto
<1>5. QED BY <1>3, <1>4 DEF RoutingInv

\* A password is verified: the name becomes that of the client.
LEMMA ServeAuthVerified ==
  ASSUME ServedInv, AuthVerified
  PROVE  OwnerInv' /\ RoutingInv'
<1> DEFINE name == Claimed
<1>1. pc = "auth" /\ pc' = "can" /\ i' = i /\ cookies' = cookies /\ CachedUser = NoUser
      /\ verify(name, FALSE) /\ member' = [member EXCEPT ![wp.client] = name]
  BY DEF AuthVerified, NotCached, At, Goto, loop
<1>2. TableInv /\ WebsInv /\ OwnerInv /\ NameInv /\ wp.cookie = cookies[wp.client]
  BY <1>1 DEF ServedInv, AccessInv, RoutingInv
<1>3. PICK o \in GetSession : sessions' = SetUser(o, name) /\ wp' = Verified(Holding(wp, o), name)
  BY DEF AuthVerified, Session
<1>4. name \in Who /\ name # NoUser /\ Verifier(name) = name
  BY <1>1, <1>2, VerifiedUser DEF verify
<1>5. Takes(wp', o)
  BY <1>2, <1>3, HoldingTakes
<1>6. OwnerInv'
  <2>1. Owner(cookies, wp', sessions', member')
    BY <1>1, <1>2, <1>3, <1>4, <1>5, SetOwner
  <2>2. QED BY <1>1, <2>1 DEF OwnerInv, Owner
<1>7. /\ wp'.client = wp.client /\ wp'.cookie = wp.cookie /\ wp'.ask = wp.ask /\ wp'.path = wp.path
      /\ wp'.username = name /\ wp'.user = name
  BY <1>2, <1>3, <1>4 DEF Verified, Holding, WebsInv, WebsType
<1>8. member'[wp.client] = name
  BY <1>1, <1>2 DEF WebsInv, WebsType
<1>9. NameInv'
  <2>1. Claimed' = name
    BY <1>7 DEF Claimed
  <2>2. wp.ask.authType # NoType
    BY <1>1, <1>2, <1>4 DEF NameInv, Claimed
  <2>3. QED BY <1>7, <1>8, <2>1, <2>2 DEF NameInv
<1>10. ASSUME FirstRouteSafe, NEW n \in 1 .. Len(Routes), n < i', Matches(Routes[n])'
      PROVE  Passed(Routes[n])'
  <2>1. Matches(Routes[n])
    BY <1>7, <1>10, MatchesStays
  <2>2. Passed(Routes[n])
    BY <1>1, <1>10, <2>1 DEF ServedInv, RoutingInv
  <2>3. CASE Open(Routes[n])
    BY <2>3 DEF Passed, Open
  <2>4. CASE wp.username # NoUser /\ Entitled(Routes[n])
    <3>1. wp.username = name /\ member[wp.client] = name
      BY <1>1, <1>2, <2>4 DEF NameInv
    <3>2. QED BY <1>4, <1>7, <1>8, <2>4, <3>1 DEF Passed, Entitled, Open
  <2>5. QED BY <2>2, <2>3, <2>4 DEF Passed
<1>11. QED BY <1>1, <1>2, <1>4, <1>6, <1>7, <1>9, <1>10 DEF RoutingInv

LEMMA ServeCan ==
  ASSUME ServedInv, Can \/ Cannot
  PROVE  OwnerInv' /\ RoutingInv'
<1>1. pc = "can" /\ TableInv /\ WebsInv /\ OwnerInv /\ NameInv
  BY DEF Can, Cannot, At, ServedInv, AccessInv, RoutingInv
<1>2. CASE Can
  <2>1. /\ pc' = "handler" /\ i' = i /\ UNCHANGED <<cookies, member, sessions>>
        /\ wp' = [wp EXCEPT !.user = IF route.abilities = {} THEN @ ELSE WhoAsks]
        /\ route.abilities = {} \/ websCan
    BY <1>2 DEF Can, Goto, loop, table
  <2>2. WhoAsks \in {NoUser, wp.username}
    BY <1>1 DEF WhoAsks, Account, NameInv
  <2>3. /\ wp'.client = wp.client /\ wp'.cookie = wp.cookie /\ wp'.ask = wp.ask /\ wp'.path = wp.path
        /\ wp'.session = wp.session /\ wp'.setCookie = wp.setCookie /\ wp'.username = wp.username
        /\ wp'.user \in {NoUser, wp.username}
    BY <1>1, <2>1, <2>2 DEF NameInv, WebsInv, WebsType
  <2>4. OwnerInv'
    BY <1>1, <2>1, <2>3, OwnerStays
  <2>5. NameInv'
    BY <1>1, <2>1, <2>3, NameStays
  <2>6. ASSUME FirstRouteSafe, NEW n \in 1 .. Len(Routes), n < i', Matches(Routes[n])'
      PROVE  Passed(Routes[n])'
    <3>1. Matches(Routes[n])
      BY <2>3, <2>6, MatchesStays
    <3>2. Passed(Routes[n])
      BY <1>1, <2>1, <2>6, <3>1 DEF ServedInv, RoutingInv
    <3>3. QED BY <2>1, <2>3, <3>2, PassedStays
  <2>7. Passed(route)
    <3>1. CASE route.abilities = {}
      <4>1. CASE route.auth = NoAuth
        BY <3>1, <4>1 DEF Passed, Open
      <4>2. CASE route.auth # NoAuth
        <5>1. wp.username # NoUser /\ member[wp.client] = wp.username
          BY <1>1, <4>2 DEF ServedInv, RoutingInv, NameInv
        <5>2. QED BY <3>1, <5>1 DEF Passed, Entitled
      <4>3. QED BY <4>1, <4>2
    <3>2. CASE websCan
      <4>1. wp.username # NoUser /\ WhoAsks = wp.username /\ member[wp.client] = wp.username
        BY <1>1, <2>2, <3>2 DEF websCan, NameInv
      <4>2. {member[wp.client]} \X route.abilities \subseteq Held
        BY <3>2, <4>1, AbilitiesHeld DEF websCan
      <4>3. QED BY <4>1, <4>2 DEF Passed, Entitled
    <3>3. QED BY <2>1, <3>1, <3>2
  <2>8. Passed(route)'
    <3>1. PICK r : r = route
      OBVIOUS
    <3>2. Passed(r)'
      BY <2>1, <2>3, <2>7, <3>1, PassedStays
    <3>3. route' = r
      BY <2>1, <3>1 DEF route
    <3>4. QED BY <3>2, <3>3 DEF Passed, Open, Entitled
  <2>9. QED BY <1>1, <2>1, <2>3, <2>4, <2>5, <2>6, <2>8 DEF ServedInv, RoutingInv
<1>3. CASE Cannot
  <2>1. pc' = "done" /\ wp' = wp /\ Send(wp, "401") /\ UNCHANGED <<member, sessions>>
    BY <1>3 DEF Cannot, Goto, table
  <2>2. OwnerInv'
    BY <1>1, <2>1, Replies DEF OwnerInv, WebsInv
  <2>3. QED BY <2>1, <2>2 DEF RoutingInv
<1>4. QED BY <1>2, <1>3

\* The next route is looked for: the one behind is passed.
LEMMA ServeOn ==
  ASSUME ServedInv, pc = "handler", pc' = "match", i' = NextRoute,
         UNCHANGED <<wp, cookies, member, sessions>>
  PROVE  OwnerInv' /\ RoutingInv'
<1>1. i \in 1 .. Len(Routes) /\ i' = i + 1 /\ Len(Routes) \in Nat
  BY AccessAssumption DEF ServedInv, AccessInv, LoopInv, NextRoute
<1>2. OwnerInv'
  BY OwnerStays DEF ServedInv
<1>3. NameInv'
  BY NameStays DEF ServedInv, RoutingInv, NameInv
<1>4. ASSUME FirstRouteSafe, NEW n \in 1 .. Len(Routes), n < i', Matches(Routes[n])'
      PROVE  Passed(Routes[n])'
  <2>1. Matches(Routes[n])
    BY <1>4, MatchesStays
  <2>2. n < i \/ n = i
    BY <1>1, <1>4
  <2>3. Passed(Routes[n])
    BY <1>4, <2>1, <2>2 DEF ServedInv, RoutingInv, route
  <2>4. QED BY <2>3, PassedStays
<1>5. QED BY <1>2, <1>3, <1>4 DEF ServedInv, RoutingInv

\* A rewritten request goes on behind the first route, which would have let
\* it pass.
LEMMA ServeRewritten ==
  ASSUME ServedInv, Test, wp.path = <<"/">>
  PROVE  OwnerInv' /\ RoutingInv'
<1>1. /\ TableInv /\ WebsInv /\ OwnerInv /\ NameInv /\ pc = "handler"
      /\ i \in 1 .. Len(Routes) /\ Len(Routes) \in Nat /\ wp.cookie = cookies[wp.client]
  BY AccessAssumption DEF ServedInv, AccessInv, RoutingInv, LoopInv, Test, Handler, At
<1>2. /\ wp' = [wp EXCEPT !.path = <<"/", "home">>] /\ UNCHANGED <<member, sessions>>
      /\ \/ pc' = "done" /\ Send(wp, "406")
         \/ pc' = "match" /\ i' = 2 /\ UNCHANGED <<cookies, reply>>
  BY DEF Test, Goto, table
<1>3. /\ wp'.client = wp.client /\ wp'.cookie = wp.cookie /\ wp'.ask = wp.ask
      /\ wp'.session = wp.session /\ wp'.setCookie = wp.setCookie
      /\ wp'.username = wp.username /\ wp'.user = wp.user /\ wp'.path = <<"/", "home">>
  BY <1>1, <1>2 DEF WebsInv, WebsType
<1>4. CASE pc' = "done" /\ Send(wp, "406")
  <2>1. Owner(cookies', wp, sessions, member)
    BY <1>1, <1>4, SendOwner DEF OwnerInv, WebsInv
  <2>2. OwnerInv'
    BY <1>2, <1>3, <2>1 DEF OwnerInv, Owner
  <2>3. QED BY <1>4, <2>2 DEF RoutingInv
<1>5. CASE pc' = "match" /\ i' = 2 /\ UNCHANGED <<cookies, reply>>
  <2>1. OwnerInv'
    BY <1>1, <1>2, <1>3, <1>5, OwnerStays
  <2>2. NameInv'
    BY <1>1, <1>2, <1>3, NameStays DEF NameInv
  <2>3. ASSUME FirstRouteSafe, NEW n \in 1 .. Len(Routes), n < i', Matches(Routes[n])'
      PROVE  Passed(Routes[n])'
    <3>1. n = 1 /\ Len(Routes) > 0
      BY <1>1, <1>5, <2>3
    <3>2. Under(<<"/", "home">>, Routes[1].uri)
      BY <1>3, <2>3, <3>1 DEF Matches, Under
    <3>3. Open(Routes[1])
      BY <2>3, <3>1, <3>2 DEF FirstRouteSafe
    <3>4. QED BY <3>1, <3>3 DEF Passed, Open
  <2>4. QED BY <1>1, <1>3, <1>5, <2>1, <2>2, <2>3 DEF RoutingInv
<1>6. QED BY <1>2, <1>4, <1>5

LEMMA ServeHandler ==
  ASSUME ServedInv, Continue \/ Test \/ File \/ NoAction
  PROVE  OwnerInv' /\ RoutingInv'
<1>1. CASE Continue
  <2>1. pc = "handler" /\ pc' = "match" /\ i' = NextRoute /\ UNCHANGED <<wp, cookies, member, sessions>>
    BY <1>1 DEF Continue, Handler, At, Goto, table
  <2>2. QED BY <2>1, ServeOn
<1>2. CASE Test
  <2>1. CASE wp.path = <<"/">>
    BY <1>2, <2>1, ServeRewritten
  <2>2. CASE wp.path # <<"/">>
    <3>1. pc = "handler" /\ pc' = "match" /\ i' = NextRoute /\ UNCHANGED <<wp, cookies, member, sessions>>
      BY <1>2, <2>2 DEF Test, Handler, At, Goto, table
    <3>2. QED BY <3>1, ServeOn
  <2>3. QED BY <2>1, <2>2
<1>3. CASE File \/ NoAction
  <2>1. /\ pc' = "done" /\ wp' = wp /\ UNCHANGED <<member, sessions>>
        /\ Send(wp, "page") \/ Send(wp, "404")
    BY <1>3 DEF File, NoAction, Goto, table
  <2>2. WebsInv /\ wp \in WebsType /\ Owner(cookies, wp, sessions', member')
    BY <2>1 DEF ServedInv, AccessInv, OwnerInv, WebsInv
  <2>3. OwnerInv'
    BY <2>1, <2>2, Replies
  <2>4. QED BY <2>1, <2>3 DEF RoutingInv
<1>4. QED BY <1>1, <1>2, <1>3

LEMMA ServeLogin ==
  ASSUME ServedInv, Login \/ LoginFails
  PROVE  OwnerInv' /\ RoutingInv'
<1> DEFINE name == wp.ask.user
<1>1. /\ pc = "handler" /\ TableInv /\ WebsInv /\ OwnerInv /\ wp.cookie = cookies[wp.client]
  BY DEF Login, LoginFails, Action, Handler, At, ServedInv, AccessInv, RoutingInv
<1>2. CASE Login
  <2>1. PICK o \in GetSession : sessions' = SetUser(o, name) /\ wp' = Verified(Holding(wp, o), name)
    BY <1>2 DEF Login, Session
  <2>2. /\ verify(name, wp.encoded) /\ member' = [member EXCEPT ![wp.client] = name]
        /\ pc' = "greet" /\ cookies' = cookies
    BY <1>2 DEF Login, Goto
  <2>3. name \in Who
    BY <1>1, <2>2, VerifiedUser
  <2>4. Takes(wp', o)
    BY <1>1, <2>1, HoldingTakes
  <2>5. Owner(cookies, wp', sessions', member')
    BY <1>1, <2>1, <2>2, <2>3, <2>4, SetOwner
  <2>6. QED BY <2>2, <2>5 DEF OwnerInv, Owner, RoutingInv
<1>3. CASE LoginFails
  <2>1. PICK o \in GetSession :
          sessions' = o.table /\ wp' = Verified(Holding(wp, o), name)
          /\ Send(Holding(wp, o), Redirect(401, "login"))
    BY <1>3 DEF LoginFails, Session
  <2>2. member' = member /\ pc' = "done"
    BY <1>3 DEF LoginFails, Goto
  <2> DEFINE h == Holding(wp, o)
             w == Verified(h, name)
             code == Redirect(401, "login")
  <2>3. h \in WebsType /\ w \in WebsType
    BY <1>1, HoldingType, NamesAsked, VerifiedType
  <2>4. w.client = h.client /\ w.setCookie = h.setCookie
    BY <2>3 DEF Verified, WebsType
  <2>5. Takes(w, o)
    BY <1>1, HoldingTakes
  <2>6. w = wp' /\ Send(h, code) /\ sessions' = o.table
    BY <2>1
  <2> HIDE DEF h, w, code
  <2>7. Send(w, code)
    BY <2>4, <2>6 DEF Send
  <2>8. Owner(cookies, w, sessions', member')
    BY <1>1, <2>2, <2>5, <2>6, PlainOwner
  <2>9. OwnerInv'
    BY <1>1, <2>3, <2>6, <2>7, <2>8, Replies
  <2>10. QED BY <2>2, <2>9 DEF RoutingInv
<1>4. QED BY <1>2, <1>3

LEMMA ServeGreet ==
  ASSUME ServedInv, Greet \/ Mark
  PROVE  OwnerInv' /\ RoutingInv'
<1>1. TableInv /\ WebsInv /\ OwnerInv /\ member' = member /\ pc' \in {"mark", "done"}
  BY DEF Greet, Mark, Goto, ServedInv, AccessInv
<1>2. PICK o \in GetSession :
        /\ sessions' = o.table /\ wp' = Holding(wp, o)
        /\ cookies' = cookies \/ Send(Holding(wp, o), Redirect(200, "ok"))
  BY DEF Greet, Mark, Session
<1> DEFINE w == Holding(wp, o)
           code == Redirect(200, "ok")
<1>3. w \in WebsType /\ Takes(w, o)
  BY <1>1, HoldingType, HoldingTakes
<1>4. w = wp' /\ (cookies' = cookies \/ Send(w, code))
  BY <1>2
<1> HIDE DEF w, code
<1>5. Owner(cookies, w, sessions', member')
  BY <1>1, <1>2, <1>3, PlainOwner
<1>6. CASE cookies' = cookies
  BY <1>1, <1>4, <1>5, <1>6 DEF OwnerInv, Owner, RoutingInv
<1>7. CASE Send(w, code)
  <2>1. OwnerInv'
    BY <1>1, <1>3, <1>4, <1>5, <1>7, Replies
  <2>2. QED BY <1>1, <2>1 DEF RoutingInv
<1>8. QED BY <1>4, <1>6, <1>7

LEMMA ServeLogout ==
  ASSUME ServedInv, Logout
  PROVE  OwnerInv' /\ RoutingInv'
<1> DEFINE code == IF wp.ask.authType = "basic" THEN "401" ELSE Redirect(200, "ok")
<1>1. /\ TableInv /\ WebsInv /\ OwnerInv /\ wp.cookie = cookies[wp.client] /\ pc' = "done"
      /\ member' = [member EXCEPT ![wp.client] = NoUser]
  BY DEF Logout, Action, Handler, At, Goto, ServedInv, AccessInv, RoutingInv
<1>2. PICK o \in GetSession :
        sessions' = SetUser(o, NoUser) /\ wp' = Holding(wp, o) /\ Send(Holding(wp, o), code)
  BY DEF Logout, Session, LoggedOut
<1> DEFINE w == Holding(wp, o)
<1>3. w \in WebsType /\ Takes(w, o)
  BY <1>1, HoldingType, HoldingTakes
<1>4. w = wp' /\ Send(w, code)
  BY <1>2
<1> HIDE DEF w, code
<1>5. NoUser \in Who
  BY DEF Who
<1>6. Owner(cookies, w, sessions', member')
  BY <1>1, <1>2, <1>3, <1>5, SetOwner
<1>7. OwnerInv'
  BY <1>1, <1>3, <1>4, <1>6, Replies
<1>8. QED BY <1>1, <1>7 DEF RoutingInv

\* A request that arrives brings the cookie of its client and no name.
LEMMA ServeTurn ==
  ASSUME ServedInv, Done \/ (\E c \in Clients, r \in Requests : Arrive(c, r))
  PROVE  OwnerInv' /\ RoutingInv'
<1>1. /\ TableInv /\ WebsInv /\ OwnerInv /\ UNCHANGED <<sessions, cookies, member>>
      /\ NoId \notin DOMAIN sessions
  BY NoIds DEF Done, Arrive, table, ServedInv, AccessInv, TableInv
<1>2. CASE Done
  <2>1. pc' = "idle" /\ wp' = NoRequest
    BY <1>2 DEF Done, Goto
  <2>2. NoRequest.cookie = NoId /\ NoRequest.session = NoId /\ NoRequest.setCookie = NoId
    BY DEF NoRequest
  <2>3. Owner(cookies, NoRequest, sessions, member)
    BY <1>1, <2>2 DEF OwnerInv, Owner
  <2>4. QED BY <1>1, <2>1, <2>2, <2>3 DEF OwnerInv, Owner, RoutingInv
<1>3. ASSUME NEW c \in Clients, NEW r \in Requests, Arrive(c, r)
      PROVE  OwnerInv' /\ RoutingInv'
  <2>1. /\ pc' = "match" /\ i' = 1 /\ wp'.client = c /\ wp'.cookie = cookies[c]
        /\ wp'.username = NoUser /\ wp'.user = NoUser /\ wp'.session = NoId /\ wp'.setCookie = NoId
    BY <1>3 DEF Arrive, Goto
  <2>2. OwnerInv'
    BY <1>1, <2>1 DEF OwnerInv, Owner
  <2>3. NameInv'
    BY <2>1 DEF NameInv
  <2>4. \A n \in 1 .. Len(Routes) : ~(n < i')
    BY <2>1, AccessAssumption
  <2>5. QED BY <1>1, <2>1, <2>2, <2>3, <2>4 DEF RoutingInv
<1>4. QED BY <1>2, <1>3

\* Between requests.
LEMMA ServeIdle ==
  ASSUME ServedInv, Tick \/ pruneCache \/ (\E c \in Clients : Forget(c))
  PROVE  OwnerInv' /\ RoutingInv'
<1>1. TableInv /\ WebsInv /\ OwnerInv /\ pc = "idle" /\ pc' = pc /\ wp' = wp
      /\ wp.cookie = NoId /\ wp.session = NoId /\ NoId \notin DOMAIN sessions
  BY NoIds DEF Tick, pruneCache, Forget, At, ServedInv, AccessInv, RoutingInv, TableInv
<1>2. CASE Tick \/ pruneCache
  <2>1. UNCHANGED <<cookies, member>> /\ DOMAIN sessions' \subseteq DOMAIN sessions
        /\ \A s \in DOMAIN sessions' : sessions'[s].user = sessions[s].user
    BY <1>1, <1>2 DEF Tick, pruneCache, TableInv
  <2>2. QED BY <1>1, <2>1 DEF OwnerInv, Owner, RoutingInv
<1>3. ASSUME NEW c \in Clients, Forget(c) PROVE OwnerInv' /\ RoutingInv'
  <2>1. /\ cookies' = [cookies EXCEPT ![c] = NoId] /\ member' = [member EXCEPT ![c] = NoUser]
        /\ sessions' = sessions
    BY <1>3 DEF Forget, table
  <2>2. \A d \in Clients : /\ cookies'[d] = IF d = c THEN NoId ELSE cookies[d]
                           /\ member'[d] = IF d = c THEN NoUser ELSE member[d]
    BY <1>1, <2>1 DEF WebsInv
  <2>3. QED BY <1>1, <2>1, <2>2 DEF OwnerInv, Owner, RoutingInv
<1>4. QED BY <1>2, <1>3

LEMMA ServeStutter ==
  ASSUME ServedInv, UNCHANGED vars
  PROVE  OwnerInv' /\ RoutingInv'
<1>1. /\ pc' = pc /\ i' = i /\ wp' = wp /\ sessions' = sessions /\ cookies' = cookies
      /\ member' = member
  BY DEF vars, loop, table
<1>2. OwnerInv'
  BY <1>1 DEF ServedInv, OwnerInv, Owner
<1>3. RoutingInv'
  BY <1>1 DEF ServedInv, RoutingInv, NameInv, CachedUser, Known, Claimed, Passed, Open, Entitled,
              Matches, Under, safeMethod, route
<1>4. QED BY <1>2, <1>3

LEMMA ServedKeeps ==
  ASSUME RedirectsComplete
  PROVE  ServedInv /\ [Next]_vars => ServedInv'
<1> SUFFICES ASSUME ServedInv, [Next]_vars PROVE OwnerInv' /\ RoutingInv'
  BY NextKeeps DEF ServedInv
<1>1. CASE websRouteRequest
  BY <1>1, ServeRoute DEF websRouteRequest
<1>2. CASE websAuthenticate
  BY <1>2, ServeAuthNone, ServeAuthCached, ServeAuthRefused, ServeAuthVerified DEF websAuthenticate
<1>3. CASE Handle
  BY <1>3, ServeCan, ServeHandler, ServeLogin, ServeGreet, ServeLogout, ServeTurn DEF Handle
<1>4. CASE \E c \in Clients, r \in Requests : Arrive(c, r)
  BY <1>4, ServeTurn
<1>5. CASE (\E c \in Clients : Forget(c)) \/ pruneCache \/ Tick
  BY <1>5, ServeIdle
<1>6. CASE UNCHANGED vars
  BY <1>6, ServeStutter
<1>7. QED BY <1>1, <1>2, <1>3, <1>4, <1>5, <1>6 DEF Next, Thread

(***************************************************************************)
(* The theorem.                                                            *)
(***************************************************************************)

\* A handler serves a request only to who is entitled to it under every
\* route up to its own that matches, for every route table with the two
\* properties, every set of users, roles and requests, every number of
\* clients and sessions (websRouteRequest, websAuthenticate, websCan).
THEOREM OnlyEntitledServed ==
  ASSUME FirstRouteSafe, RedirectsComplete
  PROVE  Spec => []ServedRight
<1>1. ServedInv /\ [Next]_vars => ServedInv'
  BY ServedKeeps
<1>2. Spec => []ServedInv
  BY ServedInit, <1>1, PTL DEF Spec
<1>3. ServedInv => ServedRight
  BY InvServes
<1>4. QED BY <1>2, <1>3, PTL

(***************************************************************************)
(* Who is refused.                                                         *)
(***************************************************************************)

LEMMA Heights ==
  ASSUME NEW height, RolesWithin(height)
  PROVE  /\ \A x \in Names : height[x] \in Nat /\ height[x] <= DepthMax
         /\ \A r \in DOMAIN Roles : \A k \in DOMAIN Roles[r] :
              k \in Nat \ {0} /\ Roles[r][k] \in Names /\ height[r] >= k + height[Roles[r][k]]
BY NamedByRole, AccessAssumption DEF RolesWithin

LEMMA EnteredRow ==
  ASSUME NEW n \in 0 .. DepthMax, NEW x \in Names
  PROVE  computeAbilities[n][x] =
           IF x \in DOMAIN Roles
           THEN UNION {IF k <= n THEN computeAbilities[n - k][Roles[x][k]] ELSE {} : k \in DOMAIN Roles[x]}
           ELSE {x}
BY ComputeAbilities DEF Entered

\* From its height on it does not matter at what depth a role is entered.
LEMMA EnteredSame ==
  ASSUME NEW height, RolesWithin(height), NEW x \in Names,
         NEW n \in 0 .. DepthMax, height[x] <= n
  PROVE  computeAbilities[n][x] = computeAbilities[DepthMax][x]
<1> DEFINE Same(y, m) == computeAbilities[m][y] = computeAbilities[DepthMax][y]
           Bad == {h \in 0 .. DepthMax : \E y \in Names, m \in 0 .. DepthMax :
                     height[y] = h /\ h <= m /\ ~Same(y, m)}
<1>1. Bad = {}
  <2>1. SUFFICES ASSUME Bad # {} PROVE FALSE
    OBVIOUS
  <2>a. Bad \subseteq Nat
    BY AccessAssumption
  <2> HIDE DEF Bad
  <2>2. PICK h \in Bad : \A k \in Bad : h <= k
    BY <2>1, <2>a, LeastOf
  <2> USE DEF Bad
  <2>3. PICK y \in Names, m \in 0 .. DepthMax : height[y] = h /\ h <= m /\ ~Same(y, m)
    BY <2>2
  <2>4. DepthMax \in 0 .. DepthMax
    BY AccessAssumption
  <2>9. h \in 0 .. DepthMax
    BY <2>2
  <2>5. ASSUME NEW j \in 0 .. DepthMax
        PROVE  computeAbilities[j][y] =
                 IF y \in DOMAIN Roles
                 THEN UNION {IF k <= j THEN computeAbilities[j - k][Roles[y][k]] ELSE {} : k \in DOMAIN Roles[y]}
                 ELSE {y}
    BY EnteredRow
  <2>6. y \in DOMAIN Roles
    BY <2>3, <2>4, <2>5
  <2>7. ASSUME NEW k \in DOMAIN Roles[y], NEW j \in 0 .. DepthMax, h <= j
        PROVE  k <= j /\ computeAbilities[j - k][Roles[y][k]] = computeAbilities[DepthMax][Roles[y][k]]
    <3> DEFINE z == Roles[y][k]
    <3>1. /\ z \in Names /\ height[z] \in Nat /\ k \in Nat \ {0} /\ height[y] = h
          /\ h \in Nat /\ h >= k + height[z] /\ height[z] <= DepthMax
      BY <2>3, <2>6, <2>9, Heights
    <3>2. j - k \in 0 .. DepthMax /\ height[z] <= j - k /\ k <= j
      BY <2>7, <3>1, AccessAssumption
    <3>3. ~(h <= height[z]) /\ height[z] \in 0 .. DepthMax
      BY <3>1, AccessAssumption
    <3>4. height[z] \notin Bad
      BY <2>2, <3>3
    <3>5. QED BY <3>1, <3>2, <3>3, <3>4
  <2>8. ASSUME NEW j \in 0 .. DepthMax, h <= j
        PROVE  computeAbilities[j][y] =
                 UNION {computeAbilities[DepthMax][Roles[y][k]] : k \in DOMAIN Roles[y]}
    <3> DEFINE F(k) == IF k <= j THEN computeAbilities[j - k][Roles[y][k]] ELSE {}
               G(k) == computeAbilities[DepthMax][Roles[y][k]]
    <3>1. \A k \in DOMAIN Roles[y] : F(k) = G(k)
      BY <2>7, <2>8
    <3>2. computeAbilities[j][y] = UNION {F(k) : k \in DOMAIN Roles[y]}
      BY <2>5, <2>6
    <3> HIDE DEF F
    <3>3. {F(k) : k \in DOMAIN Roles[y]} = {G(k) : k \in DOMAIN Roles[y]}
      BY <3>1
    <3>4. QED BY <3>2, <3>3
  <2>10. h <= DepthMax
    BY <2>9, AccessAssumption
  <2>11. QED BY <2>3, <2>4, <2>8, <2>10
<1>2. height[x] \in 0 .. DepthMax
  BY Heights, AccessAssumption
<1>3. QED BY <1>1, <1>2

\* What a closed set has, the smallest has only if all have it.
LEMMA HoldsInAll ==
  ASSUME NEW u \in DOMAIN Users, NEW V \in SUBSET Names, ClosedFor(u, V)
  PROVE  Holds(u) \subseteq V \ DOMAIN Roles
<1> DEFINE Smallest(T) == ClosedFor(u, T) /\ \A W \in SUBSET T : ClosedFor(u, W) => W = T
           M == {x \in Names : \A T \in SUBSET Names : ClosedFor(u, T) => x \in T}
<1>1. ClosedFor(u, M)
  <2>1. ASSUME NEW k \in DOMAIN Users[u] PROVE Users[u][k] \in M
    BY NamedByUser DEF ClosedFor
  <2>2. ASSUME NEW r \in M \cap DOMAIN Roles, NEW k \in DOMAIN Roles[r] PROVE Roles[r][k] \in M
    BY NamedByRole DEF ClosedFor
  <2>3. QED BY <2>1, <2>2 DEF ClosedFor
<1>2. M \in SUBSET Names /\ M \subseteq V
  OBVIOUS
<1>3. Smallest(M)
  <2>1. ASSUME NEW W \in SUBSET M, ClosedFor(u, W) PROVE W = M
    BY <2>1
  <2>2. QED BY <1>1, <2>1
<1>4. Holds(u) = (CHOOSE T \in SUBSET Names : Smallest(T)) \ DOMAIN Roles
  BY DEF Holds, ClosedFor
<1>5. ASSUME NEW T \in SUBSET Names, Smallest(T) PROVE M = T
  <2>1. M \in SUBSET T
    BY <1>5
  <2>2. QED BY <1>1, <1>5, <2>1
<1> HIDE DEF Smallest, M
<1>6. \E T \in SUBSET Names : Smallest(T)
  BY <1>2, <1>3
<1>7. (CHOOSE T \in SUBSET Names : Smallest(T)) = M
  BY <1>5, <1>6
<1>8. QED BY <1>2, <1>4, <1>7

\* Where no role is too deep, a user has all abilities that its roles give.
LEMMA HeldEntered ==
  ASSUME NEW height, RolesWithin(height)
  PROVE  Held \subseteq Abilities
<1> SUFFICES ASSUME NEW u \in DOMAIN Users, NEW a \in Holds(u)
             PROVE  <<u, a>> \in Abilities
  BY DEF Held
<1> DEFINE E(x) == computeAbilities[DepthMax][x]
           All == UNION {E(Users[u][k]) : k \in DOMAIN Users[u]}
           V == {x \in Names : E(x) \subseteq All}
<1>0. DepthMax \in 0 .. DepthMax
  BY AccessAssumption
<1>1. ASSUME NEW x \in Names
      PROVE  E(x) = IF x \in DOMAIN Roles
                    THEN UNION {IF k <= DepthMax THEN computeAbilities[DepthMax - k][Roles[x][k]] ELSE {} :
                                  k \in DOMAIN Roles[x]}
                    ELSE {x}
  BY <1>0, EnteredRow
<1>2. \A k \in DOMAIN Users[u] : Users[u][k] \in V
  BY NamedByUser
<1>3. ASSUME NEW r \in V \cap DOMAIN Roles, NEW k \in DOMAIN Roles[r]
      PROVE  Roles[r][k] \in V
  <2> DEFINE z == Roles[r][k]
  <2>1. /\ r \in Names /\ z \in Names /\ k \in Nat \ {0} /\ height[r] \in Nat /\ height[r] <= DepthMax
        /\ height[z] \in Nat /\ height[r] >= k + height[z]
    BY Heights
  <2>2. k <= DepthMax /\ DepthMax - k \in 0 .. DepthMax /\ height[z] <= DepthMax - k
    BY <2>1, AccessAssumption
  <2>3. computeAbilities[DepthMax - k][z] = E(z)
    BY <2>1, <2>2, EnteredSame
  <2>4. E(z) \subseteq E(r)
    <3>1. E(r) = UNION {IF m <= DepthMax THEN computeAbilities[DepthMax - m][Roles[r][m]] ELSE {} :
                         m \in DOMAIN Roles[r]}
      BY <1>1, <2>1
    <3>2. computeAbilities[DepthMax - k][z] \subseteq
            UNION {IF m <= DepthMax THEN computeAbilities[DepthMax - m][Roles[r][m]] ELSE {} :
                     m \in DOMAIN Roles[r]}
      BY <2>2
    <3>3. QED BY <2>3, <3>1, <3>2
  <2>5. QED BY <2>1, <2>4
<1>4. ClosedFor(u, V)
  BY <1>2, <1>3 DEF ClosedFor
<1>5. a \in V \ DOMAIN Roles
  <2>1. V \in SUBSET Names
    OBVIOUS
  <2> HIDE DEF V
  <2>2. QED BY <1>4, <2>1, HoldsInAll
<1>6. a \in All
  BY <1>1, <1>5
<1>7. <<u, a>> \in {u} \X All
  BY <1>6
<1>8. QED BY <1>7 DEF Abilities

\* Until a request is answered there is no reply, and between authentication
\* and handler the route is one that matches.
Unanswered ==
  /\ pc \in {"auth", "can", "handler"} => Matches(route)
  /\ pc \in {"idle", "match", "auth", "can", "handler", "greet"} => reply = "none"
  /\ pc = "mark" => reply \in {"none", "ok"}

RefusedInv == ServedInv /\ Unanswered /\ RefusedRight

\* An answer that is no refusal.
LEMMA Answer ==
  ASSUME pc' = "done", reply' \notin {"login", "401"}
  PROVE  Unanswered' /\ RefusedRight'
BY DEF Unanswered, RefusedRight, At

\* A step towards an answer.
LEMMA Onward ==
  ASSUME Unanswered, pc \in {"match", "auth", "can", "handler"}, reply' = reply,
         pc' \in {"match", "auth", "can", "handler"}, pc' # "match" => Matches(route)'
  PROVE  Unanswered' /\ RefusedRight'
BY DEF Unanswered, RefusedRight, At

LEMMA SendGives ==
  ASSUME NEW w, NEW code, Send(w, code)
  PROVE  reply' = IF code = "silent" THEN reply ELSE code
BY DEF Send

LEMMA RefusedRoute ==
  ASSUME RefusedInv, Match \/ NoRoute \/ AuthNone \/ AuthCached \/ AuthVerified
  PROVE  Unanswered' /\ RefusedRight'
<1>1. CASE Match
  <2>1. pc = "match" /\ pc' = "auth" /\ reply' = reply /\ wp' = wp
    BY <1>1 DEF Match, At, Goto
  <2>2. Matching \in SUBSET Nat /\ Matching # {}
    BY <1>1, AccessAssumption DEF Matching, Match, RefusedInv, ServedInv, AccessInv, LoopInv
  <2>3. i' \in Matching
    BY <1>1, <2>2, SmallestOfNat DEF Match
  <2>4. Matches(Routes[i'])
    BY <2>3 DEF Matching
  <2>5. Matches(route)'
    BY <2>1, <2>4 DEF Matches, Under, safeMethod, route
  <2>6. QED BY <2>1, <2>5, Onward DEF RefusedInv
<1>2. CASE NoRoute
  BY <1>2, SendGives, Answer DEF NoRoute, Goto
<1>3. CASE AuthNone \/ AuthCached \/ AuthVerified
  <2>1. /\ pc = "auth" /\ pc' = "can" /\ reply' = reply /\ i' = i /\ WebsInv /\ Matches(route)
    BY <1>3 DEF AuthNone, AuthCached, AuthVerified, NotCached, At, Goto, loop, RefusedInv,
                Unanswered, ServedInv, AccessInv
  <2>2. wp'.path = wp.path /\ wp'.ask = wp.ask
    <3>1. CASE AuthNone
      BY <3>1 DEF AuthNone
    <3>2. CASE AuthCached
      BY <2>1, <3>2 DEF AuthCached, Looked, WebsInv, WebsType
    <3>3. CASE AuthVerified
      BY <2>1, <3>3 DEF AuthVerified, Verified, Holding, WebsInv, WebsType
    <3>4. QED BY <1>3, <3>1, <3>2, <3>3
  <2>3. route' = route
    BY <2>1 DEF route
  <2>4. Matches(route)'
    BY <2>1, <2>2, <2>3 DEF Matches, Under, safeMethod
  <2>5. QED BY <2>1, <2>4, Onward DEF RefusedInv
<1>4. QED BY <1>1, <1>2, <1>3

\* A login that is refused: nobody was logged in, and the name is not known
\* or its password is wrong.
LEMMA RefusedLogin ==
  ASSUME RefusedInv, AuthRefused, RedirectsComplete
  PROVE  Unanswered' /\ RefusedRight'
<1> DEFINE name == Claimed
<1>1. /\ pc = "auth" /\ TableInv /\ WebsInv /\ OwnerInv /\ LoopInv /\ NameInv
      /\ CachedUser = NoUser /\ route.auth # NoAuth /\ ~verify(name, FALSE) /\ LookedUp
      /\ wp' = Verified(Looked, name) /\ Send(wp, Redirect(401, "login"))
  BY DEF AuthRefused, NotCached, At, RefusedInv, ServedInv, AccessInv, RoutingInv
<1>2. pc' = "done" /\ i' = i /\ reply' = Redirect(401, "login")
  BY <1>1, NotSilent, SendGives DEF AuthRefused, Goto, loop
<1>3. /\ Looked.cookie = wp.cookie /\ Looked.ask = wp.ask /\ Looked.path = wp.path
      /\ Looked.user = wp.user /\ Looked \in WebsType
  BY <1>1, LookedType DEF Looked, WebsInv, WebsType
<1>4. wp'.cookie = wp.cookie /\ wp'.ask = wp.ask /\ wp'.username = name /\ wp'.user = Verifier(name)
  BY <1>1, <1>3 DEF Verified, WebsType
<1>5. wp.cookie \notin DOMAIN sessions' \/ sessions'[wp.cookie].user = NoUser
  <2>1. DOMAIN sessions' = DOMAIN sessions /\ \A s \in DOMAIN sessions : sessions'[s].user = sessions[s].user
    BY <1>1, RenewedTable DEF LookedUp, Renewed, TableInv
  <2>2. CASE wp.cookie \in DOMAIN sessions
    <3>1. wp.cookie # NoId
      BY <1>1, <2>2, NoIds DEF TableInv
    <3>2. Known = wp.cookie
      BY <1>1, <2>2 DEF Known, OwnerInv, Owner
    <3>3. sessions[wp.cookie].user = NoUser
      BY <1>1, <2>2, <3>1, <3>2 DEF CachedUser
    <3>4. QED BY <2>1, <2>2, <3>3
  <2>3. QED BY <2>1, <2>2
<1>6. WhoAsks' = NoUser \/ (wp.ask.authType # NoType /\ ~wp.ask.good)
  <2>1. name = NoUser \/ Verifier(name) # name \/ ~wp.ask.good
    BY <1>1 DEF verify
  <2>2. wp.user \in {NoUser, wp.username} /\ (wp.username # NoUser => wp.username = name)
    BY <1>1 DEF NameInv
  <2>3. wp.user # NoUser => Verifier(name) = name /\ name # NoUser
    BY <2>2 DEF Verifier
  <2>4. Account(name) \in {NoUser, name}
    BY DEF Account
  <2>5. WhoAsks' = IF Verifier(name) # NoUser THEN Verifier(name) ELSE Account(name)
    BY <1>4 DEF WhoAsks, Account
  <2>6. CASE name = NoUser \/ Verifier(name) # name
    <3>1. wp.user = NoUser /\ Verifier(name) = Account(name)
      BY <2>3, <2>6 DEF Verifier
    <3>2. Account(name) = NoUser
      BY <2>4, <2>6, <3>1
    <3>3. QED BY <2>5, <3>1, <3>2
  <2>7. CASE name # NoUser /\ ~wp.ask.good
    <3>1. wp.ask.authType # NoType
      BY <1>1, <2>7 DEF NameInv, Claimed
    <3>2. QED BY <2>7, <3>1
  <2>8. QED BY <2>1, <2>6, <2>7
<1>7. RefusedRight'
  BY <1>4, <1>5, <1>6 DEF RefusedRight
<1>8. QED BY <1>2, <1>7 DEF Unanswered

\* Who lacks an ability that the route asks for.
LEMMA RefusedCan ==
  ASSUME RefusedInv, Can \/ Cannot, Held \subseteq Abilities
  PROVE  Unanswered' /\ RefusedRight'
<1>1. CASE Can
  <2>1. pc = "can" /\ pc' = "handler" /\ reply' = reply /\ i' = i /\ WebsInv /\ Matches(route)
    BY <1>1 DEF Can, At, Goto, loop, RefusedInv, Unanswered, ServedInv, AccessInv
  <2>2. wp'.path = wp.path /\ wp'.ask = wp.ask
    BY <1>1, <2>1 DEF Can, WebsInv, WebsType
  <2>3. route' = route
    BY <2>1 DEF route
  <2>4. Matches(route)'
    BY <2>1, <2>2, <2>3 DEF Matches, Under, safeMethod
  <2>5. QED BY <2>1, <2>4, Onward DEF RefusedInv
<1>2. CASE Cannot
  <2>1. pc' = "done" /\ i' = i /\ wp' = wp /\ reply' = "401" /\ ~websCan
    BY <1>2, SendGives DEF Cannot, Goto, loop
  <2>2. WhoAsks # NoUser => ~({WhoAsks} \X route.abilities \subseteq Held)
    BY <2>1 DEF websCan
  <2>3. WhoAsks' = WhoAsks /\ route' = route
    BY <2>1 DEF WhoAsks, Account, route
  <2>4. QED BY <2>1, <2>2, <2>3 DEF RefusedRight, Unanswered
<1>3. QED BY <1>1, <1>2

LEMMA RefusedHandler ==
  ASSUME RefusedInv, Continue \/ Test \/ File \/ NoAction
  PROVE  Unanswered' /\ RefusedRight'
<1>1. pc = "handler"
  BY DEF Continue, Test, File, NoAction, Handler, At
<1>2. \/ pc' = "match" /\ reply' = reply
      \/ pc' = "done" /\ reply' \in {"406", "page", "404"}
  <2>1. CASE Continue
    BY <2>1 DEF Continue, Goto
  <2>2. CASE Test
    BY <2>2, SendGives DEF Test, Goto
  <2>3. CASE File \/ NoAction
    BY <2>3, SendGives DEF File, NoAction, Goto
  <2>4. QED BY <2>1, <2>2, <2>3
<1>3. CASE pc' = "match" /\ reply' = reply
  BY <1>1, <1>3, Onward DEF RefusedInv
<1>4. CASE pc' = "done" /\ reply' \in {"406", "page", "404"}
  BY <1>4, Answer
<1>5. QED BY <1>2, <1>3, <1>4

\* loginServiceProc, whose refusals are for who asked at /action.
LEMMA RefusedAction ==
  ASSUME RefusedInv, Login \/ LoginFails \/ Greet \/ Mark \/ Logout, ActionPaths
  PROVE  Unanswered' /\ RefusedRight'
<1>1. CASE Login
  BY <1>1 DEF Login, Action, Handler, At, Goto, RefusedInv, Unanswered, RefusedRight
<1>2. CASE Greet
  <2>1. /\ pc = "greet" /\ pc' = "mark"
        /\ \E o \in GetSession : Send(Holding(wp, o), Redirect(200, "ok"))
    BY <1>2 DEF Greet, At, Goto
  <2>2. reply = "none" /\ Redirect(200, "ok") \in {"ok", "silent"}
    BY <2>1 DEF RefusedInv, Unanswered, Redirect
  <2>3. reply' \in {"none", "ok"}
    BY <2>1, <2>2, SendGives
  <2>4. QED BY <2>1, <2>3 DEF Unanswered, RefusedRight, At
<1>3. CASE Mark
  <2>1. pc' = "done" /\ reply' \in {"none", "ok"}
    BY <1>3 DEF Mark, At, Goto, RefusedInv, Unanswered
  <2>2. QED BY <2>1, Answer
<1>4. CASE LoginFails
  <2>1. /\ pc = "handler" /\ pc' = "done" /\ route.handler = "action" /\ i' = i /\ WebsInv
        /\ reply = "none" /\ Matches(route) /\ i \in DOMAIN Routes
    BY <1>4, AccessAssumption DEF LoginFails, Action, Handler, At, Goto, loop, RefusedInv,
          Unanswered, ServedInv, AccessInv, LoopInv
  <2>2. PICK o \in GetSession : wp' = Verified(Holding(wp, o), wp.ask.user)
    BY <1>4 DEF LoginFails
  <2>3. wp'.path = wp.path /\ route'.handler = "action"
    BY <2>1, <2>2 DEF Verified, Holding, WebsInv, WebsType, route
  <2>4. wp.path[2] = "action"
    <3> DEFINE uri == Routes[i].uri
    <3>1. Len(uri) \in Nat /\ Len(uri) > 1 /\ uri[2] = "action"
      BY <2>1, AccessAssumption DEF ActionPaths, route
    <3>2. SubSeq(wp.path, 1, Len(uri)) = uri
      BY <2>1 DEF Matches, Under, route
    <3>3. QED BY <3>1, <3>2
  <2>5. QED BY <2>1, <2>3, <2>4 DEF RefusedRight, Unanswered, At
<1>5. CASE Logout
  <2>1. /\ pc' = "done" /\ route.handler = "action" /\ i' = i
    BY <1>5 DEF Logout, Action, Handler, Goto, loop
  <2>2. reply' # "login"
    <3>1. pc = "handler" /\ reply = "none"
      BY <1>5 DEF Logout, Action, Handler, At, RefusedInv, Unanswered
    <3>2. Redirect(200, "ok") \in {"ok", "silent"}
      BY DEF Redirect
    <3>3. PICK o \in GetSession :
            Send(Holding(wp, o), IF wp.ask.authType = "basic" THEN "401" ELSE Redirect(200, "ok"))
      BY <1>5 DEF Logout
    <3>4. QED BY <3>1, <3>2, <3>3, SendGives
  <2>3. route'.handler = "action"
    BY <2>1 DEF route
  <2>4. QED BY <2>1, <2>2, <2>3 DEF RefusedRight, Unanswered
<1>6. QED BY <1>1, <1>2, <1>3, <1>4, <1>5

LEMMA RefusedTurn ==
  ASSUME RefusedInv,
         \/ Done \/ (\E c \in Clients, r \in Requests : Arrive(c, r))
         \/ Tick \/ pruneCache \/ (\E c \in Clients : Forget(c))
  PROVE  Unanswered' /\ RefusedRight'
<1>1. pc' \in {"idle", "match"} /\ reply' = "none"
  BY DEF Done, Arrive, Tick, pruneCache, Forget, At, Goto, RefusedInv, Unanswered
<1>2. QED BY <1>1 DEF Unanswered, RefusedRight, At

LEMMA RefusedStutter ==
  ASSUME RefusedInv, UNCHANGED vars
  PROVE  Unanswered' /\ RefusedRight'
<1>1. pc' = pc /\ i' = i /\ wp' = wp /\ sessions' = sessions /\ reply' = reply
  BY DEF vars, loop, table
<1>2. Unanswered'
  BY <1>1 DEF RefusedInv, Unanswered, Matches, Under, safeMethod, route
<1>3. RefusedRight'
  BY <1>1 DEF RefusedInv, RefusedRight, At, WhoAsks, Account, route
<1>4. QED BY <1>2, <1>3

LEMMA RefusedKeeps ==
  ASSUME RedirectsComplete, ActionPaths, Held \subseteq Abilities
  PROVE  RefusedInv /\ [Next]_vars => RefusedInv'
<1> SUFFICES ASSUME RefusedInv, [Next]_vars PROVE Unanswered' /\ RefusedRight'
  BY ServedKeeps DEF RefusedInv
<1>1. CASE websRouteRequest
  BY <1>1, RefusedRoute DEF websRouteRequest
<1>2. CASE websAuthenticate
  <2>1. CASE AuthWrongType
    BY <2>1, SendGives, Answer DEF AuthWrongType, Goto
  <2>2. QED BY <1>2, <2>1, RefusedRoute, RefusedLogin DEF websAuthenticate
<1>3. CASE Handle
  BY <1>3, RefusedCan, RefusedHandler, RefusedAction, RefusedTurn DEF Handle
<1>4. CASE (\E c \in Clients, r \in Requests : Arrive(c, r)) \/ (\E c \in Clients : Forget(c))
           \/ pruneCache \/ Tick
  BY <1>4, RefusedTurn
<1>5. CASE UNCHANGED vars
  BY <1>5, RefusedStutter
<1>6. QED BY <1>1, <1>2, <1>3, <1>4, <1>5 DEF Next, Thread

\* Nobody who is logged in is sent to log in, and nobody is refused for want
\* of an ability that its roles give, for every route table that answers a
\* refused login, every set of users and roles that computeAbilities gets to
\* the end of, and every number of clients and sessions (websAuthenticate,
\* websCan, computeUserAbilities).
THEOREM OnlyOthersRefused ==
  ASSUME RedirectsComplete, ActionPaths, NEW height, RolesWithin(height)
  PROVE  Spec => []RefusedRight
<1>1. RefusedInv /\ [Next]_vars => RefusedInv'
  BY HeldEntered, RefusedKeeps
<1>2. Init => RefusedInv
  <2>1. Init => Unanswered /\ RefusedRight
    BY DEF Init, Unanswered, RefusedRight, At
  <2>2. QED BY <2>1, ServedInit DEF RefusedInv
<1>3. RefusedInv => RefusedRight
  BY DEF RefusedInv
<1>4. Spec => []RefusedInv
  BY <1>1, <1>2, PTL DEF Spec
<1>5. QED BY <1>3, <1>4, PTL
=============================================================================
