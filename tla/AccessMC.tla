------------------------------ MODULE AccessMC ------------------------------
(***************************************************************************)
(* The routes, users and roles of the test server (test/route.txt,         *)
(* test/auth.txt), without those whose routing is like another's, and      *)
(* requests for them.  The first route asks besides for the ability that   *)
(* the roles nest deepest: with DepthMax = 4, computeAbilities finds it at  *)
(* its last level and no deeper.                                           *)
(***************************************************************************)
EXTENDS Access

Plain == [uri |-> <<"/">>, protocol |-> "any", methods |-> {}, extensions |-> {},
          auth |-> NoAuth, abilities |-> {}, handler |-> "file", redirects |-> << >>]

MCRoutes ==
  << [Plain EXCEPT !.uri = <<"/", "auth", "basic">>, !.auth = "basic",
                   !.abilities = {"manage", "breathe"}],
     [Plain EXCEPT !.uri = <<"/", "auth", "form", "login">>],
     [Plain EXCEPT !.uri = <<"/", "action", "login">>, !.methods = {"POST"},
                   !.handler = "action", !.redirects = 200 :> "index" @@ 401 :> "login"],
     [Plain EXCEPT !.uri = <<"/", "action", "logout">>, !.methods = {"GET", "POST"},
                   !.handler = "action", !.redirects = 200 :> "login"],
     [Plain EXCEPT !.uri = <<"/", "auth", "form">>, !.auth = "form",
                   !.handler = "continue", !.abilities = {"manage"},
                   !.redirects = 401 :> "login"],
     [Plain EXCEPT !.uri = <<"/", "action">>, !.handler = "action"],
     [Plain EXCEPT !.handler = "test"],
     [Plain EXCEPT !.extensions = {"jst"}],
     [Plain EXCEPT !.protocol = "https"],
     Plain >>

MCRoles == [user |-> <<"view", "person">>, person |-> <<"breathe">>,
            administrator |-> <<"user", "manage">>]
MCUsers == [joshua |-> <<"administrator", "purchase">>, julie |-> <<"user">>]

Get(path) == [path |-> path, method |-> "GET", protocol |-> "http", ext |-> "html",
              authType |-> NoType, user |-> NoUser, good |-> FALSE]
Basic(user, good) ==
  [Get(<<"/", "auth", "basic">>) EXCEPT !.authType = "basic", !.user = user, !.good = good]
LoginAs(user, good) ==
  [Get(<<"/", "action", "login">>) EXCEPT !.method = "POST", !.user = user, !.good = good]

FormPage == Get(<<"/", "auth", "form", "page">>)
LogoutPage == Get(<<"/", "action", "logout">>)

MCRequests ==
  {Get(<<"/">>), [Get(<<"/">>) EXCEPT !.method = "DELETE"], Get(<<"/", "action", "other">>),
   FormPage, [FormPage EXCEPT !.authType = "basic", !.user = "joshua", !.good = TRUE],
   Get(<<"/", "auth", "basic">>), Basic("joshua", TRUE), Basic("joshua", FALSE),
   Basic("julie", TRUE),
   LoginAs("joshua", TRUE), LoginAs("joshua", FALSE), LoginAs("julie", TRUE),
   LogoutPage, [LogoutPage EXCEPT !.authType = "basic"]}

\* What the theorems OnlyEntitledServed and OnlyOthersRefused ask of routes
\* and roles.
MCHeight == [n \in Names |-> CASE n = "person" -> 1 [] n = "user" -> 3
                               [] n = "administrator" -> 4 [] OTHER -> 0]
ASSUME RoutesAssumption == FirstRouteSafe /\ RedirectsComplete /\ ActionPaths
ASSUME RolesAssumption == RolesWithin(MCHeight)
=============================================================================
