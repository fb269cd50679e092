------------------------------ MODULE CgiStart ------------------------------
(***************************************************************************)
(* How cgiHandler (cgi.c) starts a program: its path, its arguments, its   *)
(* environment, and what is left behind when it cannot.  What the program  *)
(* does then is the concern of WebsServer.                                 *)
(***************************************************************************)
EXTENDS Requests

CONSTANT ArgpSize   \* pointers that argp is made for (10); it doubles

UF == INSTANCE UrlForms

\* The path taken apart at the slashes behind the prefix and the name.
NameAt(path) == LET k == SelectInSeq(Tail(path), LAMBDA c : c = "/") IN IF k = 0 THEN 0 ELSE k + 1
Prefix(path) == SubSeq(path, 1, NameAt(path) - 1)
Behind(path) == From(path, NameAt(path) + 1)
CgiName(path) ==
  LET k == SelectInSeq(Behind(path), LAMBDA c : c = "/")
  IN IF k = 0 THEN Behind(path) ELSE SubSeq(Behind(path), 1, k - 1)
ExtraPath(path) == From(Behind(path), Len(CgiName(path)) + 1)

\* An array of pointers that is filled one by one: its items, the pointers it
\* has memory for, and whether one was written behind it.
NewArray(size) == [items |-> << >>, size |-> size, over |-> FALSE]
Store(a, x) == [a EXCEPT !.items = Append(@, x), !.over = @ \/ Len(a.items) >= a.size]
Grow(a) == IF Len(a.items) >= a.size THEN [a EXCEPT !.size = 2 * @] ELSE a
\* The null pointer at its end.
Ended(a) == [a EXCEPT !.over = @ \/ Len(a.items) >= a.size]

\* The words of a query that has no =, once it is decoded.
Argp(cgiPath, query) ==
  LET words == IF SelectInSeq(query, LAMBDA c : c = "=") # 0 THEN << >>
               ELSE Tokens(U!websDecodeUrl(query, -1), {" "})
  IN Ended(FoldLeft(LAMBDA a, w : Grow(Store(a, w)), Store(NewArray(ArgpSize), cgiPath), words))

\* The variables that the program is told: name=value for each.
Envp(vars) ==
  {name \o <<"=">> \o vars[name] : name \in DOMAIN vars \ {<<"REMOTE_HOST">>, <<"HTTP_AUTHORIZATION">>}}

\* cgiHandler, for a program that is there ("ok") or not, and that can be
\* spawned or not.  The directory is not changed back when it is not there.
cgiHandler(wp, dir, file, spawns) ==
  LET told == websSetEnv(wp)
      path == wp.path
      extra == ExtraPath(path)
      cgiPath == dir \o Prefix(path) \o <<"/">> \o CgiName(path)
      vars == (<<"PATH_INFO">> :> extra
               @@ <<"PATH_TRANSLATED">> :> (IF extra = << >> THEN << >> ELSE dir \o Prefix(path) \o extra)
               @@ <<"SCRIPT_NAME">> :> Prefix(path) \o <<"/">> \o CgiName(path)
               @@ <<"SCRIPT_FILENAME">> :> cgiPath) @@ told.vars
      out(code, cwd, v) == [wp |-> [Failed(told, code) EXCEPT !.vars = v], cwd |-> cwd, job |-> << >>]
  IN IF NameAt(path) = 0 THEN out(404, "cwd", told.vars)
     ELSE IF file # "ok" THEN out(404, "dir", vars)
     ELSE IF ~ spawns THEN out(500, "cwd", vars)
     ELSE [wp |-> [told EXCEPT !.vars = vars], cwd |-> "cwd",
           job |-> <<[argp |-> Argp(cgiPath, wp.query), envp |-> Envp(vars), fplacemark |-> 0]>>]

----------------------------------------------------------------------------
(* What it promises.  A request r names a prefix, a program and a path     *)
(* behind it, and has a query of words, or of a pair. *)

WriteQuery(r) ==
  FlattenSeq([k \in DOMAIN r.words |-> (IF k = 1 THEN << >> ELSE <<"+">>) \o UF!Encode(r.words[k])]) \o r.pair
WritePath(r) ==
  <<"/", "cgi-bin">> \o (IF r.name = << >> THEN << >> ELSE <<"/">> \o r.name) \o r.extra

Told(job, name, value) == name \o <<"=">> \o value \in job.envp

\* A program that is there gets its words as arguments, and a complete
\* environment in which no client has set a variable of the server's.
StartsAs(out, r) ==
  LET program == r.name # << >> /\ r.file = "ok" /\ r.spawns
      script == <<"/", "cgi-bin", "/">> \o r.name
  IN /\ (out.job # << >>) <=> program
     /\ out.wp.code = IF program THEN 200 ELSE IF r.name # << >> /\ r.file = "ok" THEN 500 ELSE 404
     /\ program =>
          /\ out.job[1].argp.items =
               <<r.dir \o script>> \o (IF r.pair # << >> THEN << >> ELSE r.words)
          /\ ~ out.job[1].argp.over
          /\ Told(out.job[1], <<"SCRIPT_NAME">>, script) /\ Told(out.job[1], <<"SCRIPT_FILENAME">>, r.dir \o script)
          /\ Told(out.job[1], <<"PATH_INFO">>, r.extra)
          /\ Told(out.job[1], <<"QUERY_STRING">>, WriteQuery(r))
          /\ Told(out.job[1], <<"REQUEST_METHOD">>, r.method)
          /\ Cardinality(out.job[1].envp) = Cardinality(DOMAIN out.wp.vars \ {<<"REMOTE_HOST">>, <<"HTTP_AUTHORIZATION">>})
=============================================================================
