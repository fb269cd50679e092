---------------------------- MODULE RequestForms ----------------------------
(***************************************************************************)
(* What reading a request promises: its head is written down from its      *)
(* parts [method, url, version, headers, body], a header from its          *)
(* [name, pad, value], a form from its pairs [name, value].                *)
(***************************************************************************)
EXTENDS Requests

UF == INSTANCE UrlForms
Cal == INSTANCE Calendar

WriteHead(r) ==
  <<r.method, " ">> \o UF!WriteUrl(r.url) \o <<" ", r.version>> \o CRLF
  \o FlattenSeq([i \in DOMAIN r.headers |->
       r.headers[i].name \o <<":">> \o r.headers[i].pad \o r.headers[i].value \o CRLF])
  \o CRLF \o r.body

\* The last header of a name; NULL if there is none.
ValueOf(r, name) ==
  LET i == SelectLastInSeq(r.headers, LAMBDA h : Fold(h.name) = name)
  IN IF i = 0 THEN NULL ELSE r.headers[i].value
Given(r, name) == ValueOf(r, name) # NULL
Length(r) == IF Given(r, <<"content", "-", "length">>) THEN atoi(ValueOf(r, <<"content", "-", "length">>)) ELSE -1
Chunked(r) == ValueOf(r, <<"transfer-encoding">>) \in {<<"chunked">>, <<"Chunked">>}
KeptAlive(r) ==
  LET wish == ValueOf(r, <<"connection">>)
  IN IF wish = NULL THEN r.version = "HTTP/1.1" ELSE Fold(wish) = <<"keep-alive">>

\* The parts come back; a header that is repeated counts with its last value.
HeadAs(out, r) ==
  LET wp == out.wp
      limit == IF Fold(<<r.method>>) = <<"PUT">> THEN LimitPut ELSE LimitPost
      tooLong == Len(UF!WriteUrl(r.url)) > LimitUri
      tooMany == Len(r.headers) > LimitHeaders
      tooLarge == \E i \in DOMAIN r.headers : r.headers[i].name = <<"content", "-", "length">>
                                              /\ atoi(r.headers[i].value) > limit
  IN /\ wp.code = 200 <=> ~ tooLong /\ ~ tooMany /\ ~ tooLarge
     /\ wp.code # 200 => "keepAlive" \notin wp.flags
     /\ wp.code = 200 =>
          /\ wp.method = Fold(<<r.method>>)
          /\ wp.path = UF!Clean(UF!Kept(r.url.segments)) /\ wp.query = r.url.query
          /\ wp.host = IF Given(r, <<"host">>) THEN ValueOf(r, <<"host">>)
                       ELSE IF r.url.host = << >> THEN <<"localhost">> ELSE r.url.host
          /\ \A i \in DOMAIN r.headers :
               wp.vars[VarName(Fold(r.headers[i].name))] = ValueOf(r, Fold(r.headers[i].name))
          /\ wp.rxLen = Length(r) /\ wp.rxChunked = Chunked(r)
          /\ ~ Chunked(r) /\ wp.method # <<"HEAD">> => wp.rxRemaining = Max({Length(r), 0})
          /\ wp.eof <=> ~ Chunked(r) /\ (Length(r) <= 0 \/ wp.method = <<"HEAD">>)
          /\ "keepAlive" \in wp.flags <=> KeptAlive(r)
          /\ wp.cookie = ValueOf(r, <<"cookie">>)
          /\ Given(r, <<"authorization">>) =>
               wp.authType = <<"basic">> /\ wp.authDetails = Tail(Tail(ValueOf(r, <<"authorization">>)))
          /\ out.rest = (IF Chunked(r) THEN CRLF ELSE << >>) \o r.body

----------------------------------------------------------------------------
(* Forms. *)

WriteForm(pairs) ==
  FlattenSeq([i \in DOMAIN pairs |->
    (IF i = 1 THEN << >> ELSE <<"&">>) \o UF!Encode(pairs[i].name) \o <<"=">> \o UF!Encode(pairs[i].value)])
Values(pairs, name) == SelectSeq(pairs, LAMBDA p : p.name = name)
Joined(pairs) ==
  FlattenSeq([i \in DOMAIN pairs |-> (IF i = 1 THEN << >> ELSE <<" ">>) \o pairs[i].value])

\* f: the pairs of the query and of the body.  Each name has all its values in
\* their order, those of the query first; and the server's own names stand.
FormAs(out, f) ==
  LET all == SelectSeq(f.query \o f.body, LAMBDA p : p.name # << >>)
  IN /\ DOMAIN out.vars = {all[i].name : i \in DOMAIN all}
     /\ \A name \in DOMAIN out.vars : out.vars[name] = Joined(Values(all, name))
     /\ out.again = out.vars
     /\ out.env[<<"QUERY_STRING">>] = WriteForm(f.query)
     /\ \A name \in DOMAIN out.vars \ {<<"QUERY_STRING">>} : out.env[name] = out.vars[name]

----------------------------------------------------------------------------
(* Answers. *)

\* A location by its parts; a port is written down unless it is the scheme's.
PartsOf(location) ==
  LET slash == SelectInSeq(location, LAMBDA c : c = "/")
      colon == SelectInSeq(location, LAMBDA c : c = ":")
      ported == colon # 0 /\ colon < slash
  IN [scheme |-> location[1], host |-> SubSeq(location, 2, (IF ported THEN colon ELSE slash) - 1),
      port |-> IF ported THEN location[colon + 1] ELSE IF location[1] = U!HTTPS THEN "443" ELSE "80",
      path |-> From(location, slash)]

\* in: [uri, secure, host, port (0 if the client names none), url, ports].
RedirectAs(location, in) ==
  LET uri == in.uri
      own == IF in.secure THEN U!HTTPS ELSE U!HTTP
      absolute == uri[1] \in {U!HTTP, U!HTTPS}
      scheme == IF absolute THEN uri[1] ELSE own
      port == IF ~ absolute /\ in.port > 0 THEN in.port ELSE in.ports[scheme]
  IN IF absolute /\ Len(uri) > 1 /\ uri[2] # "/" THEN location = uri
     ELSE PartsOf(location) =
            [scheme |-> scheme, host |-> in.host, port |-> ToString(port),
             path |-> IF ~ absolute THEN uri ELSE IF Len(uri) = 1 THEN in.url ELSE Tail(uri)]

\* The attributes of the cookie, each once.
Attributes(text) ==
  LET at == <<0>> \o SetToSortSeq({i \in DOMAIN text : text[i] = "; "}, LAMBDA a, b : a < b) \o <<Len(text) + 1>>
  IN [i \in 1 .. Len(at) - 1 |-> SubSeq(text, at[i] + 1, at[i + 1] - 1)]
CookieAs(text, host, c) ==
  LET a == Attributes(text)
      flags == (IF "secure" \in c.flags THEN {<<"secure">>} ELSE {})
               \cup (IF "httponly" \in c.flags THEN {<<"httponly">>} ELSE {})
      domains == {x \in ToSet(a) : x[1] = "domain"}
      expires == {x \in ToSet(a) : x[1] = "expires"}
  IN /\ a[1] = c.name \o <<"=">> \o c.value
     /\ a[2] = <<"path", "=">> \o (IF c.path = NULL THEN <<"/">> ELSE c.path)
     /\ \A x \in domains : "." \in ToSet(x) /\ ":" \notin ToSet(x)
     /\ domains = {} <=> (c.domain = NULL /\ host[1] = "localhost") \/ c.domain = <<"localhost">>
     /\ expires = {} <=> c.lifespan = 0
     /\ ToSet(a) = {a[1], a[2]} \cup domains \cup expires \cup flags
     /\ Len(a) = Cardinality(ToSet(a))
=============================================================================
