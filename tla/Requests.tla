------------------------------ MODULE Requests ------------------------------
(***************************************************************************)
(* What http.c reads from the head of a request and from its forms, and    *)
(* the redirects and cookies it answers with.  A text is a sequence of     *)
(* symbols: characters, and words that nothing looks into.  The variables  *)
(* of a request are a function of the names that are set.                  *)
(***************************************************************************)
EXTENDS Strings

CONSTANTS
  LimitUri,       \* BIT_GOAHEAD_LIMIT_URI
  LimitHeaders,   \* BIT_GOAHEAD_LIMIT_NUM_HEADERS
  LimitPost,      \* BIT_GOAHEAD_LIMIT_POST and BIT_GOAHEAD_LIMIT_PUT
  LimitPut

U == INSTANCE Urls
D == INSTANCE Dates

Blank == {" ", "\t"}
CRLF == <<"\r", "\n">>

\* Where a text first occurs in another one (strstr), 0 if it does not.
Find(s, t) ==
  LET at == {i \in 1 .. (Len(s) - Len(t) + 1) : SubSeq(s, i, i + Len(t) - 1) = t}
  IN IF at = {} THEN 0 ELSE Min(at)

\* A word of the upper case is written as that of the lower case.
LowerWord == "Host" :> "host" @@ "GET" :> "GET" @@ "get" :> "GET" @@ "Keep-Alive" :> "keep-alive"
             @@ "Chunked" :> "chunked" @@ "Basic" :> "basic"
Fold(s) == [i \in DOMAIN s |-> IF s[i] \in DOMAIN LowerWord THEN LowerWord[s[i]] ELSE tolower(s[i])]

----------------------------------------------------------------------------
(* The variables. *)

websSetVar(vars, name, value) == (name :> (IF value = NULL THEN << >> ELSE value)) @@ vars
websTestVar(vars, name) == name # << >> /\ name \in DOMAIN vars
websGetVar(vars, name, default) == IF name \in DOMAIN vars THEN vars[name] ELSE default
websCompareVar(vars, name, value) == value = websGetVar(vars, name, <<"__UNDEF__">>)

\* One keyword of a form: what it has already is kept in front.
AddFormVar(vars, pair) ==
  LET eq == SelectInSeq(pair, LAMBDA c : c = "=")
      keyword == IF eq = 0 THEN pair ELSE U!websDecodeUrl(SubSeq(pair, 1, eq - 1), -1)
      value == IF eq = 0 THEN << >> ELSE U!websDecodeUrl(From(pair, eq + 1), -1)
      prior == websGetVar(vars, keyword, NULL)
  IN IF keyword = << >> THEN vars
     ELSE websSetVar(vars, keyword, IF prior = NULL THEN value ELSE prior \o <<" ">> \o value)
addFormVars(vars, text) == FoldLeft(AddFormVar, vars, Tokens(text, {"&"}))

websSetQueryVars(wp) ==
  IF wp.query # << >> THEN [wp EXCEPT !.vars = addFormVars(@, wp.query)] ELSE wp
websSetFormVars(wp, input) ==
  IF wp.rxLen > 0 /\ input # << >> /\ "form" \in wp.flags THEN [wp EXCEPT !.vars = addFormVars(@, input)]
  ELSE wp

\* The part of websRouteRequest that sets them, once for a request.
AddVars(wp, input) ==
  IF "varsAdded" \in wp.flags THEN wp
  ELSE [websSetFormVars(websSetQueryVars(wp), input) EXCEPT !.flags = @ \cup {"varsAdded"}]

\* The variables that are the same for all requests of a connection.
Connected ==
  [name \in {<<"REMOTE_ADDR">>, <<"REMOTE_HOST">>, <<"REQUEST_TRANSPORT">>, <<"SERVER_ADDR">>, <<"SERVER_HOST">>,
             <<"SERVER_NAME">>, <<"SERVER_PORT">>, <<"SERVER_SOFTWARE">>, <<"SERVER_URL">>} |-> <<"connection">>]

\* What a CGI program is told, whatever the client has called its variables.
Env(wp) ==
  <<"AUTH_TYPE">> :> wp.authType @@ <<"CONTENT_LENGTH">> :> <<ToString(wp.rxLen)>>
  @@ <<"CONTENT_TYPE">> :> wp.contentType @@ <<"GATEWAY_INTERFACE">> :> <<"CGI/1.1">>
  @@ <<"PATH_INFO">> :> wp.path @@ <<"QUERY_STRING">> :> wp.query @@ <<"REQUEST_METHOD">> :> wp.method
  @@ <<"REQUEST_URI">> :> wp.path @@ <<"SERVER_PROTOCOL">> :> wp.protoVersion
  @@ Connected
websSetEnv(wp) ==
  [wp EXCEPT !.vars = [name \in DOMAIN Env(wp) |-> IF Env(wp)[name] = NULL THEN << >> ELSE Env(wp)[name]] @@ @]

----------------------------------------------------------------------------
(* The head.  The buffer holds all of it, and perhaps more. *)

\* getToken: a word up to blanks, or a text up to a delimiter: [token, rest].
getWord(buf) ==
  LET t == From(buf, Leading(buf, Blank) + 1)
      end == SelectInSeq(t, LAMBDA c : c \in Blank)
      behind == From(t, end)
  IN IF end = 0 THEN [token |-> t, rest |-> << >>]
     ELSE [token |-> SubSeq(t, 1, end - 1), rest |-> From(behind, Leading(behind, Blank) + 1)]
getToken(buf, delim) ==
  LET t == From(buf, Leading(buf, Blank) + 1)
      end == Find(t, delim)
  IN IF end = 0 THEN [token |-> t, rest |-> << >>]
     ELSE [token |-> SubSeq(t, 1, end - 1), rest |-> From(t, end + Len(delim))]

\* websError, as far as the reader goes on: the first error is the answer.
Failed(wp, code) ==
  [wp EXCEPT !.code = IF @ = 200 THEN code ELSE @, !.flags = @ \ {"keepAlive"}]

NewWebs == [code |-> 200, method |-> NULL, path |-> NULL, ext |-> NULL, query |-> NULL, host |-> NULL,
            flags |-> {}, protoVersion |-> NULL, authType |-> NULL, authDetails |-> NULL,
            contentType |-> NULL, cookie |-> NULL, referrer |-> NULL, userAgent |-> NULL, since |-> 0,
            rxLen |-> -1, rxRemaining |-> 0, rxChunked |-> FALSE, eof |-> FALSE, vars |-> << >>]

Version(wp, protoVer) ==
  IF protoVer = <<"HTTP/1.1">> THEN [wp EXCEPT !.flags = @ \cup {"keepAlive", "http11"}]
  ELSE IF protoVer = <<"HTTP/1.0">> THEN [wp EXCEPT !.flags = @ \ {"http11"}]
  ELSE Failed(wp, 406)

\* [wp, rest]
parseFirstLine(wp, buf) ==
  LET op == getWord(buf)
      url == getWord(op.rest)
      protoVer == getToken(url.rest, CRLF)
      parts == U!websUrlParse(url.token)
      path == U!websNormalizeUriPath(parts.path)
      named == [wp EXCEPT !.method = Fold(op.token)]
      found == [named EXCEPT !.path = path, !.ext = IF parts.ext = NULL THEN NULL ELSE Fold(parts.ext),
                             !.query = parts.query, !.host = parts.host,
                             !.protoVersion = IF protoVer.token \in {<<"HTTP/1.1">>, <<"HTTP/1.0">>}
                                              THEN protoVer.token ELSE <<"HTTP/1.1">>]
  IN CASE op.token = << >> -> [wp |-> Failed(wp, 404), rest |-> op.rest]
       [] op.token # << >> /\ url.token = << >> -> [wp |-> Failed(named, 400), rest |-> url.rest]
       [] url.token # << >> /\ Len(url.token) > LimitUri -> [wp |-> Failed(named, 414), rest |-> url.rest]
       [] url.token # << >> /\ Len(url.token) <= LimitUri /\ path = NULL ->
            [wp |-> Failed(named, 400), rest |-> protoVer.rest]
       [] OTHER -> [wp |-> Version(found, protoVer.token), rest |-> protoVer.rest]

\* The variable of a header; a word stands for itself in the upper case.
VarName(key) == <<"HTTP_">> \o [i \in DOMAIN key |-> IF key[i] = "-" THEN "_" ELSE key[i]]
Has(value, word) == \E i \in DOMAIN value : value[i] = word

ContentLength(wp, value) ==
  LET n == atoi(value)
  IN IF n > (IF wp.method = <<"PUT">> THEN LimitPut ELSE LimitPost) THEN Failed([wp EXCEPT !.rxLen = n], 413)
     ELSE [wp EXCEPT !.rxLen = n, !.rxRemaining = IF n > 0 /\ wp.method # <<"HEAD">> THEN n ELSE @]

\* What a header does, beside its variable.
Header(wp, key, value) ==
  LET auth == stok(value, Blank)
      semicolon == SelectInSeq(value, LAMBDA c : c = ";")
  IN CASE key = <<"user-agent">> -> [wp EXCEPT !.userAgent = value]
       [] key = <<"authorization">> ->
            [wp EXCEPT !.authType = IF auth.token = NULL THEN << >> ELSE Fold(auth.token),
                       !.authDetails = IF auth.last = NULL THEN << >> ELSE auth.last]
       [] key = <<"connection">> /\ Fold(value) = <<"keep-alive">> ->
            [wp EXCEPT !.flags = @ \cup {"keepAlive"}]
       [] key = <<"connection">> /\ Fold(value) = <<"close">> -> [wp EXCEPT !.flags = @ \ {"keepAlive"}]
       [] key = <<"content", "-", "length">> -> ContentLength(wp, value)
       [] key = <<"content", "-", "type">> ->
            [wp EXCEPT !.contentType = value,
                       !.flags = @ \cup (IF Has(value, "application/x-www-form-urlencoded") THEN {"form"}
                                         ELSE IF Has(value, "multipart/form-data") THEN {"upload"} ELSE {})]
       [] key = <<"cookie">> -> [wp EXCEPT !.flags = @ \cup {"cookie"}, !.cookie = value]
       [] key = <<"host">> -> [wp EXCEPT !.host = value]
       [] key = <<"if-modified-since">> ->
            [wp EXCEPT !.since = D!dateParse(IF semicolon = 0 THEN value ELSE SubSeq(value, 1, semicolon - 1))]
       [] key = <<"referer">> -> [wp EXCEPT !.referrer = value]
       [] key = <<"transfer-encoding">> /\ Fold(value) = <<"chunked">> ->
            [wp EXCEPT !.rxChunked = TRUE, !.rxRemaining = 2147483647]
       [] OTHER -> wp

\* A chunked body keeps the empty line, which its first chunk begins with.
RECURSIVE HeadersFrom(_, _, _)
HeadersFrom(wp, buf, count) ==
  LET key == getToken(buf, <<":">>)
      line == getToken(key.rest, CRLF)
      value == From(line.token, Leading(line.token, {" ", "\t", "\r", "\n"}) + 1)
      next == Header([wp EXCEPT !.vars = websSetVar(@, VarName(Fold(key.token)), value)], Fold(key.token), value)
  IN IF buf # << >> /\ buf[1] = "\r"
       THEN [wp |-> [wp EXCEPT !.eof = wp.rxRemaining = 0], rest |-> IF wp.rxChunked THEN buf ELSE From(buf, 3)]
     ELSE IF count >= LimitHeaders THEN [wp |-> Failed(wp, 413), rest |-> buf]
     ELSE IF next.code # wp.code THEN [wp |-> next, rest |-> line.rest]
     ELSE HeadersFrom(next, line.rest, count + 1)
parseHeaders(wp, buf) == HeadersFrom(wp, buf, 0)

\* parseIncoming, once the empty line is there.  The answer to a bad first
\* line is the answer, whatever the headers would add.
parseHead(buf) ==
  LET start == From(buf, Leading(buf, {"\r", "\n"}) + 1)
      first == parseFirstLine(NewWebs, start)
  IN IF first.wp.code # 200 THEN first ELSE parseHeaders(first.wp, first.rest)

----------------------------------------------------------------------------
(* Answers. *)

\* A number as one symbol.
makeUri(ports, scheme, host, port, path) ==
  LET p == IF port > 0 THEN port ELSE ports[scheme]
  IN <<scheme>> \o host \o (IF p \in {80, 443} THEN << >> ELSE <<":", ToString(p)>>) \o path

\* The location.  hostPort: the name and the port (0) of wp->host; ports: the
\* default ones.
websRedirect(ports, wp, uri) ==
  LET switch == uri \in {<<U!HTTP>>, <<U!HTTPS>>}
      to == IF switch THEN makeUri(ports, uri[1], wp.hostPort.name, 0, wp.url) ELSE uri
      qualified == Has(to, U!HTTP) \/ Has(to, U!HTTPS)
      secure == Has(to, U!HTTPS) \/ (~ qualified /\ wp.secure)
      scheme == IF secure THEN U!HTTPS ELSE U!HTTP
      wanted == IF qualified THEN 0 ELSE wp.hostPort.port
      port == IF wanted > 0 THEN wanted ELSE ports[scheme]
  IN IF Find(to, <<U!HTTPS, "/">>) # 0 \/ Find(to, <<U!HTTP, "/">>) # 0
       THEN makeUri(ports, scheme, wp.hostPort.name, port, Tail(to))
     ELSE IF ~ qualified THEN makeUri(ports, scheme, wp.hostPort.name, port, to)
     ELSE to

\* c: [name, value, path (NULL), domain (NULL), lifespan, flags]; the cookies
\* of a response so far.
websSetCookie(cookies, host, c) ==
  LET colon == SelectInSeq(host, LAMBDA x : x = ":")
      name == IF colon = 0 THEN host ELSE SubSeq(host, 1, colon - 1)
      own == IF name # << >> /\ Last(name) = "." THEN Front(name) ELSE name
      domain == IF c.domain = NULL THEN own ELSE c.domain
      dotted == IF Has(domain, ".") THEN domain ELSE <<".">> \o domain
      cookie == c.name \o <<"=">> \o c.value \o <<"; ", "path", "=">> \o (IF c.path = NULL THEN <<"/">> ELSE c.path)
                \o (IF domain = <<"localhost">> THEN << >> ELSE <<"; ", "domain", "=">> \o dotted)
                \o (IF c.lifespan > 0 THEN <<"; ", "expires", "=", "now", "+", ToString(c.lifespan)>> ELSE << >>)
                \o (IF "secure" \in c.flags THEN <<"; ", "secure">> ELSE << >>)
                \o (IF "httponly" \in c.flags THEN <<"; ", "httponly">> ELSE << >>)
  IN IF cookies = NULL THEN cookie ELSE cookies \o <<" ">> \o cookie
=============================================================================
