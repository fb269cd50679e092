------------------------------ MODULE LibraryMC -----------------------------
(***************************************************************************)
(* Inputs of the routines for TLC.                                         *)
(***************************************************************************)
EXTENDS Library

MCFunctions == {<<"write">>}

\* What the proofs about ring buffers and hash tables assume.
ASSUME BuffersAssumption == B!RingAssumption
ASSUME TablesAssumption == H!HashAssumption

----------------------------------------------------------------------------
(* Programs over the variables a and b. *)

V(n) == [t |-> "value", v |-> n]
Va(name) == [t |-> "var", id |-> <<name>>]
Just(t) == [terms |-> <<t>>, ops |-> << >>]
Two(s, op, t) == [terms |-> <<s, t>>, ops |-> <<op>>]
Three(s, op, t, op2, u) == [terms |-> <<s, t, u>>, ops |-> <<op, op2>>]
Paren(e) == [t |-> "paren", e |-> e]
Write(e) == [t |-> "call", e |-> e]

SetTo(name, e) == [s |-> "set", id |-> <<name>>, e |-> e]
Do(e) == [s |-> "do", e |-> e]
Inc(name) == [s |-> "inc", id |-> <<name>>]
Many(body) == [s |-> "block", body |-> body]
IfElse(e, s, t) == [s |-> "if", e |-> e, then |-> s, else |-> t]
ForLoop(i, c, n, b) == [s |-> "for", init |-> i, cond |-> c, step |-> n, body |-> b]
Ret(e) == [s |-> "return", e |-> e]

Terms == {V(<<"0">>), V(<<"2">>), V(<<"A">>), Va("b")}
NumberTerms == {V(<<"0">>), V(<<"1">>), V(<<"1", "2">>), Va("b")}
SomeOps == {"PLUS", "MUL", "LESS", "DIV"}

\* Expressions whose terms are numbers, so that every operator is defined.
NumberExprs ==
  {Just(t) : t \in NumberTerms}
  \cup {Two(s, op, t) : s \in NumberTerms, t \in NumberTerms, op \in SomeOps \cup {"EQ", "AND", "OR"}}
  \cup {Three(s, op, t, op2, Va("b")) : s \in NumberTerms, t \in NumberTerms,
                                      op \in SomeOps \cup S!Logical, op2 \in SomeOps \cup S!Logical}
  \cup {Two(s, op, Paren(Two(Va("b"), op2, t))) : s \in NumberTerms, t \in NumberTerms,
                                               op \in SomeOps \cup S!Logical, op2 \in SomeOps}
TextExprs ==
  {Just(t) : t \in Terms} \cup {Two(s, op, t) : s \in Terms, t \in Terms, op \in {"PLUS", "EQ"}}
  \cup {Two(Write(Just(s)), "PLUS", Write(Just(t))) : s \in Terms, t \in Terms}
Truths == {Just(V(<<"0">>)), Just(V(<<"1">>)), Two(Va("b"), "LESS", V(<<"2">>)),
           Two(Va("b"), "EQ", V(<<"3">>))}

Out(name) == Do(Just(Write(Just(Va(name)))))
Simple == {SetTo("a", Just(V(<<"2">>))), Inc("b"), Out("b"), Ret(Just(V(<<"1">>)))}
Bodies == Simple \cup {Many(<<s, t>>) : s \in Simple, t \in Simple}
Ifs == {IfElse(c, s, t) : c \in Truths, s \in Bodies, t \in Simple}
Loops ==
  {ForLoop(SetTo("c", Just(V(<<"0">>))), Two(Va("c"), "LESS", V(<<n>>)), Inc("c"), b) :
     n \in {"0", "1", "3"},
     b \in Bodies \cup {IfElse(Two(Va("c"), "EQ", V(<<"1">>)), s, t) : s \in Simple, t \in Simple}}

\* b is set, then the statement runs, then something is written.
After(s) == Many(<<SetTo("b", Just(V(<<"3">>))), s, Out("b")>>)
MCPrograms ==
  {After(SetTo("a", e)) : e \in NumberExprs \cup TextExprs}
  \cup {After(s) : s \in Ifs \cup Loops}

MCPages ==
  LET code(attr, s) == [attr |-> attr, code |-> s]
      text(t) == [text |-> t]
      Attrs == {<< >>, <<"language", "=", "javascript", " ">>, <<"\\", "\r", "\n">>}
      start(attr) == code(attr, SetTo("b", Just(V(<<"3">>))))
  IN {<<text(<<"A">>), start(attr), text(<<"\n", "A">>), code(attr2, s)>> :
        attr \in Attrs, attr2 \in Attrs, s \in Simple \cup {IfElse(Truth1, Inc("b"), Out("b")) : Truth1 \in Truths}}
     \cup {<<start(attr), code(attr, s), code(<< >>, Out("b")), text(<<"A">>)>> :
             attr \in Attrs, s \in Bodies}

----------------------------------------------------------------------------
(* Scripts put together from pieces that do not fit each other. *)

Pieces == {<<"if", " ", "(", "x", ")", " ">>, <<"\n", "else", " ">>, <<"{">>, <<"}">>,
           <<"x", " ", "=", "2", ";">>, <<"write", "(", "x", ")", ";">>, <<"var", " ", "y", ";">>,
           <<"x", "+", "+", ";">>, <<"for", " ", "(", "x", "=", "0", ";", "x", "<", "2", ";">>,
           <<"x", "+", "+", ")", " ">>, <<"return", " ", "x", ";">>, <<"+">>, <<")">>,
           <<"z">>, <<"'", "a", "'">>, <<"\n">>, <<"(">>}
MCTexts ==
  {p \o q \o r : p \in Pieces, q \in Pieces, r \in Pieces \cup {<< >>}}

----------------------------------------------------------------------------
(* Formats: one conversion in each way, and several between texts. *)

Conversion(type, arg, flags, width, star, precision) ==
  [type |-> type, arg |-> arg, flags |-> flags, width |-> width, star |-> star,
   precision |-> precision, bits |-> << >>]
MCFlags == {{}} \cup {{x, y} : x, y \in {"sign", "left", "alternate", "leadZero", "leadSpace", "comma"}}
Numbered ==
  {Conversion("d", n, flags, w, FALSE, p) :
     n \in {-12, 0, 7, 1234567}, flags \in MCFlags, w \in {0, 6}, p \in {-1, 0, 3}}
  \cup {Conversion("d", n, flags, w, TRUE, p) : n \in {-12, 7}, flags \in MCFlags, w \in {-6, 4}, p \in {-1, 3}}
  \cup {Conversion("x", n, flags, w, FALSE, p) :
          n \in {0, 255, 4096}, flags \in MCFlags, w \in {0, 6}, p \in {-1, 3}}
\* Left out, where outNum differs from printf: zeros to fill up a number with
\* a sign or a prefix, in front of which it puts them, or with a precision,
\* which rules them out; 0 with the precision 0, which shows no digit; and a
\* space along with a sign, of which it takes the place.
AsPrinted ==
  {v \in Numbered :
     /\ "leadZero" \in v.flags /\ "left" \notin v.flags => v.precision < 0 /\ F!Prefix(v) = << >>
     /\ v.precision = 0 => v.arg # 0
     /\ ~({"sign", "leadSpace"} \subseteq v.flags)}
Worded ==
  {Conversion("s", s, flags, w, FALSE, p) :
     s \in {F!NULL, << >>, <<"p", "q", "r">>}, flags \in MCFlags \cap SUBSET {"left", "leadZero"},
     w \in {0, 6}, p \in {-1, 0, 2}}
  \cup {Conversion("s", <<"p", "q", "r">>, {}, w, TRUE, 2) : w \in {-6, 4}}
Some == {Conversion("d", 42, {"leadZero"}, 5, FALSE, -1), Conversion("s", <<"p", "q">>, {"left"}, 4, FALSE, -1),
         Conversion("x", 171, {"alternate"}, 0, FALSE, -1), Conversion("n", 0, {}, 0, FALSE, -1),
         [text |-> <<"%", "t">>], [text |-> <<"t", "5", "*">>]}
MCItems ==
  {<<v>> : v \in AsPrinted \cup Worded} \cup {<<u, v, w>> : u \in Some, v \in Some, w \in Some}

HtmlChars == {"&", "<", "'", "#", "a", ";"}
MCHtmls == UNION {[1 .. n -> HtmlChars] : n \in 0 .. 3}

----------------------------------------------------------------------------
(* Dates: each day of years that differ in their leap days, and moments in *)
(* each month. *)

MCDays ==
  {d \in [day : {1, 2, 28, 29, 30, 31}, month : 1 .. 12, year : {4, 100, 400, 1970, 2001}] : D!IsDay(d)}
MCMoments ==
  {d \in [day : {1, 9, 29}, month : 1 .. 12, year : {1601, 1968, 1970, 2000, 2037},
          weekday : 1 .. 7, time : {86399, 31777}] :
     D!IsDay(d) /\ d.weekday = ((d.day + d.month) % 7) + 1}

----------------------------------------------------------------------------
(* URLs and paths. *)

Names == {<< >>, <<"a">>, <<"b", ".", "a">>, <<".", "%", "a">>, <<"?", "b">>, <<" ", "#">>}
MCUrls ==
  {u \in [host : {<< >>, <<"h", ".">>}, port : {<< >>, <<"8">>},
          segments : UNION {[1 .. n -> Names] : n \in 1 .. 3},
          query : {<< >>, <<"/", ".", "q">>, <<"?", "%", "2", "f">>},
          reference : {U!NULL, << >>, <<"r", ".">>}] :
     u.host = << >> => u.port = << >>}
MCPaths ==
  {s \in UNION {[1 .. n -> {<< >>, <<"a">>, <<".">>, <<".", ".">>, <<".", "a">>}] : n \in 1 .. 5} :
     U!Normalisable(s)}

----------------------------------------------------------------------------
(* Strings. *)

Strings(chars, n) == UNION {[1 .. k -> chars] : k \in 0 .. n}
MCPairs == [s : Strings({"a", "B", "b"}, 2), t : Strings({"a", "b", "A"}, 3), n : 0 .. 2]
MCStringCopies == [s : Strings({"a"}, 3), n : 0 .. 3, max : 1 .. 4]
MCSplits == [s : Strings({"a", ",", " "}, 4), set : {{","}, {",", " "}}]
MCNumbers == {0, 3, 9, 16, 47, 4095, 65535}
MCCommandLines ==
  {c \in [args : UNION {[1 .. n -> Strings({"a", " ", "'", "\\"}, 2)] : n \in 0 .. 2},
          quotes : [1 .. 2 -> {"", "'", "\""}], max : 1 .. 3] :
     \A i \in DOMAIN c.args : W!Writable(c.args[i], c.quotes[i])}

----------------------------------------------------------------------------
(* Requests, forms and answers. *)

NamedHeader(name, pad, value) == [name |-> name, pad |-> pad, value |-> value]
MCHeaders ==
  {NamedHeader(<<"Host">>, <<" ">>, <<"h", ":", "9">>), NamedHeader(<<"host">>, << >>, <<"a">>),
   NamedHeader(<<"connection">>, <<" ">>, <<"Keep-Alive">>), NamedHeader(<<"connection">>, <<" ", "\t">>, <<"close">>),
   NamedHeader(<<"content", "-", "length">>, <<" ">>, <<"9">>), NamedHeader(<<"content", "-", "length">>, <<" ">>, <<"2", "1">>),
   NamedHeader(<<"content", "-", "type">>, <<" ">>, <<"multipart/form-data", ";", "b">>),
   NamedHeader(<<"cookie">>, <<" ">>, <<"a", "=", ":", "b">>), NamedHeader(<<"x", "-", "A">>, << >>, << >>),
   NamedHeader(<<"authorization">>, <<" ">>, <<"Basic", " ", "a", " ", "b">>),
   NamedHeader(<<"transfer-encoding">>, <<" ">>, <<"Chunked">>)}
\* No two lengths (see README).
HeaderLists ==
  {h \in UNION {[1 .. n -> MCHeaders] : n \in 0 .. 3} :
     \A i, j \in DOMAIN h : i # j => h[i].name # h[j].name \/ h[i].name[1] \in {"connection", "host"}}
PlainUrl(host, name) == [host |-> host, port |-> << >>, segments |-> <<<<"a">>, <<".", ".">>, name>>,
                         query |-> <<"q">>, reference |-> U!NULL]
MCRequests ==
  {[method |-> meth, url |-> url, version |-> v, headers |-> h, body |-> body] :
     meth \in {"get", "PUT", "HEAD"},
     url \in {PlainUrl(<< >>, <<"b", ".", "a">>), PlainUrl(<<"h">>, << >>)},
     v \in {"HTTP/1.0", "HTTP/1.1"}, h \in HeaderLists, body \in {<<"\r", "x", ":">>}}
  \cup {[method |-> "GET", url |-> PlainUrl(<< >>, name), version |-> "HTTP/1.1",
         headers |-> [i \in 1 .. n |-> NamedHeader(<<"host">>, << >>, <<"a">>)], body |-> << >>] :
          name \in {<<"a">>, [i \in 1 .. 30 |-> "a"]}, n \in 0 .. 5}

FormPair == [name : {<< >>, <<"a">>, <<"&", "b">>, <<"QUERY_STRING">>}, value : {<< >>, <<"=", "a">>, <<" ", "%">>}]
MCFormPairs == [query : UNION {[1 .. n -> FormPair] : n \in 0 .. 2}, body : UNION {[1 .. n -> FormPair] : n \in 0 .. 1}]

\* Left out: the port of one scheme for the other, which makeUri drops.
MCRedirects ==
  {r \in [uri : {<<U!HTTP>>, <<U!HTTPS>>, <<"/", "a">>, <<U!HTTPS, "/", "a">>, <<U!HTTP, "/", "b", "/">>,
                 <<U!HTTP, "c", ":", "81", "/">>},
          secure : BOOLEAN, host : {<<"h">>, <<"h", ".", "a">>}, port : {0, 80, 443, 8080}, url : {<<"/", "u">>},
          ports : [{U!HTTP, U!HTTPS} -> {80, 443, 4443, 8081}]] :
     /\ r.port = 80 => ~ r.secure
     /\ r.port = 443 => r.secure
     /\ r.ports[U!HTTP] # 443 /\ r.ports[U!HTTPS] # 80}
MCCookies ==
  [host : {<<"localhost">>, <<"h", ":", "9">>, <<"h", ".", "a", ".">>, <<"localhost", ":", "9">>},
   cookie : [name : {<<"s">>}, value : {<< >>, <<"v">>}, path : {Q!NULL, <<"/", "p">>},
             domain : {Q!NULL, <<"d", ".", "e">>, <<"d">>, <<"localhost">>}, lifespan : {0, 9},
             flags : SUBSET {"secure", "httponly"}]]

\* Clients with the right parameters in some orders, and with one missing.
MCRealm == <<"example.com">>
MCAccounts == <<"joshua">> :> <<"pass1">>
MCNonces == {<<"secret", MCRealm, t>> : t \in {699, 700, 1000}}
Orders ==
  LET all == <<"username", "realm", "nonce", "URI", "qop", "nc", "cnonce", "response", "opaque">>
      from(k) == [n \in DOMAIN all |-> all[((n + k) % Len(all)) + 1]]
  IN {from(k) : k \in 0 .. 8} \cup {[n \in 1 .. 8 |-> from(k)[n]] : k \in 0 .. 8}
MCAnswers ==
  [name : {<<"joshua">>, <<"julie">>}, word : {<<"pass1">>, <<"pass2">>}, realm : {MCRealm, <<"other">>},
   method : {<<"GET">>}, uri : {<<"/", "a", ",", "=">>}, order : Orders, quoted : {{"URI"}, {"URI", "nonce", "opaque"}},
   pad : {<< >>, <<" ", " ">>}, late : {0, 300, 301}]

----------------------------------------------------------------------------
(* Texts of bytes, endpoints and programs. *)

Codes == {1, 62, 128, 251, 255}
MCBlocks == UNION {[1 .. n -> Codes] : n \in {0, 2, 3, 4}} \cup {[k \in 1 .. n |-> (37 * k) % 256] : n \in 5 .. 9}

MCIpAddr == <<"0", ".", "0">>
\* An address without an IP has a port, or an empty name behind brackets.
Addresses ==
  {a \in [scheme : {L!NULL, <<"http">>, <<"https">>},
          ip : {L!NULL, <<"h">>, <<"1", ".", "2">>, <<":", ":">>, <<"a", ":", ":", "9">>},
          port : {<< >>, <<"8", "0">>, <<"2", "1">>, <<"*">>}, brackets : BOOLEAN] :
     /\ a.ip = L!NULL => a.port \in {<<"8", "0">>, <<"2", "1">>} /\ (a.brackets \/ a.scheme = L!NULL)
     /\ a.brackets => a.ip = L!NULL \/ L!ipv6(a.ip)}
Opened(a, opens) == [parts |-> a, opens |-> opens]
MCEndpointLists ==
  {<<Opened(a, TRUE)>> : a \in Addresses}
  \cup LET Some2 == {a \in Addresses : a.ip \in {L!NULL, <<":", ":">>} /\ a.port = <<"2", "1">>}
               \cup {a \in Addresses : a.ip = <<"h">> /\ a.port = << >>}
       IN {<<Opened(a, opens), Opened(b, TRUE), Opened(c, TRUE)>> : opens \in BOOLEAN, a \in Some2, b \in Some2, c \in Some2}

MCCgiRequests ==
  {r \in [name : {<< >>, <<"prog">>}, extra : {<< >>, <<"/", "a">>}, dir : {<<".">>, <<"/", "b">>},
   words : UNION {[1 .. n -> {<<"a">>, <<"=", "b">>, <<"&">>}] : n \in 0 .. 4},
   pair : {<< >>, <<"&", "PATH_INFO", "=", "b">>}, method : {<<"GET">>}, file : {"ok", "missing", "notExecutable"},
   spawns : BOOLEAN] : r.name = << >> => r.extra = << >>}

----------------------------------------------------------------------------
(* Ring buffers, hash tables and configurations.  The names of keys share  *)
(* chains in a table of three, <<97>> and <<100>>, and in one of two.      *)

MCMaxSizes == {-1, 4, 9}

MCHashNames == {<<97>>, <<98>>, <<100>>}
MCHashValues == {[type |-> "string", allocated |-> TRUE, value |-> 1],
                 [type |-> "integer", allocated |-> FALSE, value |-> 0]}
MCHashSizes == {3, -1}

Option(key, value) == [key |-> key, value |-> value]
Line(kind, options) == [kind |-> kind, options |-> options]
RouteLine(uri, options) == Line("route", <<Option("uri", uri)>> \o options)
UserLine(name, roles) ==
  Line("user", <<Option("name", name), Option("password", "p"), Option("roles", roles)>>)
RoleLine(name, abilities) == Line("role", <<Option("abilities", abilities), Option("name", name)>>)
RouteLines ==
  {RouteLine("/a", <<Option("abilities", <<"view", "none">>), Option("auth", "form"),
                     Option("methods", <<"GET">>)>>),
   RouteLine("/", <<Option("redirect", [status |-> <<"*">>, uri |-> "https"]),
                    Option("redirect", [status |-> <<"401">>, uri |-> "/login"]),
                    Option("abilities", <<"a">>), Option("abilities", <<"b">>), Option("other", 0)>>),
   RouteLine("/b", <<Option("handler", "nobody")>>), Line("#", << >>), Line("router", << >>)}
PeopleLines ==
  {UserLine("joshua", <<"admin", "purchase">>), UserLine("julie", <<"user">>),
   RoleLine("admin", <<"manage", "user">>), RoleLine("user", <<"view">>)}
Distinct(lines, n) ==
  {f \in UNION {[1 .. k -> lines] : k \in 0 .. n} : \A i, j \in DOMAIN f : i # j => f[i] # f[j]}
MCFiles == Distinct(PeopleLines, 4) \cup Distinct(RouteLines, 3)
MCMoreFiles == {<<RoleLine("admin", <<"support">>), UserLine("joshua", <<"user">>)>>}
MCRoleLists == {<<"user">>, <<"admin", "user">>}
MCAbilityLists == {<<"user">>, <<"none">>}
=============================================================================
