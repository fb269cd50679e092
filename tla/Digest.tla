------------------------------- MODULE Digest -------------------------------
(***************************************************************************)
(* Digest authentication (auth.c): the header that asks for it, what is    *)
(* read from the client's, and the check of its answer.  A digest, and an  *)
(* encoded nonce, is one symbol that stands for the parts it is made from. *)
(***************************************************************************)
EXTENDS Strings, TLC

CONSTANTS
  Realm,      \* BIT_GOAHEAD_REALM
  Accounts,   \* the password of each user
  Nonces      \* the fields of nonces

Space == {" ", "\t"}
LowerWord == "URI" :> "uri" @@ "Nonce" :> "nonce"
Fold(name) == [k \in DOMAIN name |-> IF name[k] \in DOMAIN LowerWord THEN LowerWord[name[k]] ELSE name[k]]

\* The first place from i on of a symbol in S, or the end of the string.
Upto(t, i, S) ==
  LET k == SelectInSeq(From(t, i), LAMBDA c : c \in S) IN IF k = 0 THEN Len(t) + 1 ELSE i + k - 1
SkipBlanks(t, i) == i + Leading(From(t, i), Space)

\* One turn of the loop of parseDigestDetails, from place i: a keyword, its
\* value, and where the next one starts.  (Behind a last value without
\* quotes the code reads on; and a backslash in a value is not modelled.)
Parameter(t, i) ==
  LET key == SkipBlanks(t, i)
      end == Upto(t, key, Space \cup {",", "="})
      tok == SkipBlanks(t, end + 1)
      quoted == tok <= Len(t) /\ t[tok] = "\""
      value == IF quoted THEN tok + 1 ELSE tok
      stop == Upto(t, value, IF quoted THEN {"\""} ELSE {","})
  IN [name |-> SubSeq(t, key, end - 1), value |-> SubSeq(t, value, stop - 1),
      next |-> IF quoted THEN Upto(t, stop + 1, {","}) + 1 ELSE stop + 1]

\* The field of the request that a keyword sets.
Fields ==
  <<"cnonce">> :> "cnonce" @@ <<"nc">> :> "nc" @@ <<"nonce">> :> "nonce" @@ <<"opaque">> :> "opaque"
  @@ <<"qop">> :> "qop" @@ <<"realm">> :> "realm" @@ <<"response">> :> "password"
  @@ <<"uri">> :> "digestUri" @@ <<"username">> :> "username" @@ <<"user">> :> "username"

SetField(wp, p) ==
  LET name == Fold(p.name)
  IN IF name \notin DOMAIN Fields THEN wp
     ELSE [wp EXCEPT ![Fields[name]] = p.value, !.encoded = @ \/ name = <<"response">>]

RECURSIVE Parameters(_, _, _)
Parameters(t, i, wp) ==
  IF i > Len(t) THEN wp
  ELSE Parameters(t, Parameter(t, i).next, SetField(wp, Parameter(t, i)))

MD5(parts) == <<ToString(parts)>>
websEncode64(fields) == <<ToString(fields)>>

createDigestNonce(secret, time) == websEncode64(<<secret, Realm, time>>)
\* parseDigestNonce; for a text that encodes no nonce the fields are null.
parseDigestNonce(nonce) ==
  IF \E f \in Nonces : nonce = websEncode64(f) THEN CHOOSE f \in Nonces : nonce = websEncode64(f)
  ELSE <<NULL, NULL, 0>>
Minutes(n) == 60 * n

\* user->password, as gopass has made it.
Password(name) == MD5(<<name, Realm, Accounts[name]>>)

\* The password is that of the user's account: HA1 already.
calcDigest(wp, password) ==
  LET ha2 == MD5(<<wp.method, wp.digestUri>>)
  IN IF wp.qop \in {<<"auth">>, <<"auth-int">>}
     THEN MD5(<<password, wp.nonce, wp.nc, wp.cnonce, wp.qop, ha2>>)
     ELSE MD5(<<password, wp.nonce, ha2>>)

Missing(wp) ==
  \/ NULL \in {wp.username, wp.realm, wp.nonce, wp.password}
  \/ wp.qop # NULL /\ NULL \in {wp.cnonce, wp.nc}

\* What it wants of the nonce: the realm and the age; its own secret it
\* compares with itself.
Acceptable(wp, now) ==
  LET fields == parseDigestNonce(wp.nonce)
  IN fields[2] = Realm /\ wp.qop = <<"auth">> /\ fields[3] + Minutes(5) >= now

parseDigestDetails(method, details, now) ==
  LET wp == Parameters(details, 1,
              [method |-> method, username |-> NULL, realm |-> NULL, nonce |-> NULL, password |-> NULL,
               cnonce |-> NULL, nc |-> NULL, opaque |-> NULL, qop |-> NULL, digestUri |-> NULL,
               encoded |-> FALSE, digest |-> NULL, ok |-> FALSE])
  IN IF Missing(wp) \/ ~ Acceptable(wp, now) \/ wp.username \notin DOMAIN Accounts THEN wp
     ELSE [wp EXCEPT !.digest = calcDigest(wp, Password(wp.username)), !.ok = TRUE]

\* websVerifyPasswordFromFile, for an answer that is a digest.
verified(wp) == wp.ok /\ wp.encoded /\ wp.password = wp.digest

\* digestLogin: what the client is asked, with the order of its keywords.
digestLogin(secret, domain, time) ==
  [realm |-> Realm, domain |-> domain, qop |-> <<"auth">>, nonce |-> createDigestNonce(secret, time),
   opaque |-> <<"5ccc069c403ebaf9f0171e9517f40e41">>, algorithm |-> <<"MD5">>, stale |-> <<"FALSE">>]

----------------------------------------------------------------------------
(* What it promises.  A client d answers the question of the server: it has *)
(* a name, a password, a realm and a wish (method and uri), and writes the *)
(* parameters in some order, with some of them quoted; the last one is.    *)

HA1(d) == MD5(<<d.name, d.realm, d.word>>)
Answer(d, asked) ==
  MD5(<<HA1(d), asked.nonce, <<"1">>, <<"c">>, asked.qop, MD5(<<d.method, d.uri>>)>>)

Given(d, asked, key) ==
  CASE key = "username" -> d.name
    [] key = "realm" -> d.realm
    [] key = "nonce" -> asked.nonce
    [] key = "URI" -> d.uri
    [] key = "qop" -> asked.qop
    [] key = "nc" -> <<"1">>
    [] key = "cnonce" -> <<"c">>
    [] key = "response" -> Answer(d, asked)
    [] OTHER -> asked.opaque

WriteDigest(d, asked) ==
  FlattenSeq([k \in DOMAIN d.order |->
    LET key == d.order[k]
        quote == IF k = Len(d.order) \/ key \in d.quoted THEN <<"\"">> ELSE << >>
    IN (IF k = 1 THEN << >> ELSE <<",">> \o d.pad) \o <<key, "=">> \o quote \o Given(d, asked, key) \o quote])

\* Who knows the name and the password, and was asked not long ago, is let
\* in, and nobody else; the answer holds for this method and uri only.
AnsweredAs(out, d) ==
  verified(out) <=>
    /\ d.name \in DOMAIN Accounts /\ d.word = Accounts[d.name] /\ d.realm = Realm
    /\ Range(d.order) \ {"opaque"} = {"username", "realm", "nonce", "URI", "qop", "nc", "cnonce", "response"}
    /\ d.late <= Minutes(5)
=============================================================================
