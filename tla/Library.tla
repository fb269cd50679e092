------------------------------- MODULE Library ------------------------------
(***************************************************************************)
(* The routines of the server that compute and return, and the containers  *)
(* that keep what they are given: ring buffers, hash tables, and the       *)
(* tables of routes, users and roles.  Nobody sees the steps of a routine, *)
(* so a call takes one step, which chooses the routine and its input; the  *)
(* properties compare what the routine returns with what it promises.      *)
(***************************************************************************)
EXTENDS Integers, Sequences, SequencesExt, FiniteSets, TLC

CONSTANTS
  Functions,    \* functions that scripts may call
  LoopMax,      \* turns of a for loop in a script
  Programs,     \* programs, as trees
  Pages,        \* device pages, as sequences of texts and programs
  Texts,        \* scripts nobody wrote a tree for, as sequences of symbols
  BufferInit, GrowInit,   \* the sizes of a buffer that is formatted into
  Items,        \* formats, as sequences of texts and conversions
  Sizes,        \* sizes of buffers, 0 for one that grows
  Htmls,        \* texts to escape
  Days,         \* days of the calendar
  Moments,      \* days with weekday and time
  Urls,         \* URLs, by their parts
  Paths,        \* paths, by their segments
  Pairs,        \* two strings and a number of characters
  StringCopies, \* a string, how much of it, and the bytes there are
  Splits,       \* a string and the characters it is taken apart at
  Numbers,      \* numbers to read
  CommandLines, \* arguments, how each is quoted, and how many are wanted
  LimitUri, LimitHeaders, LimitPost, LimitPut,   \* the limits of a request
  Requests,     \* requests, by their parts
  FormPairs,    \* the pairs of a query and of a body
  Redirects,    \* where to, and what the client called the server
  Cookies,      \* a host and a cookie
  Blocks,       \* texts to encode
  EndpointLists,   \* addresses to listen on, by their parts
  CgiRequests,  \* requests for programs, by their parts
  WEBS_MAX_LISTEN, IpAddr, ArgpSize,                \* see Endpoints and CgiStart
  Realm, Accounts, Nonces, Answers,                 \* of digest authentication: see Digest
  WEBS_SHIFT, LIMIT_BUFFER, MemoryMax, Labels,
  InitSizes, MaxSizes, Rooms, Lengths,              \* of ring buffers: see RingBuf
  H_INCR, Null, WEBS_SMALL_HASH, HashNames, HashValues, HashSizes,
  TablesMax,                                        \* of hash tables: see Hash
  ROUTE_INCR, DepthMax, BuiltIn, Files, MoreFiles, Uris, UserNames,
  RoleNames, RoleLists, AbilityLists, CallMax       \* of the configuration: see Config

S == INSTANCE Scripts
F == INSTANCE Formatting
D == INSTANCE Calendar
U == INSTANCE UrlForms
W == INSTANCE Wording
Q == INSTANCE RequestForms
A == INSTANCE Digest
E == INSTANCE Base64
L == INSTANCE Endpoints
G == INSTANCE CgiStart

VARIABLES
  part,   \* what a behaviour is about; the parts share no state
  call,   \* the call that is made: its routine and input
  ring, io,
  sym, strings,
  site, asked, fresh, calls

B == INSTANCE RingBuf
H == INSTANCE Hash WITH Names <- HashNames, Values <- HashValues, Sizes <- HashSizes
C == INSTANCE Config

buffers == <<ring, io>>
tables == <<sym, strings>>
configuration == <<site, asked, fresh, calls>>
vars == <<part, call, buffers, tables, configuration>>

Idle == [routine |-> "none"]
Call(routine, in) == call' = [routine |-> routine, in |-> in]

EvalProgram == \E p \in Programs : Call("jsEval", p)
EvalBlock == \E p \in Programs : Call("jsEvalBlock", p)
ShowPage == \E p \in Pages : \E fault \in S!Faults \cup {"none"} :
  Call("jstHandler", [page |-> p, fault |-> fault])
SkipText == \E t \in Texts : Call("skip", t)

Format == \E items \in Items : \E size \in Sizes : Call("fmt", [items |-> items, size |-> size])
EscapeHtml == \E t \in Htmls : Call("websEscapeHtml", t)
CountDays == \E d \in Days : Call("calendar", d)
\* Left out: the form of RFC 850, which the code takes for none of its own; and
\* asctime so long before 1970 that the seconds need more than TLC's 32 bits.
ReadDate == \E d \in Moments : \E form \in {"rfc1123", "asctime"} :
  /\ form = "asctime" => d.year > 1901
  /\ Call("dateParse", [d |-> d, form |-> form])

ParseUrl == \E u \in Urls : Call("websUrlParse", u)
NormalizePath == \E s \in Paths : Call("websNormalizeUriPath", s)

CompareStrings == \E p \in Pairs : Call("scmp", p)
CopyString == \E c \in StringCopies : Call("sncopy", c)
SplitString == \E c \in Splits : Call("stok", c)
TrimString == \E c \in Splits : \E where \in SUBSET {"start", "end"} :
  Call("strim", [s |-> c.s, set |-> c.set, where |-> where])
ReadNumber == \E n \in Numbers : Call("strtoi", n)
ParseArgs == \E c \in CommandLines : Call("websParseArgs", c)

ReadHead == \E r \in Requests : Call("parseIncoming", r)
ReadForm == \E f \in FormPairs : Call("addFormVars", f)
Redirect == \E r \in Redirects : Call("websRedirect", r)
SetCookie == \E c \in Cookies : Call("websSetCookie", c)
AnswerDigest == \E d \in Answers : Call("parseDigestDetails", d)

EncodeBlock == \E s \in Blocks : Call("websEncode64", s)
Listen == \E endpoints \in EndpointLists : Call("websListen", endpoints)
StartCgi == \E r \in CgiRequests : Call("cgiHandler", r)

Back == call # Idle /\ call' = Idle

Calls ==
  \/ SkipText \/ EvalProgram \/ EvalBlock \/ ShowPage
  \/ Format \/ EscapeHtml \/ CountDays \/ ReadDate
  \/ ParseUrl \/ NormalizePath \/ ReadHead \/ ReadForm \/ Redirect \/ SetCookie \/ AnswerDigest
  \/ EncodeBlock \/ Listen \/ StartCgi
  \/ CompareStrings \/ CopyString \/ SplitString \/ TrimString \/ ReadNumber \/ ParseArgs
CallNext == (call = Idle /\ Calls) \/ Back

Init ==
  /\ part \in {"calls", "buffers", "tables", "configuration"}
  /\ call = Idle /\ B!RingInit /\ H!HashInit /\ C!ConfigInit
Next ==
  /\ UNCHANGED part
  /\ \/ part = "calls" /\ CallNext /\ UNCHANGED <<buffers, tables, configuration>>
     \/ part = "buffers" /\ B!RingNext /\ UNCHANGED <<call, tables, configuration>>
     \/ part = "tables" /\ H!HashNext /\ UNCHANGED <<call, buffers, configuration>>
     \/ part = "configuration" /\ C!ConfigNext /\ UNCHANGED <<call, buffers, tables>>
Spec == Init /\ [][Next]_vars

\* TLC tells states apart by this: no later step depends on io, nor on the
\* memory of a buffer that holds no data.
LibraryView == <<part, call, B!RingView, tables, configuration>>

----------------------------------------------------------------------------
(* What the routines return for an input. *)

Evaluated(p) == S!Outcome(S!jsEval(S!jsOpenEngine(<< >>), S!WriteStmt(p)))
EvaluatedInBlock(p) == S!Outcome(S!jsEvalBlock(S!jsOpenEngine(S!Preset), S!WriteStmt(p)))
Shown(p) == S!jstHandler(<< >>, S!WritePage(p.page), p.fault)
Skipped(t) == S!Outcome(S!Skip(t))

Formatted(f) ==
  LET spec == F!WriteFormat(f.items)
      args == F!Args(f.items)
  IN IF f.size = 0 THEN F!sfmt(spec, args) ELSE F!fmt(f.size, spec, args)
Counted(d) ==
  LET fixed == D!FixedFromGregorian(d.month, d.day, d.year)
  IN [fixed |-> fixed, year |-> D!GregorianYearFromFixed(fixed),
      since |-> D!GregorianDateDifferenc(1, 1, 1970, d.month, d.day, d.year)]
DateRead(m) == D!dateParse(D!DateText(m.form, m.d))

Compared(p) ==
  [cmp |-> W!scmp(p.s, p.t), caseless |-> W!scaselesscmp(p.s, p.t),
   first |-> W!sncmp(p.s, p.t, p.n), match |-> W!smatch(p.s, p.t)]
Copied(c) == IF c.n >= Len(c.s) THEN W!scopy(c.max, c.s) ELSE W!sncopy(c.max, c.s, c.n)
NumberRead(n) ==
  LET hex == W!Hex(n)
  IN [hex |-> W!hextoi(hex), prefixed |-> W!strtoi(<<"0", "X">> \o hex),
      decimal |-> IF n < 4 \/ n = 9 THEN W!strtoi(<<" ">> \o hex) ELSE n]

FormRead(f) ==
  LET body == Q!WriteForm(f.body)
      wp == [Q!NewWebs EXCEPT !.query = Q!WriteForm(f.query), !.rxLen = Len(body), !.flags = {"form"}]
      read == Q!AddVars(wp, body)
  IN [vars |-> read.vars, again |-> Q!AddVars(read, body).vars, env |-> Q!websSetEnv(read).vars]
Redirected(r) ==
  LET wp == [hostPort |-> [name |-> r.host, port |-> r.port], url |-> r.url, secure |-> r.secure]
  IN Q!websRedirect(r.ports, wp, r.uri)

\* The client answers what it was asked d.late seconds ago.
AnswerOf(d) ==
  LET question == A!digestLogin("secret", <<"domain">>, 1000 - d.late)
  IN A!parseDigestDetails(d.method, A!WriteDigest(d, question), 1000)

Encoded(s) ==
  LET encoded == E!websEncode64Block(s)
  IN [encoded |-> encoded, decoded |-> E!websDecode64Block(encoded.text, TRUE),
      spoilt |-> E!websDecode64Block(<<33>> \o encoded.text, TRUE)]
Listening(endpoints) ==
  LET given == [k \in DOMAIN endpoints |->
                  [address |-> L!WriteAddress(endpoints[k].parts), opens |-> endpoints[k].opens]]
  IN FoldLeft(L!websListen, L!Closed, given)
Started(r) ==
  LET wp == [G!NewWebs EXCEPT !.method = r.method, !.path = G!WritePath(r), !.query = G!WriteQuery(r)]
  IN G!cgiHandler([wp EXCEPT !.vars = G!addFormVars(@, wp.query)], r.dir, r.file, r.spawns)

----------------------------------------------------------------------------
\* The step that calls the routine, with input.
Calling(routine) == call'.routine = routine
input == call'.in

ScriptsStep ==
  /\ Calling("jsEval") => S!RunsAs(Evaluated(input), input)
  /\ Calling("jsEvalBlock") => S!RunsInBlockAs(EvaluatedInBlock(input), input)
  /\ Calling("jstHandler") => S!ShowsAs(Shown(input), input.page, input.fault)
  /\ Calling("skip") => S!IsIdle(Skipped(input), input)

(* js.c and jst.c: a program does what it says, alone, in a block of its   *)
(* own and as the scripts of a page, which share their variables.  The     *)
(* branch of an if that is not taken and the body of a for that is only    *)
(* looked over (parseStmt without FLAGS_EXE) write nothing and change no   *)
(* variable (but for declarations, see Declare), whatever stands in them   *)
(* and wherever the parser gives up; looking them over comes to an end,    *)
(* unless an operator or an else begins a statement in braces (Endless).   *)
ScriptsRight == [][ScriptsStep]_call

TextsStep ==
  /\ Calling("websEncode64") => E!EncodesAs(Encoded(input), input)
  /\ Calling("fmt") => F!FormatsAs(Formatted(input), input.items, input.size)
  /\ Calling("websEscapeHtml") => F!EscapesAs(F!websEscapeHtml(input), input)
  /\ Calling("scmp") => W!ComparesAs(Compared(input), input)
  /\ Calling("sncopy") => W!CopiesAs(Copied(input), input)
  /\ Calling("stok") => W!SplitsAs(W!Tokens(input.s, input.set), input)
  /\ Calling("strim") => W!TrimsAs(W!strim(input.s, input.set, input.where), input)
  /\ Calling("strtoi") => W!ReadsAs(NumberRead(input), input)
  /\ Calling("websParseArgs") =>
       W!ArgsAs(W!websParseArgs(W!WriteArgs(input.args, input.quotes), input.max), input.args, input.max)

(* runtime.c:365 sprintfCore, http.c:1665 websEscapeHtml, runtime.c:2327    *)
(* and the string routines behind it: a format shows its conversions and   *)
(* texts in order, cut at the end of the caller's buffer and never behind  *)
(* it, whole in a buffer that grows; an escaped text reads back as the     *)
(* text and fits its memory; a copy is whole or is refused; strings are    *)
(* ordered; what is taken apart at delimiters or quotes is what was put    *)
(* together with them.                                                     *)
TextsRight == [][TextsStep]_call

RequestsStep ==
  /\ Calling("websUrlParse") => U!ParsesAs(U!websUrlParse(U!WriteUrl(input)), input)
  /\ Calling("websNormalizeUriPath") => U!NormalAs(U!websNormalizeUriPath(U!PathOf(input)), input)
  /\ Calling("parseIncoming") => Q!HeadAs(Q!parseHead(Q!WriteHead(input)), input)
  /\ Calling("addFormVars") => Q!FormAs(FormRead(input), input)
  /\ Calling("websListen") => L!ListensAs(Listening(input), input)
  /\ Calling("cgiHandler") => G!StartsAs(Started(input), input)
  /\ Calling("websRedirect") => Q!RedirectAs(Redirected(input), input)
  /\ Calling("parseDigestDetails") => A!AnsweredAs(AnswerOf(input), input)
  /\ Calling("websSetCookie") =>
       Q!CookieAs(Q!websSetCookie(Q!NULL, input.host, input.cookie), input.host, input.cookie)

(* http.c:924 to 1141, 1327, 1571, 3046, 3187, 3325 and auth.c:757: a URL   *)
(* comes apart in the parts it was put together from, decoded once; a path *)
(* that goes up and down is the place where it leads, or is refused; the   *)
(* head of a request is what it was written from, whatever the order and   *)
(* the case of its headers, and leaves the body where it starts; every     *)
(* value of a form is there under its name, in its order; the answer to a  *)
(* digest question is accepted in time from who knows the password, and no *)
(* other; a redirect leads to the scheme, host and port that were meant, a *)
(* cookie has each of its attributes.                                      *)
RequestsRight == [][RequestsStep]_call

DatesStep ==
  /\ Calling("calendar") => D!CalendarRight(Counted(input), input)
  /\ Calling("dateParse") => D!DateRight(DateRead(input), input.form, input.d)

(* http.c:2998 dateParse: the date a client sends in the form of RFC 1123   *)
(* or of asctime is the second it means, for leap years, ends of months    *)
(* and days before 1970, which count as the first when RFC 1123 writes     *)
(* them (http.c:2855); the calendar they rest on counts days without a gap. *)
DatesRight == [][DatesStep]_call

(* runtime.c:1320 to 1835: a ring buffer is a sequence of bytes, however    *)
(* often its data wrap, move to the front or grow into new memory; a       *)
(* string put into it is terminated, and a put is cut short only by a full *)
(* buffer that may not grow.                                               *)
RingSequence ==
  B!Sequence!Spec /\ [][(B!Terminated /\ B!ShortMeansFull)']_buffers

(* runtime.c:1838 to 2199, route.c:204 to 569, auth.c:105 to 450: a hash    *)
(* table is a function from names to values, whatever names share a chain  *)
(* and are deleted from it, and frees each string once; routes are matched *)
(* in the order that was asked for; no table is freed under its owner; the *)
(* abilities of a user are those of its roles, whatever the order of the   *)
(* lines; and what gopass writes reads back.                               *)
TablesSound ==
  /\ H!Dictionary!Spec
  /\ [](H!WalksOnce /\ H!CopiesOwned)
  /\ [](C!RoutesInOrder /\ C!TablesOwned /\ C!AbilitiesRight /\ C!WrittenBack)
=============================================================================
