# A formal model of the GoAhead web server (board build)

The repository is GoAhead 3.1.3, an embedded web server, with the pages of one
board added (`user.c`).  This directory holds TLA+ modules translated from
`src/src/src/*.c`, TLC configurations that model-check them on small instances,
and proofs that TLAPS checks for every value of the constants.  Line numbers
below are in `src/src/src/`.

## 1. The system

One process, one thread.  `websServiceEvents` (http.c:1301) loops: wait in
`select`, run the handler of every socket with an event, poll the CGI programs,
run the timers that are due.  Every handler runs to its end; all concurrency is
between *turns* of that loop and the outside: clients, the network, CGI
programs, the clock.

| part | state it keeps | operations | talks to |
|---|---|---|---|
| connection (http.c) | `Webs`: `state`, `flags`, `rxbuf`, `rxRemaining`, `output`, `timeout`, `timestamp`, `sid` | accept, readEvent, writeEvent, websPump, complete, reuse, free, checkTimeout | sockets, timers, handlers |
| sockets (socket.c) | `socketList[]`: interest mask, current events, EOF and re-service flags | select, dispatch, read, write, register interest, free | kernel, connection (callback) |
| timer events (runtime.c) | `callbacks[]`: procedure, argument, due time | start, restart, stop, run | connection (callback) |
| response output (http.c) | `output`, `chunkbuf`, flags | websWriteBlock, websFlush, flushChunkData, websDone | sockets, background writer |
| request body filters (http.c, upload.c, file.c, cgi.c) | chunk state, upload state, temporary files | filterChunkData, websProcessUploadData, websProcessPutData, websProcessCgiData | connection |
| routes and handlers (route.c, action.c, file.c, cgi.c, options.c, jst.c) | route table, handler table | websRouteRequest, add, remove, load | connection, authentication |
| authentication (auth.c) | users, roles, abilities | login, verify, computeAbilities | routes, sessions |
| sessions (http.c) | session table, count | create, look up, prune | connections |
| CGI (cgi.c) | `cgiList[]` | launch, gather output, poll | connection, processes |
| run-time (runtime.c, alloc.c) | ring buffers, handle lists, hash tables, block lists | grow, put, get, alloc, free | everyone |
| board pages (user.c) | files of the board | status, upload, upgrade (firmware) | action handler, upload variables |
| JavaScript pages (js.c, jst.c) | interpreter | evaluate | output |

What makes them hard: several requests share one connection (keep-alive,
pipelining) and one `Webs` object is *reused* between them; a response waits
for a slow client while timers, resets and end of input arrive; the handlers
are entered from three places and leave the connection in states that the next
event must be able to continue from; freeing is deferred to the end of an
event.  `PROJECT.json` lists the hazards line by line.

What makes each part correct, in one line each: a connection that is open can
always be moved on by some event, is kept only after a whole response, and is
freed with its timer and its socket; requests are cut where the client cut
them; a filter's output does not depend on how its input is split; a session,
a handle or a CGI program never outlives or underlives what points to it; a
route table lists each route once and matches in order; abilities are the
closure of the roles.

## 2. Modules

| module | models |
|---|---|
| `WebsCore` | the connection as a record and every routine that changes it, as functions on that record: output (`Flush`, `WriteBlock`, `WriteHeaders`, `Done`, `Response`, `Error`), end of a request (`Complete`, `ReuseConn`, `CloseConn`, `Free`), parsing (`ParseIncoming`, `TakeBody`, `BodyDone`), handlers (`ServeFile`, `ServeAction`, `FileWrite`), events (`ReadSocket`, `WriteEvent`, `Accepting`) |
| `WebsServer` | the event loop over a set of connections: select, socket events, websPump turn by turn, timers, CGI programs, clients and the clock |
| `WebsServer_proofs` | lemmas about the routines of `WebsCore` and theorems about `WebsServer` |
| `Handles` | handle lists (`wallocHandle`, `wfreeHandle`, `wallocObject`), as operators on a list `[len, used, max, slot]` |
| `Handles_proofs` | lemmas about handle lists, for `Timers` and `Hash` |
| `Timers` | `callbacks[]`, `websStartEvent` .. `websRunEvents` and their owners: the objects in `webs[]` with their `wid` and `timeout`, and the pruning of sessions; both lists are handle lists |
| `Alarms` | what the events promise, without lists or ids; `Timers` implements it |
| `Timers_proofs` | theorems about `Timers` |
| `WebsBuf` | the ring buffers of a connection (`bufPutBlk`, `bufAdjustStart`, `bufCompact`), as the offsets of `servp` and `endp` |
| `TxPipe` | one response from the handler's blocks through `chunkbuf` and `output` to the socket: websWriteHeaders, websWriteBlock, flushChunkData turn by turn, websFlush, websDone, writeEvent |
| `TxPipe_proofs` | theorems about `TxPipe` |
| `Upload` | the upload filter: what one turn of websProcessUploadData does to the input, the parts and the temporary files, as operators |
| `RxBody` | the body of one request: readEvent, filterChunkData turn by turn, processContent and the consumers (form, PUT, upload), the handler, termWebs |
| `Forms` | what a client sends as a form: the places where boundaries, headers and contents begin |
| `RxBodyMC` | requests for TLC |
| `RxBody_proofs` | theorems about `RxBody` |
| `Access` | who gets what: the scan of websRouteRequest, websAuthenticate, websCan, roles and abilities, the login actions, and the session table with its pruning |
| `AccessMC` | routes, users and roles of the test server (`test/route.txt`, `test/auth.txt`) and requests for TLC |
| `Access_proofs` | theorems about `Access`: types, the account of sessions, that only those are served who are entitled and only others refused |
| `Js`, `JsParser` | the script interpreter (js.c): engine, lexer and variables; the parser that evaluates while it reads |
| `Jst` | pages with scripts (jst.c) |
| `Scripts` | what scripts mean: programs as trees, their meaning, and how they are written down |
| `Formats` | sprintfCore and its table of states, websEscapeHtml; `Formatting`: what a format shows |
| `Strings` | comparing, copying, splitting, trimming and reading strings, command lines; `Wording`: what they promise |
| `Dates` | the dates of If-Modified-Since; `Calendar`: days counted by years and months, and the ways to write a date |
| `Urls` | websUrlParse, websDecodeUrl, websNormalizeUriPath; `UrlForms`: URLs by their parts |
| `Requests` | the head of a request, the variables of forms, redirects and cookies; `RequestForms`: requests by their parts |
| `Digest` | digest authentication: the question, the client's answer, its check |
| `Base64`, `Endpoints`, `CgiStart` | websEncode64Block and back; the addresses listened on; how cgiHandler starts a program; each with its promise |
| `RingBuf` | the ring buffers of the run-time with the bytes in their memory; `Fifo`: the sequence that they are |
| `RingBuf_proofs` | the theorem that they are |
| `Hash` | the hash tables with their chains and the strings they own; `Dictionaries`: the functions that they are |
| `Hash_proofs` | the theorem that they are, and theorems about walks and strings |
| `Config` | the tables of routes, handlers, users and roles: websLoad, the calls that edit them, and what gopass writes |
| `Library` | the calls of these routines and the four parts that share no state: calls, ring buffers, hash tables, configuration |
| `LibraryMC` | inputs of the routines for TLC |

**State.** A record of `conn` is the `Webs` object together with its socket, its
timer and both directions of its TCP stream.  `pc` is where the thread is, with
the connection and the events of the turn.  `job` is `cgiList`.  The history
fields `orphan`, `late` and `cut` are written and never read by actions.

**Actions.** An action is a piece of a handler between two points where the
state of another part is looked at: `Read` (websRead and the flags readEvent
takes from it), `PumpBegin/Content/Ready/Running/Complete` (one turn of
websPump in that state), `ReadTail` and `Lost` (what readEvent does after its
websPump), `Write` (writeEvent), `EndEvent` (websFree of a closed connection).
Routines without a choice of their own are operators, so an action makes every
call its handler makes.  Clients and the clock may move between any two steps
of the thread; in the program they move between system calls, which is no more.

**Data.** A request is one of the pieces `frag`, `get`, `close`, `post`, `data`,
`bad`, `huge`: the cuts and the kinds the server's control depends on.  A
client sends well-formed sequences (`CanSend`).  Output is counted in units of
one `websWriteBlock`; the headers are one unit.  The kernel's send buffer has
`RoomMax` units, and the client frees one at a time by reading.  HEAD, PUT,
DELETE, OPTIONS and pages of the board reply as an action with no or few
blocks.  A reply before any handler runs (no route, failed login) is the
handler `error`.

**Timers.** `WebsServer` gives a connection a timer that is due at a time;
`Timers` is the detail behind it.  A scan step of `websRunEvents` is an action
(`ScanPass`, or a call of `checkTimeout` or `pruneCache` with everything it does
to both lists), because the clock moves while it runs.  Connections come and go
only while the thread works on sockets; an accept may find no memory for the
object or for its event, or give up with the object allocated.  `websDebug`,
which rearms every timer, is not modelled.

**Response output.** `WebsServer` counts output in units; `TxPipe` is the detail
behind one connection's output.  Its `pc` walks through websWriteBlock,
flushChunkData and websFlush, with the caller that websFlush returns to.
`wire` reads what is put in `output` as a client would (prefix, that many
bytes, next prefix, last chunk), so "bytes in the right place" is a state
rather than a sequence of characters.  The socket takes any amount, nothing
after a failure, and at least a byte when select has said that it is writable.
Both buffers keep their size, as their `buflen` is above their `maxsize`.  All
prefixes have the same length; the headers leave `RESERVE` bytes free.  The
handler announces a length and writes no more than that, or writes in chunks.
The background writer is in `WebsServer` only.

**Request bodies.** `WebsServer` takes a body in pieces and forgets their
content; `RxBody` follows one body byte by byte from the socket (`wire`) through
`rxbuf` and `input` to its consumer, and the network cuts it anywhere.  Bytes
are symbols: a boundary is three symbols, and what a header line says, the
`--` behind the last boundary and the digits of a chunk size are one symbol
each.  `disk` has the temporary files; `kept` has what stays behind: the target
of a PUT and the copy that the board's code makes in `UPLOAD_DIR`.  The file of
a CGI body is written as that of PUT.  A reply to a refused body drains at once
or later (`Fail`); a write to an upload file is all or nothing; opening one is
assumed to succeed, and the content type to name a boundary.  `pc` is
`upload` while a call of websProcessUploadData has consumed nothing, and
`parsing` after that, because a line that begins at the start of the buffer is
cleared by `bufReset` when it was all there was (`Line`).  What a client may send is
written down in `RxAssumption`, which TLC evaluates for the requests of the runs: a
request carries with it where its chunks begin, in the stream and in the body
(`chunks`), and `ChunkAt` says what must stand there.  Malformed chunks are those that
end, after any number of good ones, in bytes that begin no chunk.  A form carries
the places where its boundaries, headers and contents begin (`places`), and
`FormsSent` (`Forms`) says what follows what: the header names one field, that no
other part names, and no boundary stands inside a content.

**Access.** A request is routed within one turn, so `Access` follows one request
at a time, an action per step; clients and the clock move between requests.
A path is a sequence of symbols, and only whether a route's prefix begins it
matters.  `computeAbilities` is a recursive function with the code's depth
counter, compared with the closure of a user's roles (`Held`).  A session is its
user and the ticks until it expires; its id is a number, and a request holds it
as `wp.session`, which may be a session that never came into the table (`Lost`,
when `hashEnter` finds no memory).  The other session variables are only calls
that may create a session.  A password is right or wrong (`good`); a client
that forgets its cookie is a new client.  Alternatives in an ability (`a|b`) are not modelled.  Digest authentication is
the matter of `Digest`, the making and editing of the tables that of `Config`,
and what a handler does with the connection that of `WebsServer`.

**Library.** Most of the code computes and returns, or keeps data for its
caller.  `Library` composes these routines.  Its `part` says what a behaviour is
about; the four parts share no state.  In `calls`, a step chooses a routine and
its input; what it returns is an operator, and the action properties compare that
with what the routine promises.  There are no steps within a call, because no other
actor sees them: the process has one thread, and these routines call nobody.
Each promise is written independently of the code, in a module of its own or at
the end of the routine's: a tree and its meaning for a script, a URL by its
parts, a date as a count of days.  The input is *written down* from such a
description, and what the code reads from it must be the description again.
Words that no routine looks into are one symbol; characters are symbols.

`buffers`, `tables` and `configuration` have state that lasts.  `RingBuf` numbers
the bytes that are put (`Labels`) and keeps memory as a function of offsets, so
that a copy over its end has no meaning; it implements `Fifo`, a sequence.
bufGrow doubles `increment` before it asks for memory, so it doubles also when
there is none; above `MemoryMax` the model stops doubling, since no growth by
such an increment succeeds.
`Hash` has handles, chains and the strings that entries own; it implements
`Dictionaries`, a function for each open table.  `Config` loads a file of lines,
then edits (adds, removes and inserts routes, users, roles), and writes the users
and roles back as gopass does.  `LibraryView` leaves out `io` (the last call of a
ring buffer) and the memory that holds no data: no later step depends on either.

**Order of a turn.** The program looks at sockets, then CGI programs, then
timers; the model lets the thread in `select` take any of them, which adds
orders and removes none.

## 3. Runs

All runs say `CHECK_DEADLOCK FALSE`: when the clients have spent `Budget` and
every connection is freed, only the clock is left; and in `library` the
configuration stops after `CallMax` calls.

| run | instance | what it shows |
|---|---|---|
| `server` | 1 connection; action, file, CGI; resets and failed accepts; 5 client steps; output of 2 units, send buffer of 1, documents of 2 | `TypeOK`, `TimerMatches`, `HeaderBoundary`, `NoLateBytes`, `NothingParked`, `ReuseDelivers` |
| `errors` | 1 connection; errors, actions, files; malformed and endless headers, half-close, reset, failed accept, refused bodies; a send buffer with room for all replies | `ClosedIsFreed`, `NothingParked` |
| `live` | 2 connections; requests with a body, kept, cut or refused by their consumer; files; resets; under `FairSpec` | `NeverBlocks`, `QuietClosed` |
| `timers` | 2 objects, lists that grow by 2, clock up to 4; under `FairSpec` | `TypeOK`, `ListsSound`, `HandlesMatch`, `SleepsNoLonger`, `ScanReturns`, `Alarms` |
| `pipe` | buffers of 16, low water mark 4, reserve 3, prefix 2, trailer 3; blocks of 4 and 17, lengths 0 and 21; under `FairSpec` | `TypeOK`, `WellFormed`, `ReadInOnePiece`, `EndMeansAll`, `ChunksWhole`, `Finishes` |
| `body` | forms and PUTs of 5 bytes, plain and in chunks of 1 and 4; forms with a variable and a file, a file without bytes; three malformed chunked bodies; any cut; writes that fail, clients that go; under `FairSpec` | `FilterExact`, `HandlerHasBody`, `WholeFormExact`, `PartsBounded`, `FilesSettled`, `BodyEnds` |
| `access` | ten routes, two users, three roles that use the depth of `computeAbilities` to its last level, fourteen requests; a table of two sessions, a life of two ticks and pruning after each; allocations that fail; under `FairSpec` | `CountAccounts`, `ServedRight`, `RefusedRight`, `SessionsBounded`, `Answered`, `Abandoned` |
| `library` | 83 937 states: scripts, pages, formats, strings, URLs, heads, forms, dates and addresses from `LibraryMC`; every sequence of calls of a ring buffer of at most 7 bytes, and of two hash tables; two files and three calls for the configuration | `ScriptsRight`, `TextsRight`, `RequestsRight`, `DatesRight`, `RingSequence`, `TablesSound` |
| `spin` | one GET answered by an error, send buffer of 1 | violates `NeverBlocks` |
| `job` | a CGI program and a timeout | violates `JobHasConnection` |
| `names` | the same requests, without faults | violates `NamesKnown` |
| `truncated` | two blocks that just fit in `chunkbuf` | violates `CompleteMeansWritten` |

**Bounds.** `Budget` bounds connections opened and pieces sent: five allow a
request with a fragmented header and a body in two pieces followed by another
request, or three pipelined requests.  A buffer of two units with one unit of
room is the smallest that is empty, partly full, full and drained in parts.
Two ticks of request timeout separate "active since" from "expired".  One
connection suffices for safety, as connections share nothing but the thread
and the timer list; the proofs cover any number.  `live` has two, so that one
can keep the thread from the other.

In `timers`, three events with lists of two make a list grow, shrink and be
freed, with holes below its bound; a clock of four passes every delay.  (Three
objects were checked as well; nothing new happens.)

In `pipe`, a block of 4 fits in a buffer and one of 17 does not; headers of 12
leave less than the low water mark and headers of 2 more; a body of 21 takes
three chunks or wraps `output`.  `Finishes` asks that an ended response is written out to its
last byte unless the connection fails; the one other way out it allows,
`Truncated`, is what run `truncated` shows (4.3).  The sizes keep the order of the real ones
(prefix and trailer below the reserve, reserve below the low water mark), which
is what `PipeAssumption` asks.

In `body`, `ReadMax` is larger than any request, so a read may end anywhere.
`InputMax` is 5, the longest chunked body: a longer one never gets to its end
(see below).  Files look like the start of a boundary, have a line end in them,
or no bytes; behind each body is the first byte of the next request.

In `access`, one client that logs in, forgets its cookie and comes back fills the
table as several would: requests do not overlap.  The limit is 1, which lets in two
sessions.  The life is longer than the time between prunings, as in the code, so that
a session may be renewed, expire, and be used after it has expired.  No route has
redirections without one for 401 (see `Answered` below).  One route asks for `breathe`, which
the roles nest deepest; a sibling counts as depth, so it is entered at level 4, and `DepthMax` is 4:
if computeAbilities stopped a level earlier, `RefusedRight` would fail.

In `library`, memory of 7 bytes and numbers up to 8 let a ring's data wrap, move to
the front and grow (`WEBS_SHIFT` 0 makes memory grow by the byte, and
`LIMIT_BUFFER` 3 is below it); puts and gets have up to 3 bytes, so that each falls
short, fits and is exact.  Three names of which two share a chain make an entry
the first, a middle and the last of a chain; two tables let one be closed while the
other is used, with their handles in one list.  `ROUTE_INCR` 2 makes the route table grow while the files are
read; roles are nested two deep, and `DepthMax` 5 leaves room for siblings
to be counted as depth.  A file has up to three of five route lines, or up to
four users and roles, in every order; three calls after it (edits, a second
file, writing back) reach every pair of edits and what follows them.  `BufferInit` 4 and `GrowInit` 3 make formatted texts
grow twice.  The limits of a request (30 characters of URL, 4 headers, 20 and 30
bytes of body) and `WEBS_MAX_LISTEN` 2 each stand between inputs that keep and that
pass them; `ArgpSize` 2 makes the arguments of a program grow.  `LoopMax` bounds the
turns of a `for` in a script; the programs make at most 4.

Inputs are left out of `library` where the code does not do what a reader of its
comments expects; each is named in section 4: formats in which `AsPrinted` does not hold,
dates of RFC 850, names that begin with a dot, requests with two lengths, blocks of one byte.
`Texts` keeps the scripts that are looked over for ever, but `ScriptsRight` asks of
them (`Endless`) only that they write and change nothing.

**Fairness.** The thread does not stop inside a handler (`WF(Handle)`), time
passes (`WF(Tick)`).  For each connection, socket events that the kernel
reports, due timers and CGI polls are strongly fair: every turn of
`websServiceEvents` looks at all of them, but handlers of other connections
keep the thread out of `select` in between, so weak fairness would not be
enough.  A socket that is only *marked* (`SOCKET_RESERVICE`) is not promised
its event.  Nothing is assumed of the clients.  `Timers`
assumes only that the thread does not stop inside `websRunEvents` (`WF(Scan)`).  `TxPipe` assumes that the thread does not
stop inside a call (`WF(Thread)`) and that a client which reads makes its
socket writable (`WF(WriteEvent)`); clients that do not read are the matter of
`WebsServer`, whose timer ends them.  `RxBody` assumes that
the thread does not stop (`WF(Thread)`), that what was sent arrives (`WF(Read)`)
and that a reply to a refused body is read (`WF(Complete)`); `Gone` is not fair.
`Access` assumes that the thread does not stop (`WF(Thread)`) and that time passes and
the timer runs between requests (`SF(Tick)`, `SF(pruneCache)`): the loop runs timers in every
turn, but requests make both wait.

**Why `errors` has a large send buffer and `server` has no `error` handler.**
With a reply that does not drain at once, websPump loops for ever in state
READY (the `spin` run): properties stated "in select" would then hold only
because select is not reached again.  `errors` gives every reply room, so all
paths return; the `spin` run keeps the flaw visible.

## 4. Findings

1. `spin`: a reply made in state READY that does not drain at once is routed
   again for ever (http.c:836 with route.c:136).
2. `job`: a CGI program outlives its connection; `assert(websValid(wp))`
   (http.c:549).
3. `truncated`: websFlush completes an ended response when `output` is empty,
   although `chunkbuf` still holds data (http.c:2102).
4. `names`: a line of a multipart header that arrives alone is cleared before it
   is read (upload.c:124, runtime.c:1777).  When it was the Content-Disposition,
   the part has no name, and `assert(decoded)` (http.c:2219) fails.

Met while modelling, part of the model, and without a run of their own:
a body cut short by a half-close completes the connection twice, which
`assert(wp->sid >= 0)` (http.c:587) does not expect;
`checkTimeout` closes a connection in BEGIN whatever its age (http.c:2308); a
client that half-closes after its request loses the response, as `socketWrite`
refuses to write after end of input (socket.c:771); a half-closed client that
stops reading keeps its connection, as every end of input counts as activity
(http.c:785); a connection that `websCgiPoll` completes is closed and never
freed (hence no CGI in `ClosedIsFreed`); a body refused by its consumer leaves
a finished request in CONTENT or COMPLETE until the next event (hence
`BodyFaults` in `NothingParked`); `wallocObject` gives back a handle whose
entry is still null when it finds no memory, which `assert(mp[handle + H_OFFSET])`
(runtime.c:1256) does not expect; `websAccept` that gives up leaves its
object in `webs[]` for good (`orphan`); reuseConn does not keep `listenSid`, so the requests that
follow on a connection take their port from socket 0 (http.c:991); `websAccept` does not look at the result of
`websStartEvent`, and `complete` asserts that there was one (http.c:585); `sumbitProc` (user.c:364) never ends its
response, and its client waits for the request timeout; websDone after a
failed write meets a completed connection, which its assertion (http.c:554)
does not expect; a response without a length is chunked for HTTP/1.0 clients
and HEAD requests as well (websWriteHeaders).

Met in request bodies: the same clearing of a line refuses a form whose boundary
line arrives alone, and enters a part under the name of the part before it
(`PartsBounded` is about forms of which no line was lost); a read that
ends inside a boundary leaves the line end before it in the file, although
upload.c:346 says "Must handle split boundaries", and if only the last byte of
the boundary is missing the file is never entered in `files` (hence `Extended`,
and no promise that a file is entered unless the form came whole); a variable
cut by a read is stored as its beginning, and the form is then refused;
websProcessUploadData returns 0 after an error, so that the handler may run on a
finished response; after a write of a file's last bytes has failed, the next
read copies the incomplete file to `UPLOAD_DIR` all the same; a PUT that is refused,
malformed, lost or timed out leaves its temporary file for good, as websError closes
`putfd` (http.c:1740) and termWebs (http.c:435) then neither renames nor unlinks it
(`FilesSettled` allows this file and no other); websClose does not call websError, so a
server that is shut down replaces a target by the part of a PUT that has come (not
modelled); a variable whose value is the whole of what has been read is stored empty, since
bufReset clears it first (upload.c:363, runtime.c:1777); a second file part overwrites `currentFile`, and when the
first was not entered its temporary file stays (hence one file in `FilesSettled`); a
chunked body longer than `input` (16383 bytes, http.c:397) is never
finished, as filterChunkData only fills the room; websSetFormVars ignores
chunked forms (it asks for `rxLen`).

Met in `Access`: the limit lets in one session more than it says, and a session
that could not be stored stays counted for good (http.c:3506; hence `unstored`);
websSetSessionVar returns 0 when there is no session (http.c:3619), so a login
succeeds and is forgotten when the table is full; `WEBS_REROUTE` restarts the
scan at the second route (route.c:125); when a route has redirections but none
for 401, or parseAuth fails, websAuthenticate returns without a reply and
websPump routes the request for ever (`AuthRefused`; no instance has such a
route, and `Answered` would fail); computeAbilities counts siblings as depth
(auth.c:349); an expired session is good, and renewed, until it is pruned;
websVerifyPasswordFromFile keeps the `user` of an earlier name, and `encoded` of an
earlier password, so that a login behind an authenticated route would fail
(`Verifier`).

Met in scripts (js.c, jst.c): `var x;` in a branch that is not taken declares `x`, and
clears an `x` there was; an error inside a block is forgotten when the next token
is `}`; `if` takes a condition whose text begins with 1 for true, `for` one that
does not begin with 0; the character behind a keyword is lost; the value of a call is
its last argument, and `f()` passes one empty argument; `x++` of a declared
`x` without a value reads through NULL; `&&` and `||` have the codes of `<` and
`<=`; `y = = 3` assigns; `\u` multiplies by 16; in braces, a statement that begins with an operator or with `else` (`{ +`) never comes
back, although the comment at js.c:245 says "prevent parser from going into infinite
loop" (`Endless`).  The comment at jst.c:126 says that output is discarded after an error; it is not.

Met in dates and URLs: dates of RFC 850 are never understood, though the comments at
http.c:2524, 2820 and 3013 name them: `sizeof` of a long weekday counts the null, so the comma
is passed over (http.c:2941), and a year of two digits is never read, as parseNDIGIT
never fails; `DatesRight` says what a date means and is not asked about these.  Days before 1970
count as the first in the form of RFC 1123 (http.c:2855), and are negative in that of asctime.  `ext` is stale after decoding in place
(http.c:3149); `/a?#x` has an empty path; `/a#r?x` has a query; a host without a path
writes to a constant; a segment that begins with a dot is not moved by
websNormalizeUriPath, against the comment at http.c:3183.

Met in strings and formats: against the "printf style" of goahead.h:1204, fill with zeros goes
before a sign or prefix (`000-5`, `000xff`) and is not ruled out by a precision, 0 with precision 0 is shown,
and a blank wins over a sign when both are asked for (`TextsRight` says what printf shows, and
`AsPrinted` leaves these out); `%#s` drops a character; an argument that ends in an escaped backslash does not
end (websParseArgs); scaselesscmp of two NULLs is -1.

Met in requests: a second websSetCookie is joined to the first header by a blank;
makeUri drops the ports 80 and 443 whatever the scheme; a relative redirect with `http://` in
its query counts as absolute; a Content-Length behind a Transfer-Encoding
overwrites `rxRemaining` (hence no two lengths in `MCRequests`); a header line
without a colon takes the text of the next line; a head with too many lines counts
empty headers up to the limit.  websHostUrl gives an IPv6 address without brackets, which does
not read back.  The encoding of one byte needs five of the three bytes allocated (websEncode64Block), and a
null inside never ends it; both are left out of `Blocks`.  cgiHandler changes
the directory before it looks for the program and does not change back when there is
none, against "Restore the current working directory" (cgi.c:203); an encoded blank
in a word of the query splits it as a `+` does; a path beyond LIMIT_FILENAME leaves
`cgiPrefix` unset (not modelled).  websCgiGatherOutput ignores the short count of
websWriteBlock (cgi.c:331) against goahead.h:2789, "will always equal size if there are not
errors": a program's output beyond the buffer is dropped when the client is slow.

Met in digest authentication: an unquoted last parameter leads the loop past the
end; a backslash in a value drops every second character of the copy;
`smatch(secret, secret)` (auth.c) compares a local with itself.

Met in containers and configuration: websRemoveRoute frees a handler that other
routes share, and reads one entry behind the last; the size of websAddRoute's
memmove is too large for positions behind 0 (callers use 0 and -1 only);
bufAddNull of a full buffer grows it and writes no null; bufCreate with -1 means
`initSize`, not "no upper limit" (runtime.c:1316); bufGrow that is told the room
ignores `maxsize`; a role without abilities leaves the handle -1 for
websComputeAllUserAbilities; an option without `=` leads addOption(NULL) to stok; a
refused line leaks its tables, websSetUserRoles and a second websLoad the old
abilities; removing a role does not change the abilities of its users;
hashEnter takes an empty name that hashLookup never finds (`HashNames` has none).
gopass removes the file before the rename, which may fail between file systems.

## 5. Proofs

Assumptions: `CoreAssumption` and `ServerAssumption`, the ranges of the
constants; TLC evaluates both in every run.

* `TypeCorrect`: `Spec => []TypeOK`.  Inductive as it stands.  The routines that
  only produce output satisfy one relation, `Kept`, which says what they leave
  alone; one lemma per routine proves it, and the lemma of each handler follows
  by transitivity.
* `TimersMatch`: `Spec => []TimerMatches`.  `TimerMatches` is not inductive:
  `reuseConn` clears `WEBS_CLOSED`, and on a connection already closed that
  would leave an "open" object without socket and timer.  `LifeInv` adds why
  this cannot happen: `Sound` follows keep-alive (a closed connection that can
  still be completed has lost it, since a lost write or an error cleared it),
  and `Located` says which connection may be closed while the thread is where.
  `PumpStep`, `HandlerStep`, `IdleStep`, `WakeStep` and `AlikeStep` state what a
  step of each kind must leave; then one lemma per action.  The invariant was
  model-checked on instances with all handlers and faults before it was proved.

* The other theorems of `WebsServer_proofs` rest on one reduction.  A step of
  the server moves one connection, and its effect on that connection, with the
  place of the thread in it and its CGI program, is one of a few `Move`s
  (`MoveBEGIN` .. `MoveCOMPLETE` for a turn of websPump, `MoveEvent` for what
  frames it, `MoveOutside` for client and clock).  So each invariant is a
  predicate of one connection, its place and its program, kept by every `Move`:

  - `ClosedFreed` (`ClosedIsFreed`), for servers without CGI programs:
    `websCgiPoll` completes a connection and does not look whether that closed
    it.  `FreedInv` says where the thread may be while a closed connection is
    not freed.
  - `NothingLate` (`NoLateBytes`), for servers that answer each request through its
    handler (`AllServed`: no `error` handler and no malformed or refused
    request).  An error reply leaves a program or a handler behind that goes
    on writing.
  - `ReuseComplete` (`ReuseDelivers`), for servers whose replies end what they
    reply to and clients that do not half-close (`RepliesEnd`).  Without it the
    property is false: after a half-close `socketWrite` drops what a file
    handler writes while keep-alive stays, and an error reply that is routed on is
    answered twice.
  - `NothingIsParked` (`NothingParked`), without `"put"` faults (a refused PUT leaves
    bytes in `rxbuf`) and, unless the weaker promise of upload faults is asked,
    without CGI programs or without error replies (an error reply routed to
    a CGI program leaves its job on the connection that is reused).
  - `BoundaryKept` (`HeaderBoundary`), without `"put"` faults: a refused PUT whose
    reply does not drain leaves CONTENT with nothing remaining, and the next
    header is taken for body.  `Legal` is the grammar of what clients send and `Leads` what
    a prefix of it leaves open; the invariant relates `rxRemaining` to that.

  Without its hypothesis each of them fails, by the behaviour that is named.

* `Timers_proofs`: `TypeCorrect`, `ListsStaySound` (`ListsSound`),
  `HandlesNameOwners` (`HandlesMatch`), `NoOversleep` (`SleepsNoLonger`) and
  `ImplementsAlarms`, from
  `HandlesAssumption` and `TimersAssumption`.  The invariant `TimersInv` adds to
  the properties that the entries the scan has passed are not due before
  `loop.next`: that is why a scan which starts again after each call misses
  nothing.  One lemma of `Handles_proofs` for each of `AllocObject`, `FreeHandle` and
  `AllocFails` says what it does to the entries, so that the lemmas of the actions
  need not look into the lists.

* `TxPipe_proofs`: `TypeCorrect`, `ResponseWellFormed`, `BuffersStraight`,
  `NothingDropped` and `ChunksNeverCut`, from `PipeAssumption` and
  `BufSizeAssumption`.  The invariant `PipeInv` says why a ring may be read as
  an array: whenever websFlush returns, both buffers start at their front
  (`ChunkStart` leaves a chunk no longer than the room, so `bufCompact` always
  follows); `ChunkFits` and `TrailerFits` are the two reserves of
  flushChunkData; `WireMatches` ties `txChunkState` to what the client expects.

* `Access_proofs`: `TypeCorrect`, `CountRight` (`CountAccounts`) and
  `SessionsStayBounded` (`SessionsBounded`), from `AccessAssumption`.  The
  invariant `AccessInv` adds that routing goes on only below the limit of rewritings.
  `FreshId` is why a new session never takes the place of another: there are more ids than
  sessions and cookies together, which needs the account to be right.
  `SessionOutcome` says once what websGetSession may leave behind (`Outcomes`),
  and the actions that call it are proved from that.

  `OnlyEntitledServed` (`ServedRight`) needs `AccessAssumption`
  and two conditions on the route table that `AccessMC` meets (its
  `RoutesAssumption`).  `FirstRouteSafe`: a rewritten request is routed from the
  second route on (WEBS_REROUTE sets the loop's counter to 0, and the loop adds
  one), so the first route must be open or not match the new path.
  `RedirectsComplete`: a route with authentication has no redirections or one
  for 401; otherwise a refused login sends nothing, and websPump routes the
  request again with the name that was refused in `wp->username`.  The
  invariant `ServedInv` has two parts beside `AccessInv`.  `OwnerInv`: no two
  clients share a session, and a session has the name of its client's last
  login or none.  `RoutingInv`: every matching route behind the loop has let
  the request pass, and the name of the request is that of the last login and
  would be verified as the same again, which is why a login at a later route
  does not undo an earlier one.  `AbilitiesHeld` says that computeAbilities
  enters no ability that the nested roles do not give, by the smallest level at
  which it would (the depth limit may lose abilities, it adds none).

  `OnlyOthersRefused` (`RefusedRight`) is the other direction: who is entitled
  is not refused.  It needs `RedirectsComplete`, that login actions have paths of their own
  (`ActionPaths`), and that roles are nested no deeper than computeAbilities
  follows them (`RolesWithin(height)`, where a sibling counts as depth, as in the
  code); beyond that depth it does lose abilities.  `HeldEntered`, by the least
  height at which an ability is lost, is its lemma.

* `RxBody_proofs`: `TypeCorrect`, `BodyIsFiltered` (`FilterExact`),
  `BodyIsHandled` (`HandlerHasBody`) and `FilesAreSettled` (`FilesSettled`), from
  `UploadAssumption` and `RxAssumption`, for bodies and chunks of any length,
  cut anywhere.  The stream is never followed byte by byte.  `Cut` says that
  what was given to `input` and what is still in `rxbuf` and `wire` make up the
  stream; `ChunkInv` that the filter stands at one of the request's `chunks`, or
  so many bytes before the next, as `rxRemaining` says.  That a step keeps this
  is a matter of a few facts about prefixes of sequences, proved at the
  beginning; the one induction needed, that the first line feed found is the
  one of the grammar, is by a least counterexample.  `BodyInv` says where a
  consumer has put the body so far.  `FilesAreSettled` assumes that a form has one
  file (`OneFile`), since a second one overwrites `currentFile`; `LitterInv` says that the
  only file of a form on disk is the current one, until it is entered or unlinked, and `KeptInv`
  that a target is replaced only at the end of a PUT that has not failed (`PutOpen`), when the
  file holds the whole body (`PutIsWhole`).

  `PartsKeptApart` (`PartsBounded`) and `WholeFormParsed` (`WholeFormExact`) are about
  forms as `FormsSent` describes them, of any number of parts, and any number of
  files.  Neither property is inductive: both only look at fields that have been
  entered.  `FormInv` adds where the parser is while it works: at a place of the form, or
  in the content of a part, with the file that is written holding that
  content up to there (`Standing`), and no file written that has been entered already.
  `ContentIs` and `InSight` say why the search of getBoundary in what has arrived finds
  the boundary of the form and never an earlier one; `PartCopied` why what a
  cut leaves in a file is at worst the content with its line end.  For a form
  that came in one read, `WholeInv` adds that nothing was parsed until all of it was
  there, and that at each place all parts before it are entered (`DoneAt`); with the
  rest of the form in sight no line is lost, so the hypothesis `~lineLost` of
  `PartsBounded` is not needed there.  `RxBodyMC` has `FormsSent` and `OneFile` as an
  assumption, which TLC evaluates for the forms of the runs.

* `RingBuf_proofs`: `RingIsSequence`, that `RingBuf` implements `Fifo`, and
  `PutsAreTold`, its `Terminated` and `ShortMeansFull`, from `RingAssumption`,
  which leaves memory, blocks, limits and the arguments of callers open
  (`LibraryMC` has TLC evaluate it).  With both, the property `RingSequence` of run
  `library` holds for every value of the constants.  `Ring` says what a buffer
  is: both offsets inside the memory, which is never full to the last byte, so
  that equal offsets mean empty.  The k-th byte of the data is at `Place(b, k)`; a
  sum of two offsets is less than twice the length, so one subtraction stands for
  the remainder.  `Copied` and `Drained` are about one straight-line piece at the end
  and at the front.  The loop of bufPutBlk is a recursive function; `PutSoFar`
  holds of each of its rounds by a least counterexample, and counts rounds with bytes,
  which is why `Len(s)` rounds are enough; bufGetBlk has two rounds, since data
  lie in two pieces at most.  `BlockSize`, the same way, says that a block is positive
  and holds what it is for: from it follows that bufGrow makes room and that a
  grow that failed fails again.

* `Hash_proofs`: `HashIsDictionary`, that `Hash` implements `Dictionaries`,
  `CopiesAccounted` (its `CopiesOwned`) and `WalksComplete` (its `WalksOnce`), from
  `HandlesAssumption` and `HashAssumption`, which leave names, their sums, the sizes
  and the number of tables open (`LibraryMC` has TLC evaluate it).  `OneChain`
  says what a chain is: its names have its index, its entries know it, and no name
  is there twice.  `Holds(tp, name, v)` is what a table says of a name; `EnterIs`,
  `DeleteIs` and `PruneIs` say what a call makes of it and of what the table owns,
  and are all that the steps need.  What a list of tables owns is a sum of sums of sums;
  `TotalChanged`, `TotalExtended` and `TotalWithout` are the three things that happen
  to each, proved by a least counterexample (`UpTo`), as what the rounds of a loop
  keep is.  `Walked` says that a walk has come by the names before the entry it is at
  (`Before`), in the order of chains and entries; a walk that went on for as many rounds as
  there are names would have come by all of them but one, which `FS_PigeonHole` forbids.
  The walk is followed also while it deletes what it is at: an entry behind a deleted
  one moves up by one place (`EntriesShift`) and keeps its order (`BeforeShifts`), so
  the loop of pruneCache takes every name it was to take, and no other.

Only model-checked: what the other routines of `Library` return: they are recursive
operators or folds, whose proof needs induction over data, which the provers
cannot do.  Liveness is out of the prover's reach: `NeverBlocks`, `QuietClosed`, `ScanReturns`, `Finishes`, `BodyEnds`,
`Answered` and `Abandoned`.

## 6. Not modelled

* The JSON library is third-party code, and the SSL files are adapters to libraries.
* MD5 is a symbol for what it was made from: its bits are better tested against
  vectors.
* alloc.c is compiled out (`BIT_GOAHEAD_REPLACE_MALLOC` is 0).
* user.c calls the board's commands one after the other and writes what they
  print; for the server its pages are actions that write blocks.
* Failures of the system in four places: a receive buffer that cannot grow
  (http.c:789), the file for the input of a CGI program or for a PUT that cannot be opened
  (http.c:891, 902), temporary files of an upload that cannot be made (upload.c:234), and hash
  tables and entries for which there is no memory (runtime.c:1859, 2050).  `Read`,
  `ParseIncoming`, `UploadHeader` and `Hash` take these to succeed.
* parseHeaders after a line that parseFirstLine has refused with a reply that does not
  drain (http.c:882): it may turn keep-alive on again and set the length of a body.  `Refused`
  goes on in READY without either; where a run has malformed headers, the reply drains.
* A new connection whose object gets the address that `cgip->wp` of an older program
  still has: `Accept` waits for the program.  The stale pointer itself is the finding of `job`.
* Logging, Unicode, floating point beyond its digits, PAM, platform glue and the
  creation of processes compute or call the system, and no turn of the loop
  interrupts them.
* The headers that a CGI program writes, HEAD and the ROM file system change what
  is said in a response, not when; the handlers' close callbacks free their tables
  when the server ends.

## 7. Plan

Done: `WebsServer`, `Timers` with `Alarms`, `TxPipe` and `WebsBuf`, `RxBody` and
`Upload`, `Access`, and the routines of `Library` with `RingBuf`/`Fifo` and
`Hash`/`Dictionaries`.

Left:

1. An abstract connection (request received, response delivered, closed) that
   `WebsServer` refines.
2. `Firmware`: check_uploadfile and decode_firmware (user.c).
