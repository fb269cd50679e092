------------------------------ MODULE WebsCore ------------------------------
(***************************************************************************)
(* The connection object of the server (struct Webs, http.c) and the       *)
(* routines that change it, as functions from a connection to a            *)
(* connection.  The server has one thread: a routine runs to its end, so a *)
(* routine without a choice of its own is an operator here, and the event  *)
(* handlers and the loop of websPump are the actions of WebsServer.        *)
(*                                                                         *)
(* Bytes are counted in units: a unit of response is what one call of      *)
(* websWriteBlock queues, a unit of request is a piece (see Pieces).       *)
(***************************************************************************)
EXTENDS Integers, Sequences

CONSTANTS
  OutMax,         \* capacity of wp->output, in units
  RoomMax,        \* capacity of the kernel's send buffer, in units
  DocMax,         \* longest document the file handler sends, in units
  PostLen,        \* Content-Length of a request with a body, in pieces
  WEBS_TIMEOUT,   \* request timeout, in ticks of the clock
  PARSE_TIMEOUT   \* timeout armed when a connection is accepted, in ticks

ASSUME CoreAssumption ==
  /\ OutMax \in Nat \ {0}
  /\ RoomMax \in Nat
  /\ DocMax \in Nat
  /\ PostLen \in Nat \ {0}
  /\ PARSE_TIMEOUT \in Nat
  /\ WEBS_TIMEOUT \in Nat \ {0}

(***************************************************************************)
(* Values.                                                                 *)
(***************************************************************************)

\* wp->state: the bits of goahead.h, compared by the code as numbers.
BEGIN    == 0
CONTENT  == 1
READY    == 2
RUNNING  == 4
COMPLETE == 8

States == {BEGIN, CONTENT, READY, RUNNING, COMPLETE}

(***************************************************************************)
(* What a client sends, cut where the server can tell the difference:      *)
(*   frag   the start of a header, without its blank line                  *)
(*   get    (the rest of) the header of a request without a body           *)
(*   close  the same with "Connection: close"                              *)
(*   post   the header of a request with PostLen pieces of body            *)
(*   data   one piece of body                                              *)
(*   bad    a header that parseFirstLine or parseHeaders refuses           *)
(*   huge   BIT_GOAHEAD_LIMIT_HEADER bytes without a blank line            *)
(***************************************************************************)
Headers == {"get", "close", "post", "bad"}
Pieces  == Headers \cup {"frag", "data", "huge"}

Interest == {"R", "W"}       \* SOCKET_READABLE, SOCKET_WRITABLE
NoTimer  == -1               \* no entry in callbacks[]

Body     == 0 .. PostLen
Queued   == 0 .. OutMax
Room     == 0 .. RoomMax
Document == 0 .. DocMax
Age      == 0 .. WEBS_TIMEOUT
Timer    == {NoTimer} \cup 0 .. (WEBS_TIMEOUT + PARSE_TIMEOUT)
Owed     == -2 .. PostLen

(***************************************************************************)
(* A connection: the Webs object, its entry in socketList, its entry in    *)
(* callbacks and the two directions of its TCP stream.                     *)
(***************************************************************************)
WebsType == [
  live    : BOOLEAN,           \* the object is in webs[]
  orphan  : BOOLEAN,           \* (history) websAccept failed after websAlloc
  state   : States,
  ka      : BOOLEAN,           \* WEBS_KEEP_ALIVE
  closed  : BOOLEAN,           \* WEBS_CLOSED
  fin     : BOOLEAN,           \* WEBS_FINALIZED
  hdr     : BOOLEAN,           \* WEBS_HEADERS_CREATED
  rx      : Seq(Pieces),       \* rxbuf
  rem     : Body,              \* rxRemaining; wp->eof is rem = 0
  out     : Queued,            \* bufLen(&wp->output)
  writer  : BOOLEAN,           \* wp->writeData is set
  doc     : Document,          \* what is left to read from wp->docfd
  timeout : BOOLEAN,           \* wp->timeout >= 0
  age     : Age,               \* time(0) - wp->timestamp, up to the limit
  late    : BOOLEAN,           \* (history) queued a unit after websDone
  cut     : BOOLEAN,           \* (history) a failed write dropped units
  open    : BOOLEAN,           \* wp->sid >= 0
  mask    : SUBSET Interest,   \* sp->handlerMask
  resv    : BOOLEAN,           \* SOCKET_RESERVICE
  sockEof : BOOLEAN,           \* SOCKET_EOF
  timer   : Timer,             \* callbacks[wp->timeout]->at - time(0)
  room    : Room,              \* free space of the kernel's send buffer
  net     : Seq(Pieces),       \* sent by the client, not yet read
  owe     : Owed,              \* what the client may send next (CanSend)
  shut    : BOOLEAN,           \* the client closed its sending side
  rst     : BOOLEAN ]          \* the client reset the connection

\* The state of an object that is not allocated (Webs, socket and timer).
NoWebs == [
  live |-> FALSE, orphan |-> FALSE, state |-> BEGIN, ka |-> FALSE,
  closed |-> FALSE, fin |-> FALSE, hdr |-> FALSE, rx |-> << >>, rem |-> 0,
  out |-> 0, writer |-> FALSE, doc |-> 0, timeout |-> FALSE, age |-> 0,
  late |-> FALSE, cut |-> FALSE, open |-> FALSE,
  mask |-> {}, resv |-> FALSE, sockEof |-> FALSE, timer |-> NoTimer,
  room |-> RoomMax, net |-> << >>, owe |-> 0, shut |-> FALSE, rst |-> FALSE ]

Least(a, b) == IF a <= b THEN a ELSE b

(***************************************************************************)
(* Output: websWriteSocket, websFlush, websWriteBlock, websDone.           *)
(***************************************************************************)

\* websWriteSocket and socketWrite return -1: closed, EOF already read, or
\* the send itself fails.
WriteFails(w) == w.closed \/ ~w.open \/ w.sockEof \/ w.rst

\* websFlush finds output and cannot write it.
FlushFails(w) == w.out > 0 /\ WriteFails(w)

\* Mutated Flush: does not look whether the buffer has drained.
FlushCompletesEarly(w) ==
  LET k == Least(w.out, w.room)
  IN [w EXCEPT !.out = @ - k, !.room = @ - k,
               !.state = IF w.fin THEN COMPLETE ELSE @]

\* websFlush: what the socket takes now leaves the buffer; an error empties
\* it and completes the request; so does an empty buffer after websDone.
Flush(w) ==
  IF FlushFails(w)
  THEN [w EXCEPT !.ka = FALSE, !.out = 0, !.state = COMPLETE,
                 !.cut = @ \/ (w.open /\ ~w.rst)]
  ELSE LET k == Least(w.out, w.room)
       IN [w EXCEPT !.out = @ - k, !.room = @ - k,
                    !.age = IF w.out > 0 THEN 0 ELSE @,
                    !.state = IF w.out = k /\ w.fin THEN COMPLETE ELSE @]

\* The value websFlush returns.
Flushed(w) == ~FlushFails(w) /\ w.out <= w.room

\* websWriteBlock of one unit, which is dropped when there is no room for it.
WriteBlock(w) ==
  IF w.state = COMPLETE
  THEN w
  ELSE LET f == IF w.out = OutMax THEN Flush(w) ELSE w
       IN IF f.out = OutMax THEN f ELSE [f EXCEPT !.out = @ + 1, !.late = @ \/ w.fin]

\* websWriteHeaders and websWriteEndHeaders: one unit, once per response.
WriteHeaders(w) ==
  IF w.hdr THEN w ELSE [WriteBlock(w) EXCEPT !.hdr = TRUE]

\* Mutated Done: does not wait for the buffer to drain.
DoneWithoutWriteInterest(w) ==
  IF w.fin THEN w ELSE [Flush([w EXCEPT !.fin = TRUE]) EXCEPT !.doc = 0]

\* websDone: nothing the second time; the page is closed; interest in the
\* socket becoming writable if output remains (or the flush failed).
Done(w) ==
  IF w.fin
  THEN w
  ELSE LET d == [w EXCEPT !.fin = TRUE]
       IN [Flush(d) EXCEPT !.doc = 0,
                           !.mask = IF Flushed(d) THEN @ ELSE @ \cup {"W"}]

\* websResponse, for a method other than HEAD.
Response(w) == Done(WriteBlock(WriteHeaders(w)))

\* websError.  close is the WEBS_CLOSE bit of the code; a body that is not
\* read yet also costs the connection.
Error(w, close) ==
  Response([w EXCEPT !.ka = @ /\ ~close /\ w.rem = 0])

(***************************************************************************)
(* The end of a request: complete, reuseConn, websFree.                    *)
(***************************************************************************)

\* reuseConn: termWebs(wp, 1) and initWebs(.., 1).  The timeout stays armed
\* and wp->timestamp is zero, as old as it can be.
ReuseConn(w) ==
  [w EXCEPT !.state = BEGIN, !.closed = FALSE, !.fin = FALSE, !.hdr = FALSE,
            !.rem = 0, !.out = 0, !.writer = FALSE, !.doc = 0,
            !.late = FALSE, !.cut = FALSE, !.age = WEBS_TIMEOUT,
            !.resv = @ \/ w.rx # << >>, !.mask = {"R"}]

\* Mutated CancelTimeout: forgets the event without stopping it.
CancelTimeoutForgets(w) == [w EXCEPT !.timeout = FALSE]

\* websCancelTimeout: the entry of callbacks[] goes only if wp knows it.
CancelTimeout(w) ==
  [w EXCEPT !.timeout = FALSE, !.timer = IF w.timeout THEN NoTimer ELSE @]

\* socketDeleteHandler and socketCloseConnection; the stream is gone.
CloseSocket(w) ==
  [w EXCEPT !.open = FALSE, !.mask = {}, !.resv = FALSE, !.sockEof = FALSE,
            !.net = << >>, !.owe = 0, !.shut = FALSE, !.rst = FALSE,
            !.room = RoomMax]

\* complete(wp, 0).
CloseConn(w) ==
  [CloseSocket(CancelTimeout(w)) EXCEPT !.rx = << >>, !.state = BEGIN,
                                        !.closed = TRUE]

\* Mutated Complete: a reused connection loses its timeout.
CompleteCancels(w) ==
  IF w.ka /\ w.rem = 0 THEN ReuseConn(CancelTimeout(w)) ELSE CloseConn(w)

\* complete(wp, 1).
Complete(w) == IF w.ka /\ w.rem = 0 THEN ReuseConn(w) ELSE CloseConn(w)

\* websFree: termWebs(wp, 0), wfreeHandle and wfree.
Free(w) == [NoWebs EXCEPT !.timer = CancelTimeout(w).timer]

(***************************************************************************)
(* Request parsing: parseIncoming (BEGIN) and processContent (CONTENT).    *)
(***************************************************************************)

\* rxbuf starts with a complete header.
HeaderReady(rx) ==
  /\ rx # << >>
  /\ \/ Head(rx) \in Headers
     \/ Head(rx) = "frag" /\ Len(rx) > 1

\* The header at the start of rxbuf, and what follows it.
HeaderOf(rx) == IF Head(rx) = "frag" THEN rx[2] ELSE Head(rx)
AfterHeader(rx) == IF Head(rx) = "frag" THEN Tail(Tail(rx)) ELSE Tail(rx)

\* parseIncoming returns 0: no blank line and not too long.
ParseWaits(w) == ~HeaderReady(w.rx) /\ (w.rx = << >> \/ Head(w.rx) # "huge")

\* Mutated Accepted: a request with a body goes straight to its handler.
AcceptedWithoutBody(w, kind) ==
  [w EXCEPT !.rx = AfterHeader(w.rx), !.ka = (kind # "close"),
            !.state = READY]

\* parseFirstLine and parseHeaders on a header they accept.
Accepted(w, kind) ==
  [w EXCEPT !.rx = AfterHeader(w.rx),
            !.ka = (kind # "close"),
            !.rem = IF kind = "post" THEN PostLen ELSE 0,
            !.state = IF kind = "post" THEN CONTENT ELSE READY]

\* A header they refuse: the error reply.  Unless it drained at once, the
\* state is not COMPLETE and parseIncoming goes on as if it had parsed.  What
\* parseHeaders then makes of the other lines (keep-alive, a length) is left out.
Refused(w) ==
  LET e == Error([w EXCEPT !.rx = AfterHeader(w.rx)], TRUE)
  IN IF e.state = COMPLETE THEN e ELSE [e EXCEPT !.state = READY]

\* parseIncoming, when it does not wait.  The files for the input of a CGI
\* program and for a PUT are taken to open (http.c:891, 902).
ParseIncoming(w) ==
  IF ~HeaderReady(w.rx) THEN Error(w, TRUE)
  ELSE IF HeaderOf(w.rx) = "bad" THEN Refused(w)
  ELSE Accepted(w, HeaderOf(w.rx))

\* Mutated TakeBody: takes all that has arrived.
TakeBodyWhole(w) ==
  [w EXCEPT !.rx = << >>, !.rem = @ - Len(w.rx)]

\* filterChunkData of a body with a Content-Length: move what has arrived.
TakeBody(w) ==
  LET n == Least(w.rem, Len(w.rx))
  IN [w EXCEPT !.rx = SubSeq(@, n + 1, Len(@)), !.rem = @ - n]

\* processContent after TakeBody, at the end of the body.
BodyDone(w) == [w EXCEPT !.state = READY, !.mask = {}]

(***************************************************************************)
(* Handlers, as websRouteRequest calls them (state = WEBS_RUNNING).        *)
(***************************************************************************)

\* Mutated Running: the state stays READY while the handler runs.
RunningStaysReady(w) == w

Running(w) == [w EXCEPT !.state = RUNNING]

\* fileWriteEvent: send the document past the output buffer.  On an error
\* the block just read is lost and the read position stays behind it.
FileWrite(w) ==
  IF w.doc > 0 /\ WriteFails(w)
  THEN [w EXCEPT !.doc = @ - 1, !.cut = @ \/ (w.open /\ ~w.rst)]
  ELSE LET k == Least(w.doc, w.room)
           s == [w EXCEPT !.doc = @ - k, !.room = @ - k,
                          !.age = IF w.doc > 0 THEN 0 ELSE @,
                          !.late = @ \/ (w.fin /\ w.doc > 0)]
       IN IF s.doc = 0 THEN Done(s) ELSE s

\* websSetBackgroundWriter(wp, fileWriteEvent).
SetBackgroundWriter(w) ==
  LET s == [w EXCEPT !.writer = TRUE]
      f == IF Flushed(s) THEN FileWrite(Flush(s)) ELSE Flush(s)
  IN [f EXCEPT !.mask = IF f.state # COMPLETE THEN @ \cup {"W"} ELSE @]

\* fileHandler on a document of n units.
ServeFile(w, n) ==
  LET h == WriteHeaders(Running(w))
  IN IF n = 0 THEN Done(h)
     ELSE SetBackgroundWriter([h EXCEPT !.doc = n])

\* actionHandler calling a function that writes n blocks and websDone.
ServeAction(w, n) ==
  LET h == WriteHeaders(Running(w))
      b == CASE n = 0 -> h
             [] n = 1 -> WriteBlock(h)
             [] OTHER -> WriteBlock(WriteBlock(h))
  IN Done(b)

(***************************************************************************)
(* Events.                                                                 *)
(***************************************************************************)

\* writeEvent up to its call of websPump.
WriteEvent(w) ==
  LET f == IF w.out > 0 THEN Flush(w) ELSE w
  IN IF f.out = 0 /\ f.writer THEN FileWrite(f) ELSE f

\* websRead found nothing and the stream has ended: socketRead returns -1.
ReadsEof(w) == w.sockEof \/ (w.net = << >> /\ (w.shut \/ w.rst))

\* readEvent up to its call of websPump.
ReadSocket(w) ==
  IF ReadsEof(w)
  THEN [w EXCEPT !.age = 0, !.sockEof = TRUE]
  ELSE [w EXCEPT !.age = 0, !.rx = @ \o w.net, !.net = << >>]

\* websAccept: a new object, its socket and its timeout.
Accepting(w) ==
  [NoWebs EXCEPT !.live = TRUE, !.open = TRUE, !.timeout = TRUE,
                 !.timer = PARSE_TIMEOUT]

\* websAccept returns -1 after websAlloc: socketAccept frees the socket and
\* nobody frees the object.
AcceptFailed(w) == [NoWebs EXCEPT !.live = TRUE, !.orphan = TRUE]

\* The events the socket reports to a connection interested in them.
SocketReady(w) ==
  {e \in w.mask : \/ e = "R" /\ (w.net # << >> \/ w.shut \/ w.rst)
                  \/ e = "W" /\ (w.room > 0 \/ w.rst)}

(***************************************************************************)
(* The client's side of the stream.                                        *)
(***************************************************************************)

\* A client sends well-formed requests: a body follows its header, and a
\* header may arrive in two parts.
CanSend(w, p) ==
  /\ w.open /\ ~w.shut /\ ~w.rst
  /\ CASE p = "data"             -> w.owe > 0
       [] p \in {"frag", "huge"} -> w.owe = 0
       [] OTHER                  -> w.owe \in {0, -1}

Sent(w, p) ==
  [w EXCEPT !.net = Append(@, p),
            !.owe = CASE p = "data" -> @ - 1
                      [] p = "frag" -> -1
                      [] p = "huge" -> -2
                      [] p = "post" -> PostLen
                      [] OTHER      -> 0]
=============================================================================
