----------------------------- MODULE WebsServer -----------------------------
(***************************************************************************)
(* The event loop of the server (websServiceEvents, http.c) over its       *)
(* connections.  One thread waits in select and then runs one handler to   *)
(* its end: socketEvent for a socket, checkTimeout for a timer,            *)
(* websCgiPoll for a CGI program.  The thread's position inside a handler  *)
(* is pc; clients and the clock move between any two of its steps.         *)
(***************************************************************************)
EXTENDS WebsCore

CONSTANTS
  Conns,      \* slots of webs[] and socketList[]
  Handlers,   \* what websRouteRequest may find for a request
  BlockMax,   \* blocks an action or a CGI program writes at once
  Sends,      \* the pieces the clients use
  Faults,     \* what may go wrong besides a client that stops reading
  Budget      \* bound: connections and pieces the clients ever send

ASSUME ServerAssumption ==
  /\ Handlers \subseteq {"error", "action", "file", "cgi"}
  /\ Sends \subseteq Pieces
  /\ Faults \subseteq {"shut", "reset", "accept", "put", "upload"}
  /\ BlockMax \in 0 .. 2
  /\ Budget \in Nat

VARIABLES
  conn,    \* the connections
  pc,      \* where the thread is
  job,     \* cgiList[]: the CGI program started for a connection
  budget   \* what the clients may still send

vars == <<conn, pc, job, budget>>

(***************************************************************************)
(* Positions of the thread: in select; in readEvent before websRead, in    *)
(* its first websPump, after it, in the websPump that follows a lost       *)
(* connection, after that one; in writeEvent, in its websPump; at the end  *)
(* of socketEvent; in the websPump of websCgiPoll.                         *)
(***************************************************************************)
PumpSites == {"pumpRead", "pumpLost", "pumpWrite", "pumpCgi"}
Sites == PumpSites \cup {"select", "read", "tail", "lost", "write", "end"}

PcType == [at : Sites, c : Conns, events : SUBSET Interest,
           got : {"nothing", "data", "eof"}]

\* Where a websPump returns to.
ReturnOf == [pumpRead |-> "tail", pumpLost |-> "lost",
             pumpWrite |-> "end", pumpCgi |-> "select"]

At(site) == pc.at = site
Goto(site) == pc' = [pc EXCEPT !.at = site]
Set(w) == conn' = [conn EXCEPT ![pc.c] = w]
Here == conn[pc.c]

TypeOK ==
  /\ conn \in [Conns -> WebsType]
  /\ pc \in PcType
  /\ job \in [Conns -> {"none", "started", "output"}]
  /\ budget \in 0 .. Budget

Init ==
  /\ conn = [c \in Conns |-> NoWebs]
  /\ pc \in {[at |-> "select", c |-> c, events |-> {}, got |-> "nothing"] :
               c \in Conns}
  /\ job = [c \in Conns |-> "none"]
  /\ budget = Budget

(***************************************************************************)
(* select returns: a connection to accept, or events of a socket.          *)
(***************************************************************************)

\* socketAccept and websAccept, which calls socketEvent at once.  The object
\* is not one that a CGI program of an earlier connection still points to.
Accept(c) ==
  /\ At("select") /\ budget > 0
  /\ ~conn[c].live /\ job[c] = "none"
  /\ conn' = [conn EXCEPT ![c] = Accepting(@)]
  /\ pc' = [at |-> "read", c |-> c, events |-> {"R"}, got |-> "nothing"]
  /\ budget' = budget - 1
  /\ UNCHANGED job

\* websAccept fails between websAlloc and websStartEvent.
AcceptFails(c) ==
  /\ At("select") /\ budget > 0 /\ "accept" \in Faults
  /\ ~conn[c].live /\ job[c] = "none"
  /\ conn' = [conn EXCEPT ![c] = AcceptFailed(@)]
  /\ budget' = budget - 1
  /\ UNCHANGED <<pc, job>>

\* The events socketSelect records in sp->currentEvents.  A socket marked
\* by socketReservice gets all it is interested in, but only when select
\* has an event of some socket to report.
Events(c) == SocketReady(conn[c]) \cup (IF conn[c].resv THEN conn[c].mask ELSE {})

SelectReturns == budget > 0 \/ \E d \in Conns : SocketReady(conn[d]) # {}

SocketEvent(c) ==
  /\ At("select") /\ SelectReturns /\ Events(c) # {}
  /\ pc' = [at |-> IF "R" \in Events(c) THEN "read" ELSE "write",
            c |-> c, events |-> Events(c), got |-> "nothing"]
  /\ conn' = [conn EXCEPT ![c].resv = FALSE]
  /\ UNCHANGED <<job, budget>>

(***************************************************************************)
(* readEvent and writeEvent, apart from the websPump they call.            *)
(***************************************************************************)

\* websRead, into an rxbuf that has room or finds it (http.c:789).
Read ==
  /\ At("read")
  /\ LET got == IF ReadsEof(Here) THEN "eof"
                ELSE IF Here.net # << >> THEN "data" ELSE "nothing"
         pump == got = "data" \/ Here.state > BEGIN
     IN pc' = [pc EXCEPT !.got = got, !.at = IF pump THEN "pumpRead" ELSE "tail"]
  /\ Set(ReadSocket(Here))
  /\ UNCHANGED <<job, budget>>

\* What readEvent does after its websPump.
ReadTail ==
  /\ At("tail")
  /\ \/ /\ Here.closed \/ (pc.got = "eof" /\ Here.state >= READY)
        /\ Goto("write") /\ UNCHANGED conn
     \/ /\ ~Here.closed /\ pc.got = "eof" /\ Here.state = BEGIN
        /\ Set(CloseConn(Here)) /\ Goto("write")
     \/ /\ ~Here.closed /\ pc.got = "eof" /\ Here.state = CONTENT
        /\ Set(Error(Here, FALSE)) /\ Goto("pumpLost")
     \/ /\ ~Here.closed /\ pc.got # "eof" /\ Goto("write")
        /\ Set([Here EXCEPT !.mask = IF Here.state < READY THEN @ \cup {"R"}
                                                           ELSE @])
  /\ UNCHANGED <<job, budget>>

\* complete(wp, 0) after the websPump that follows "connection lost".
Lost ==
  /\ At("lost")
  /\ Set(CloseConn(Here)) /\ Goto("write")
  /\ UNCHANGED <<job, budget>>

\* The writable half of socketEvent.
Write ==
  /\ At("write")
  /\ LET w == IF "W" \in pc.events THEN WriteEvent(Here) ELSE Here
     IN /\ Set(w)
        /\ Goto(IF "W" \in pc.events /\ w.state # RUNNING THEN "pumpWrite"
                                                          ELSE "end")
  /\ UNCHANGED <<job, budget>>

\* The end of socketEvent: websFree of a closed connection.
EndEvent ==
  /\ At("end")
  /\ Set(IF Here.closed THEN Free(Here) ELSE Here)
  /\ Goto("select")
  /\ UNCHANGED <<job, budget>>

(***************************************************************************)
(* websPump: one action per turn of its loop.                              *)
(***************************************************************************)

Pumping(state) == pc.at \in PumpSites /\ Here.state = state
Proceed == UNCHANGED pc
Return == Goto(ReturnOf[pc.at])

PumpBegin ==
  /\ Pumping(BEGIN)
  /\ IF ParseWaits(Here) THEN Return /\ UNCHANGED conn
                         ELSE Proceed /\ Set(ParseIncoming(Here))
  /\ UNCHANGED <<job, budget>>

\* processContent.  websProcessPutData (or websProcessCgiData) may fail,
\* and the pump stops; the upload filter may refuse what it reads, and
\* processContent goes on to its test of wp->eof.
PumpContent ==
  /\ Pumping(CONTENT)
  /\ LET w == TakeBody(Here)
         end(v) == IF v.rem = 0 THEN Set(BodyDone(v)) /\ Proceed
                                ELSE Set(v) /\ Return
     IN \/ Here.rx = << >> /\ Return /\ UNCHANGED conn
        \/ Here.rx # << >> /\ end(w)
        \/ Here.rx # << >> /\ "put" \in Faults /\ Set(Error(w, TRUE)) /\ Return
        \/ Here.rx # << >> /\ "upload" \in Faults /\ end(Error(w, FALSE))
  /\ UNCHANGED <<job, budget>>

\* websRouteRequest, by what it finds: no route, or a failed login, which
\* replies without a handler; or one of the handlers.
PumpReady ==
  /\ Pumping(READY)
  /\ \E h \in Handlers, n \in 0 .. DocMax + BlockMax :
       LET w == CASE h = "error"  -> Error(Here, FALSE)
                  [] h = "action" -> ServeAction(Here, n)
                  [] h = "file"   -> ServeFile(Here, n)
                  [] h = "cgi"    -> Running(Here)
       IN /\ h = "file" => n <= DocMax
          /\ h = "action" => n <= BlockMax
          /\ h \in {"error", "cgi"} => n = 0
          /\ Set(w)
          /\ IF w.state = RUNNING THEN Return ELSE Proceed
          /\ job' = [job EXCEPT ![pc.c] = IF h = "cgi" THEN "started" ELSE @]
  /\ UNCHANGED budget

PumpRunning ==
  /\ Pumping(RUNNING)
  /\ Return /\ UNCHANGED <<conn, job, budget>>

\* Mutated PumpComplete: one request per websPump.
PumpCompleteStops ==
  /\ Pumping(COMPLETE)
  /\ Set(Complete(Here)) /\ Return
  /\ UNCHANGED <<job, budget>>

PumpComplete ==
  /\ Pumping(COMPLETE)
  /\ LET w == Complete(Here)
     IN Set(w) /\ IF w.rx # << >> THEN Proceed ELSE Return
  /\ UNCHANGED <<job, budget>>

(***************************************************************************)
(* websRunEvents and websCgiPoll.                                          *)
(***************************************************************************)

\* Mutated CheckTimeout: the connection is closed and not freed.
CheckTimeoutKeeps(c) ==
  /\ At("select") /\ conn[c].timer = 0
  /\ conn' = [conn EXCEPT ![c] = CloseConn(@)]
  /\ UNCHANGED <<pc, job, budget>>

\* checkTimeout for the timer of c.
CheckTimeout(c) ==
  /\ At("select") /\ conn[c].timer = 0
  /\ LET w == conn[c]
         e == IF w.state # BEGIN /\ ~w.hdr THEN Error(w, FALSE) ELSE w
     IN conn' = [conn EXCEPT ![c] =
          IF w.state = BEGIN \/ w.age >= WEBS_TIMEOUT
          THEN Free(CloseConn(e))
          ELSE [w EXCEPT !.timer = WEBS_TIMEOUT - w.age]]
  /\ UNCHANGED <<pc, job, budget>>

\* websCgiGatherOutput of n blocks.
Gather(w, n) ==
  LET h == WriteHeaders(w)
  IN CASE n = 0 -> w
       [] n = 1 -> WriteBlock(h)
       [] n = 2 -> WriteBlock(WriteBlock(h))

\* websCgiPoll for the program of c: gather what it wrote; if it has ended,
\* finish the response and pump.  When the connection was freed meanwhile,
\* cgip->wp points to freed memory: here the job ends and touches nothing.
CgiPoll(c) ==
  /\ At("select") /\ job[c] # "none"
  /\ \E n \in 0 .. BlockMax, exited \in BOOLEAN :
       LET g == Gather(conn[c], n)
           wrote == n > 0 \/ job[c] = "output"
       IN IF conn[c].live
          THEN /\ conn' = [conn EXCEPT ![c] =
                    CASE ~exited         -> g
                      [] exited /\ wrote -> Done(g)
                      [] OTHER           -> Error(g, FALSE)]
               /\ job' = [job EXCEPT ![c] =
                    CASE exited           -> "none"
                      [] ~exited /\ wrote -> "output"
                      [] OTHER            -> "started"]
               /\ pc' = IF exited
                        THEN [pc EXCEPT !.at = "pumpCgi", !.c = c]
                        ELSE pc
          ELSE /\ job' = [job EXCEPT ![c] = "none"]
               /\ UNCHANGED <<conn, pc>>
  /\ UNCHANGED budget

(***************************************************************************)
(* Clients and the clock.                                                  *)
(***************************************************************************)

ClientSend(c, p) ==
  /\ budget > 0 /\ CanSend(conn[c], p)
  /\ conn' = [conn EXCEPT ![c] = Sent(@, p)]
  /\ budget' = budget - 1
  /\ UNCHANGED <<pc, job>>

\* The client reads a unit of response.
ClientRead(c) ==
  /\ conn[c].open /\ conn[c].room < RoomMax
  /\ conn' = [conn EXCEPT ![c].room = @ + 1]
  /\ UNCHANGED <<pc, job, budget>>

\* The client has no more to send (and may still read).
ClientShut(c) ==
  /\ "shut" \in Faults
  /\ conn[c].open /\ ~conn[c].shut /\ ~conn[c].rst
  /\ conn' = [conn EXCEPT ![c].shut = TRUE]
  /\ UNCHANGED <<pc, job, budget>>

\* The client is gone; what it had sent and the server had not read with it.
ClientReset(c) ==
  /\ "reset" \in Faults
  /\ conn[c].open /\ ~conn[c].rst
  /\ conn' = [conn EXCEPT ![c].rst = TRUE, ![c].net = << >>]
  /\ UNCHANGED <<pc, job, budget>>

\* A tick of the clock.  An armed timer that is due stays due.
Tick ==
  /\ conn' = [c \in Conns |->
       [conn[c] EXCEPT
          !.timer = IF @ > 0 THEN @ - 1 ELSE @,
          !.age = IF conn[c].live THEN Least(@ + 1, WEBS_TIMEOUT) ELSE @]]
  /\ UNCHANGED <<pc, job, budget>>

(***************************************************************************)
(* The specification.                                                      *)
(***************************************************************************)

Pump == PumpBegin \/ PumpContent \/ PumpReady \/ PumpRunning \/ PumpComplete

\* The thread inside a handler.
Handle == Read \/ ReadTail \/ Lost \/ Write \/ EndEvent \/ Pump

Client(c) ==
  \/ ClientRead(c) \/ ClientShut(c) \/ ClientReset(c)
  \/ \E p \in Sends : ClientSend(c, p)

Server(c) ==
  Accept(c) \/ AcceptFails(c) \/ SocketEvent(c) \/ CheckTimeout(c) \/ CgiPoll(c)

Next == Handle \/ Tick \/ \E c \in Conns : Server(c) \/ Client(c)

Spec == Init /\ [][Next]_vars

(***************************************************************************)
(* Fairness: the thread does not stop inside a handler, time passes, and   *)
(* every turn of the loop looks at every socket, timer and CGI program,    *)
(* while the handlers of others keep it from being in select all the time. *)
(* Nothing is assumed of the clients.                                      *)
(***************************************************************************)
Fairness ==
  /\ WF_vars(Handle)
  /\ WF_vars(Tick)
  /\ \A c \in Conns :
       /\ SF_vars(SocketReady(conn[c]) # {} /\ SocketEvent(c))
       /\ SF_vars(CheckTimeout(c))
       /\ SF_vars(CgiPoll(c))

FairSpec == Spec /\ Fairness

(***************************************************************************)
(* Safety.                                                                 *)
(***************************************************************************)

Timed(w) ==
  /\ w.timer # NoTimer <=> w.timeout
  /\ w.timeout <=> w.open
  /\ w.open <=> w.live /\ ~w.closed /\ ~w.orphan

\* The timer that will call checkTimeout with a connection, the pointer the
\* connection keeps to it, and the socket live and die together: no timer is
\* left to fire for a freed Webs, and no open connection is without one.
\* (websCancelTimeout, reuseConn, checkTimeout and complete keep this up.)
TimerMatches == \A c \in Conns : Timed(conn[c])

\* When the thread is back in select, no connection is both closed and still
\* allocated: closed, it has no socket and no timer, and nothing would ever
\* free it (socketEvent, http.c:744, and checkTimeout do).
ClosedIsFreed ==
  At("select") => \A c \in Conns : conn[c].live => ~conn[c].closed

\* The server and the client agree where a request ends: the parser of
\* headers never meets bytes of a body, the reader of a body never meets a
\* header (rxRemaining, WEBS_KEEP_ALIVE and the order of requests).
HeaderBoundary ==
  \A c \in Conns : LET w == conn[c] IN w.rx # << >> =>
    /\ w.state = BEGIN => Head(w.rx) # "data"
    /\ w.state = CONTENT => Head(w.rx) = "data"

\* Nothing is queued behind a response that websDone has ended: the client
\* would take it for the start of the next response.
NoLateBytes == \A c \in Conns : ~conn[c].late

BodyFaults == Faults \cap {"put", "upload"} # {}

\* In select, every open connection waits for what can move it on: a whole
\* request or a piece of body is never left in rxbuf, a connection that needs
\* input listens for it, and one that owes output listens for room and has
\* something to do when it comes.  A body that its consumer refuses is the
\* exception: its connection stays, finished, until the client or the timer
\* moves it on (processContent, http.c:1155 and 1160).
NothingParked ==
  At("select") => \A c \in Conns : LET w == conn[c] IN w.open =>
    /\ w.state = BEGIN => "R" \in w.mask /\ ParseWaits(w)
    /\ w.state = CONTENT => "R" \in w.mask /\ w.rx = << >>
    /\ w.state # READY
    /\ job[c] = "none" =>
         /\ w.state = COMPLETE => BodyFaults
         /\ w.state = RUNNING /\ ~(w.fin /\ BodyFaults) =>
              "W" \in w.mask /\ IF w.fin THEN w.out > 0 ELSE w.writer

\* A connection is kept for the next request only when the response is
\* complete: ended by its handler, begun with headers, no unit of it lost to
\* a failed write or still to send, and no body of the request still to come.
ReuseDelivers ==
  [][\A c \in Conns :
       conn[c].state = COMPLETE /\ conn'[c].state = BEGIN /\ conn'[c].open
       => /\ conn[c].fin /\ conn[c].hdr /\ ~conn[c].cut
          /\ conn[c].out = 0 /\ conn[c].doc = 0 /\ conn[c].rem = 0]_vars

(***************************************************************************)
(* Liveness, under FairSpec.                                               *)
(***************************************************************************)

\* The thread comes back to select whatever the clients do: "we never block
\* as the socket is always in non-blocking mode" (http.c:771).
NeverBlocks == []<>At("select")

\* Once the clients have nothing more to send, every connection is answered
\* or times out, and is freed; a client that stops reading keeps none.
QuietClosed == <>[](\A c \in Conns : ~conn[c].live)

(***************************************************************************)
(* What the comments and assertions of the code say, and it does not do.   *)
(***************************************************************************)

\* websCgiPoll calls websError and websDone for cgip->wp, and both assert
\* websValid(wp) (http.c:549): a CGI program outlives no connection.
JobHasConnection == \A c \in Conns : job[c] # "none" => conn[c].live
=============================================================================
