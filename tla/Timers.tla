------------------------------- MODULE Timers -------------------------------
(***************************************************************************)
(* The timer events of the server (websStartEvent .. websRunEvents,        *)
(* runtime.c) and their owners: the connections in webs[], whose           *)
(* checkTimeout is called with a pointer to the connection, and the        *)
(* pruning of sessions.  A turn of websServiceEvents: wait in select,      *)
(* handle sockets and CGI programs ("work"), run the events ("scan").      *)
(***************************************************************************)
EXTENDS Handles, FiniteSets

CONSTANTS
  Objects,              \* addresses a Webs object may have
  Pruner,               \* the owner of the event of pruneCache
  PARSE_TIMEOUT,        \* delays, in seconds
  WEBS_TIMEOUT,
  WEBS_SESSION_PRUNE,
  MAXINT,               \* the delay of websRunEvents when there is no event
  TimeMax               \* bound: the clock stops there

Owners == Objects \cup {Pruner}

\* An event: its argument and when it is due.
Event == [arg : Owners, at : Nat]

ASSUME TimersAssumption ==
  /\ {PARSE_TIMEOUT, WEBS_TIMEOUT, WEBS_SESSION_PRUNE} \subseteq Nat \ {0}
  /\ MAXINT \in Nat /\ TimeMax \in Nat
  /\ Pruner \notin Objects
  /\ Null \notin Objects /\ Null \notin Event

VARIABLES
  webs,        \* webs[] and websMax: connections by wid
  callbacks,   \* callbacks[] and callbackMax: events by id
  obj,         \* the fields of the Webs objects
  pruneId,     \* the event of pruneCache
  time,        \* time(0)
  loop         \* where the thread is, and the variables of websRunEvents

vars == <<webs, callbacks, obj, pruneId, time, loop>>

NoId == -1
Id == Nat \cup {NoId}

ObjType == [live : BOOLEAN, closed : BOOLEAN, wid : Id, timeout : Id]
LoopType == [at : {"work", "scan", "select"}, i : Nat, now : Nat, next : Int]

FreeObj == [live |-> FALSE, closed |-> FALSE, wid |-> NoId, timeout |-> NoId]

TypeOK ==
  /\ IsList(webs, Objects) /\ IsList(callbacks, Event)
  /\ obj \in [Objects -> ObjType]
  /\ pruneId \in Id /\ time \in Nat
  /\ loop \in LoopType

\* websOpen starts the event of pruneCache.
Init ==
  /\ webs = NoList
  /\ callbacks = AllocObject(NoList, [arg |-> Pruner, at |-> WEBS_SESSION_PRUNE])
  /\ pruneId = NextHandle(NoList)
  /\ obj = [o \in Objects |-> FreeObj]
  /\ time = 0
  /\ loop = [at |-> "work", i |-> 0, now |-> 0, next |-> 0]

At(place) == loop.at = place

(***************************************************************************)
(* The list of events.                                                     *)
(***************************************************************************)

NewEvent(o, delay) == [arg |-> o, at |-> time + delay]

Armed(t, id) == id # NoId /\ id < t.max /\ t.slot[id] # Null

\* Mutated StopEvent: trusts its argument.
StopEventBlindly(t, id) == FreeHandle(t, id)

StopEvent(t, id) == IF Armed(t, id) THEN FreeHandle(t, id) ELSE t

RestartEvent(t, id, delay) ==
  IF Armed(t, id)
  THEN [t EXCEPT !.slot = [t.slot EXCEPT ![id] = NewEvent(t.slot[id].arg, delay)]]
  ELSE t

(***************************************************************************)
(* Connections come and go while the thread works on sockets.              *)
(***************************************************************************)

\* websAccept gets a Webs object and arms its timeout; or gives up before,
\* and the object stays; or finds no memory for the event.
Accept(o) ==
  /\ At("work") /\ ~obj[o].live
  /\ webs' = AllocObject(webs, o)
  /\ \E id \in {NoId, NextHandle(callbacks)} :
       /\ obj' = [obj EXCEPT ![o] = [live |-> TRUE, closed |-> FALSE,
                                     wid |-> NextHandle(webs), timeout |-> id]]
       /\ IF id = NoId
          THEN callbacks' \in {callbacks, AllocFails(callbacks)}
          ELSE callbacks' = AllocObject(callbacks, NewEvent(o, PARSE_TIMEOUT))
  /\ UNCHANGED <<pruneId, time, loop>>

\* websAlloc finds no memory for the object.
AcceptNoMemory ==
  /\ At("work")
  /\ webs' = AllocFails(webs)
  /\ UNCHANGED <<callbacks, obj, pruneId, time, loop>>

\* Mutated Cancelled: the connection keeps the id of its stopped event.
CancelledKeepsId(o) == [obj[o] EXCEPT !.closed = TRUE]

\* complete(wp, 0) on the fields of o; StopEvent is its other half.
Cancelled(o) == [obj[o] EXCEPT !.closed = TRUE, !.timeout = NoId]

\* complete(wp, 0) without websFree: a connection ended by websCgiPoll.
Close(o) ==
  /\ At("work") /\ obj[o].live /\ ~obj[o].closed
  /\ callbacks' = StopEvent(callbacks, obj[o].timeout)
  /\ obj' = [obj EXCEPT ![o] = Cancelled(o)]
  /\ UNCHANGED <<webs, pruneId, time, loop>>

\* complete(wp, 0) and websFree.
CloseAndFree(o) ==
  /\ callbacks' = StopEvent(callbacks, obj[o].timeout)
  /\ webs' = FreeHandle(webs, obj[o].wid)
  /\ obj' = [obj EXCEPT ![o] = FreeObj]

\* A connection ended inside socketEvent.
EndEvent(o) ==
  /\ At("work") /\ obj[o].live /\ ~obj[o].closed
  /\ CloseAndFree(o)
  /\ UNCHANGED <<pruneId, time, loop>>

(***************************************************************************)
(* websRunEvents.                                                          *)
(***************************************************************************)

ScanBegin ==
  /\ At("work")
  /\ loop' = [at |-> "scan", i |-> 0, now |-> time, next |-> MAXINT]
  /\ UNCHANGED <<webs, callbacks, obj, pruneId, time>>

Scanning == At("scan") /\ loop.i < callbacks.max
Here == callbacks.slot[loop.i]
Due == Here # Null /\ Here.at - loop.now <= 0

\* An entry that is empty or not due.
ScanPass ==
  /\ Scanning /\ ~Due
  /\ LET delay == IF Here # Null THEN Here.at - loop.now ELSE loop.next
     IN loop' = [loop EXCEPT !.i = @ + 1,
                             !.next = IF delay < @ THEN delay ELSE @]
  /\ UNCHANGED <<webs, callbacks, obj, pruneId, time>>

\* Mutated Rescan: the scan goes on behind the event.
RescanGoesOn == loop' = [loop EXCEPT !.i = @ + 1]

\* After a call the scan starts again.
Rescan == loop' = [loop EXCEPT !.i = 0]

\* callEvent of pruneCache.
CallPrune ==
  /\ Scanning /\ Due /\ Here.arg = Pruner
  /\ callbacks' = RestartEvent(callbacks, pruneId, WEBS_SESSION_PRUNE)
  /\ Rescan
  /\ UNCHANGED <<webs, obj, pruneId, time>>

\* Mutated TimedOut: the last second of the timeout counts as active.
TimedOutLate(elapsed) == elapsed > WEBS_TIMEOUT

\* checkTimeout: nothing heard from the client for too long.
TimedOut(elapsed) == elapsed >= WEBS_TIMEOUT

\* callEvent of checkTimeout: a connection in state WEBS_BEGIN, or timed
\* out, is closed and freed; another is given the rest of its time.
CallCheckTimeout ==
  /\ Scanning /\ Due /\ Here.arg # Pruner
  /\ \E elapsed \in 0 .. WEBS_TIMEOUT, begin \in BOOLEAN :
       IF begin \/ TimedOut(elapsed)
       THEN CloseAndFree(Here.arg)
       ELSE /\ callbacks' = RestartEvent(callbacks, loop.i, WEBS_TIMEOUT - elapsed)
            /\ UNCHANGED <<webs, obj>>
  /\ Rescan
  /\ UNCHANGED <<pruneId, time>>

\* The delay until the next event is select's timeout.
ScanEnd ==
  /\ At("scan") /\ loop.i >= callbacks.max
  /\ loop' = [loop EXCEPT !.at = "select"]
  /\ UNCHANGED <<webs, callbacks, obj, pruneId, time>>

Select ==
  /\ At("select")
  /\ loop' = [loop EXCEPT !.at = "work"]
  /\ UNCHANGED <<webs, callbacks, obj, pruneId, time>>

\* The clock does not wait for the thread.
Tick ==
  /\ time < TimeMax
  /\ time' = time + 1
  /\ UNCHANGED <<webs, callbacks, obj, pruneId, loop>>

(***************************************************************************)
(* The specification.  The thread does not stop inside websRunEvents.      *)
(***************************************************************************)

Scan == ScanPass \/ CallPrune \/ CallCheckTimeout \/ ScanEnd

Next ==
  \/ AcceptNoMemory \/ ScanBegin \/ Scan \/ Select \/ Tick
  \/ \E o \in Objects : Accept(o) \/ Close(o) \/ EndEvent(o)

Spec == Init /\ [][Next]_vars

FairSpec == Spec /\ WF_vars(Scan)

(***************************************************************************)
(* Properties.                                                             *)
(***************************************************************************)

\* The lists are what their users take them for: the count of used entries
\* is right, so that a list is freed with its last entry and not before, and
\* the loops that stop at websMax or callbackMax see every entry and read
\* nothing behind the list (wallocHandle, wfreeHandle, wallocObject).
ListsSound == Counted(webs) /\ Counted(callbacks)

TimerOf(o) == IF o = Pruner THEN pruneId ELSE obj[o].timeout

\* Handles and pointers agree: an event's argument is a live object that
\* knows this event and no other, an object's wid names that object, and no
\* id is kept that a later event may take over.
HandlesMatch ==
  /\ \A id \in InUse(callbacks) : TimerOf(callbacks.slot[id].arg) = id
  /\ \A o \in Owners : TimerOf(o) # NoId =>
       /\ TimerOf(o) \in InUse(callbacks)
       /\ callbacks.slot[TimerOf(o)].arg = o
  /\ \A h \in InUse(webs) : obj[webs.slot[h]].wid = h
  /\ \A o \in Objects :
       IF obj[o].live THEN obj[o].wid \in InUse(webs) /\ webs.slot[obj[o].wid] = o
                      ELSE obj[o] = FreeObj

\* select sleeps no longer than until the next event, as the clock was when
\* websRunEvents read it, whatever the events did to the list meanwhile.
SleepsNoLonger ==
  At("select") =>
    \A id \in InUse(callbacks) : loop.next <= callbacks.slot[id].at - loop.now

\* websRunEvents returns: no event is due again at once.
ScanReturns == At("scan") ~> At("select")

\* The list of events behaves as one alarm for each owner.
DueOf == [o \in Owners |-> IF TimerOf(o) = NoId
                           THEN NoId ELSE callbacks.slot[TimerOf(o)].at]

Alarm == INSTANCE Alarms WITH
  due <- DueOf,
  NoAlarm <- NoId,
  MaxDelay <- PARSE_TIMEOUT + WEBS_TIMEOUT + WEBS_SESSION_PRUNE

Alarms == Alarm!AlarmSpec
=============================================================================
