---------------------------- MODULE Timers_proofs ----------------------------
(***************************************************************************)
(* Proofs about Timers: handle lists stay sound, an id names its owner     *)
(* from start to stop, select does not oversleep, and the list of events   *)
(* implements Alarms.                                                      *)
(***************************************************************************)
EXTENDS Timers, Handles_proofs

(***************************************************************************)
(* The invariant.                                                          *)
(***************************************************************************)

\* While the list is scanned, next is right for the entries passed, and the
\* scan's clock is not ahead.
Passed ==
  At("scan") =>
    /\ loop.now <= time
    /\ \A id \in InUse(callbacks) :
         id < loop.i => loop.next <= callbacks.slot[id].at - loop.now

TimersInv ==
  /\ TypeOK /\ Sound(webs) /\ Sound(callbacks)
  /\ HandlesMatch /\ Passed /\ SleepsNoLonger

\* The entries in use are events, and objects.
LEMMA EntryTypes ==
  ASSUME NEW S, NEW t, IsList(t, S)
  PROVE  \A h \in InUse(t) : h \in Nat /\ h < t.len /\ t.slot[h] \in S /\ t.slot[h] # Null
BY DEF IsList, InUse

\* websStopEvent of the event a connection knows.
LEMMA StopRemoves ==
  ASSUME TimersInv, NEW o \in Objects
  PROVE  LET r == StopEvent(callbacks, obj[o].timeout) IN
         /\ IsList(r, Event) /\ Sound(r)
         /\ InUse(r) = InUse(callbacks) \ {obj[o].timeout}
         /\ \A h \in InUse(r) : r.slot[h] = callbacks.slot[h]
<1> DEFINE id == obj[o].timeout
<1>1. /\ IsList(callbacks, Event) /\ Sound(callbacks)
      /\ id # NoId => id \in InUse(callbacks)
      /\ NoId \notin InUse(callbacks)
  <2>1. o # Pruner /\ o \in Owners
    BY TimersAssumption DEF Owners
  <2>2. QED BY <2>1, EntryTypes DEF TimersInv, TypeOK, HandlesMatch, TimerOf, NoId
<1>2. CASE id = NoId
  <2>1. StopEvent(callbacks, id) = callbacks
    BY <1>2 DEF StopEvent, Armed
  <2>2. QED BY <1>1, <1>2, <2>1
<1>3. CASE id # NoId
  <2>1. id < callbacks.max /\ callbacks.slot[id] # Null
    BY <1>1, <1>3 DEF Sound, Counted, InUse
  <2>2. StopEvent(callbacks, id) = FreeHandle(callbacks, id)
    BY <1>3, <2>1 DEF StopEvent, Armed
  <2>3. QED BY <1>1, <1>3, <2>2, FreeRemoves
<1>4. QED BY <1>2, <1>3

\* websRestartEvent changes the time of one event.
LEMMA RestartKeeps ==
  ASSUME TypeOK, Sound(callbacks), NEW id \in InUse(callbacks), NEW d \in Nat
  PROVE  LET r == RestartEvent(callbacks, id, d) IN
         /\ IsList(r, Event) /\ Sound(r) /\ InUse(r) = InUse(callbacks)
         /\ r.slot[id] = NewEvent(callbacks.slot[id].arg, d)
         /\ \A h \in InUse(callbacks) \ {id} : r.slot[h] = callbacks.slot[h]
<1> DEFINE e == NewEvent(callbacks.slot[id].arg, d)
           f == [callbacks.slot EXCEPT ![id] = e]
           r == RestartEvent(callbacks, id, d)
<1>1. /\ callbacks.len \in Nat /\ callbacks.used \in Nat /\ callbacks.max \in Nat
      /\ callbacks.slot \in [0 .. callbacks.len - 1 -> Event \cup {Null}]
      /\ callbacks = [len |-> callbacks.len, used |-> callbacks.used,
                      max |-> callbacks.max, slot |-> callbacks.slot]
      /\ id \in 0 .. callbacks.len - 1 /\ id \in Nat
      /\ time \in Nat /\ callbacks.slot[id] \in Event
  BY EntryTypes DEF TypeOK, IsList, InUse
<1>2. e \in Event /\ e # Null
  BY <1>1, TimersAssumption DEF Event, NewEvent
<1>3. Armed(callbacks, id)
  BY <1>1 DEF Armed, Sound, Counted, NoId, InUse
<1>4. r = [callbacks EXCEPT !.slot = f]
  BY <1>3 DEF RestartEvent
<1> HIDE DEF e, r
<1>5. r = [len |-> callbacks.len, used |-> callbacks.used,
           max |-> callbacks.max, slot |-> f]
  BY <1>1, <1>4
<1>6. /\ f \in [0 .. callbacks.len - 1 -> Event \cup {Null}]
      /\ f[id] = e /\ \A h \in 0 .. callbacks.len - 1 : h # id => f[h] = callbacks.slot[h]
  BY <1>1, <1>2
<1> HIDE DEF f
<1>7. InUse(r) = InUse(callbacks)
  <2>1. r.len = callbacks.len /\ r.slot = f
    BY <1>5
  <2>2. \A h \in 0 .. callbacks.len - 1 : f[h] # Null <=> callbacks.slot[h] # Null
    BY <1>2, <1>6 DEF InUse
  <2>3. QED BY <2>1, <2>2 DEF InUse
<1>8. IsList(r, Event)
  BY <1>1, <1>5, <1>6 DEF IsList
<1>9. Sound(r)
  <2>1. callbacks.used # 0
    <3>1. IsFiniteSet(InUse(callbacks)) /\ callbacks.used = Cardinality(InUse(callbacks))
      BY InUseFinite DEF TypeOK, Sound, Counted
    <3>2. QED BY <3>1, FS_EmptySet
  <2>2. r.used = callbacks.used /\ r.max = callbacks.max /\ r.len = callbacks.len
    BY <1>5
  <2>3. QED BY <1>7, <2>1, <2>2 DEF Sound, Counted
<1>10. r.slot[id] = e /\ \A h \in InUse(callbacks) \ {id} : r.slot[h] = callbacks.slot[h]
  BY <1>5, <1>6 DEF InUse
<1>11. QED BY <1>7, <1>8, <1>9, <1>10 DEF r, e
(***************************************************************************)
(* Every step keeps the invariant.                                         *)
(***************************************************************************)

\* What a step that changes the lists has to show.
ListsKept ==
  /\ IsList(webs, Objects) /\ IsList(callbacks, Event)
  /\ Sound(webs) /\ Sound(callbacks)
  /\ obj \in [Objects -> ObjType]
  /\ HandlesMatch

\* What TimersInv says of one owner, and of one entry.
LEMMA Names ==
  ASSUME TimersInv
  PROVE  /\ \A id \in InUse(callbacks) :
              /\ id \in Nat /\ callbacks.slot[id] \in Event
              /\ callbacks.slot[id].arg \in Owners
              /\ TimerOf(callbacks.slot[id].arg) = id
         /\ \A h \in InUse(webs) :
              h \in Nat /\ webs.slot[h] \in Objects /\ obj[webs.slot[h]].wid = h
         /\ \A o \in Objects : o \in Owners /\ o # Pruner /\ TimerOf(o) = obj[o].timeout
<1>1. \A id \in InUse(callbacks) : id \in Nat /\ callbacks.slot[id] \in Event
  BY EntryTypes DEF TimersInv, TypeOK
<1>2. \A h \in InUse(webs) : h \in Nat /\ webs.slot[h] \in Objects
  BY EntryTypes DEF TimersInv, TypeOK
<1>3. \A o \in Objects : o \in Owners /\ o # Pruner /\ TimerOf(o) = obj[o].timeout
  BY TimersAssumption DEF Owners, TimerOf
<1>4. QED BY <1>1, <1>2, <1>3 DEF TimersInv, HandlesMatch, Event

LEMMA AcceptKeeps ==
  ASSUME TimersInv, NEW o \in Objects, Accept(o)
  PROVE  /\ ListsKept'
         /\ DueOf[o] = NoId /\ DueOf'[o] \in {NoId, time + PARSE_TIMEOUT}
         /\ \A p \in Owners \ {o} : DueOf'[p] = DueOf[p]
<1> DEFINE w == NextHandle(webs)
<1>1. PICK id \in {NoId, NextHandle(callbacks)} :
        /\ obj' = [obj EXCEPT ![o] = [live |-> TRUE, closed |-> FALSE,
                                      wid |-> w, timeout |-> id]]
        /\ IF id = NoId
           THEN callbacks' \in {callbacks, AllocFails(callbacks)}
           ELSE callbacks' = AllocObject(callbacks, NewEvent(o, PARSE_TIMEOUT))
  BY DEF Accept
<1>2. /\ ~obj[o].live /\ webs' = AllocObject(webs, o) /\ pruneId' = pruneId
      /\ IsList(webs, Objects) /\ IsList(callbacks, Event)
      /\ Sound(webs) /\ Sound(callbacks)
      /\ obj \in [Objects -> ObjType] /\ time \in Nat /\ HandlesMatch
  BY DEF Accept, TimersInv, TypeOK
<1>3. /\ IsList(webs', Objects) /\ Sound(webs') /\ w \in Nat /\ w \notin InUse(webs)
      /\ InUse(webs') = InUse(webs) \cup {w} /\ webs'.slot[w] = o
      /\ \A h \in InUse(webs) : webs'.slot[h] = webs.slot[h]
  <2>1. Null \notin Objects
    BY TimersAssumption
  <2>2. w \in Nat /\ w \notin InUse(webs)
    BY <1>2, NextHandleVacant
  <2>3. QED BY <1>2, <2>1, <2>2, AllocAdds
<1> DEFINE new == IF id = NoId THEN {} ELSE {id}
<1>4. /\ IsList(callbacks', Event) /\ Sound(callbacks')
      /\ InUse(callbacks') = InUse(callbacks) \cup new /\ id \in Id
      /\ id \notin InUse(callbacks)
      /\ id # NoId => callbacks'.slot[id] = NewEvent(o, PARSE_TIMEOUT)
      /\ \A h \in InUse(callbacks) : callbacks'.slot[h] = callbacks.slot[h]
  <2>1. CASE id = NoId
    <3>1. callbacks' = callbacks \/ callbacks' = AllocFails(callbacks)
      BY <1>1, <2>1
    <3>2. SameEntries(AllocFails(callbacks), callbacks) /\ SameEntries(callbacks, callbacks)
          /\ IsList(AllocFails(callbacks), Event) /\ Sound(AllocFails(callbacks))
      BY <1>2, AllocFailsKeeps DEF SameEntries
    <3>3. id \notin InUse(callbacks)
      BY <1>2, <2>1, EntryTypes DEF NoId
    <3>4. QED BY <1>2, <2>1, <3>1, <3>2, <3>3 DEF SameEntries, Id
  <2>2. CASE id # NoId
    <3>1. NewEvent(o, PARSE_TIMEOUT) \in Event /\ Null \notin Event
          /\ NewEvent(o, PARSE_TIMEOUT).arg = o
      BY <1>2, TimersAssumption DEF NewEvent, Event, Owners
    <3>2. /\ id = NextHandle(callbacks) /\ id \in Nat /\ id \notin InUse(callbacks)
          /\ callbacks' = AllocObject(callbacks, NewEvent(o, PARSE_TIMEOUT))
      BY <1>1, <1>2, <2>2, NextHandleVacant
    <3>3. /\ IsList(callbacks', Event) /\ Sound(callbacks')
          /\ InUse(callbacks') = InUse(callbacks) \cup {id}
          /\ callbacks'.slot[id] = NewEvent(o, PARSE_TIMEOUT)
          /\ \A h \in InUse(callbacks) : callbacks'.slot[h] = callbacks.slot[h]
      BY <1>2, <3>1, <3>2, AllocAdds
    <3>4. QED BY <2>2, <3>1, <3>2, <3>3 DEF Id
  <2>3. QED BY <2>1, <2>2
<1>a. id # NoId => /\ callbacks'.slot[id].arg = o
                   /\ callbacks'.slot[id].at = time + PARSE_TIMEOUT
  BY <1>4 DEF NewEvent
<1> HIDE DEF w, new
<1>5. /\ obj' \in [Objects -> ObjType]
      /\ obj'[o].live /\ obj'[o].wid = w /\ obj'[o].timeout = id
      /\ \A p \in Objects \ {o} : obj'[p] = obj[p]
  BY <1>1, <1>2, <1>3, <1>4 DEF ObjType, Id
<1> DEFINE T(p) == IF p = Pruner THEN pruneId' ELSE obj'[p].timeout
<1>6. /\ T(o) = id /\ TimerOf(o) = NoId
      /\ \A p \in Owners \ {o} : T(p) = TimerOf(p)
  <2>1. obj[o].timeout = NoId
    BY <1>2 DEF HandlesMatch, FreeObj
  <2>2. o # Pruner
    BY Names
  <2>3. QED BY <1>2, <1>5, <2>1, <2>2 DEF TimerOf, Owners
<1> HIDE DEF T
<1>7. HandlesMatch'
  <2>1. \A i \in InUse(callbacks') : T(callbacks'.slot[i].arg) = i
    <3>1. ASSUME NEW i \in InUse(callbacks) PROVE T(callbacks'.slot[i].arg) = i
      <4>1. /\ TimerOf(callbacks.slot[i].arg) = i /\ i # NoId
            /\ callbacks.slot[i].arg \in Owners
        BY Names DEF NoId
      <4>2. callbacks.slot[i].arg # o
        BY <1>6, <4>1
      <4>3. QED BY <1>4, <1>6, <4>1, <4>2
    <3>2. QED BY <1>4, <1>6, <1>a, <3>1 DEF new
  <2>2. \A p \in Owners : T(p) # NoId =>
          T(p) \in InUse(callbacks') /\ callbacks'.slot[T(p)].arg = p
    BY <1>2, <1>4, <1>6, <1>a DEF HandlesMatch, new
  <2>3. \A h \in InUse(webs') : obj'[webs'.slot[h]].wid = h
    <3>1. \A h \in InUse(webs) : webs.slot[h] # o
      BY <1>2, Names DEF HandlesMatch, FreeObj, NoId
    <3>2. QED BY <1>3, <1>5, <3>1, Names
  <2>4. \A p \in Objects :
          IF obj'[p].live THEN obj'[p].wid \in InUse(webs') /\ webs'.slot[obj'[p].wid] = p
                          ELSE obj'[p] = FreeObj
    BY <1>2, <1>3, <1>5 DEF HandlesMatch
  <2>5. QED BY <2>1, <2>2, <2>3, <2>4 DEF HandlesMatch, TimerOf, InUse, T
<1>8. DueOf[o] = NoId /\ DueOf'[o] \in {NoId, time + PARSE_TIMEOUT}
  <2>1. o \in Owners
    BY Names
  <2>2. QED BY <1>6, <1>a, <2>1 DEF DueOf, TimerOf, T
<1>9. \A p \in Owners \ {o} : DueOf'[p] = DueOf[p]
  <2>1. ASSUME NEW p \in Owners \ {o}, TimerOf(p) # NoId
        PROVE  callbacks'.slot[TimerOf(p)] = callbacks.slot[TimerOf(p)]
    BY <1>2, <1>4, <2>1 DEF HandlesMatch
  <2>2. QED BY <1>6, <2>1 DEF DueOf, TimerOf, T
<1>10. QED BY <1>3, <1>4, <1>5, <1>7, <1>8, <1>9 DEF ListsKept
LEMMA CloseKeeps ==
  ASSUME TimersInv, NEW o \in Objects, Close(o)
  PROVE  /\ ListsKept'
         /\ DueOf'[o] = NoId /\ \A p \in Owners \ {o} : DueOf'[p] = DueOf[p]
<1>1. /\ obj[o].live /\ webs' = webs /\ pruneId' = pruneId
      /\ callbacks' = StopEvent(callbacks, obj[o].timeout)
      /\ obj' = [obj EXCEPT ![o] = [obj[o] EXCEPT !.closed = TRUE, !.timeout = NoId]]
      /\ IsList(webs, Objects) /\ Sound(webs)
      /\ obj \in [Objects -> ObjType] /\ HandlesMatch
  BY DEF Close, Cancelled, TimersInv, TypeOK
<1>2. /\ IsList(callbacks', Event) /\ Sound(callbacks')
      /\ InUse(callbacks') = InUse(callbacks) \ {obj[o].timeout}
      /\ \A h \in InUse(callbacks') : callbacks'.slot[h] = callbacks.slot[h]
  BY <1>1, StopRemoves
<1>3. /\ obj' \in [Objects -> ObjType]
      /\ obj'[o].live /\ obj'[o].wid = obj[o].wid /\ obj'[o].timeout = NoId
      /\ \A p \in Objects \ {o} : obj'[p] = obj[p]
  BY <1>1 DEF ObjType, Id
<1> DEFINE T(p) == IF p = Pruner THEN pruneId' ELSE obj'[p].timeout
<1>4. /\ T(o) = NoId /\ TimerOf(o) = obj[o].timeout
      /\ \A p \in Owners \ {o} : T(p) = TimerOf(p)
  BY <1>1, <1>3, Names DEF TimerOf, Owners
<1> HIDE DEF T
<1>5. HandlesMatch'
  <2>1. \A i \in InUse(callbacks') : T(callbacks'.slot[i].arg) = i
    BY <1>2, <1>4, Names
  <2>2. \A p \in Owners : T(p) # NoId =>
          T(p) \in InUse(callbacks') /\ callbacks'.slot[T(p)].arg = p
    <3>1. ASSUME NEW p \in Owners, T(p) # NoId
          PROVE  T(p) \in InUse(callbacks') /\ callbacks'.slot[T(p)].arg = p
      <4>1. p # o /\ T(p) = TimerOf(p) /\ o \in Owners
        BY <1>4, <3>1, Names
      <4>2. T(p) \in InUse(callbacks) /\ callbacks.slot[T(p)].arg = p
        BY <1>1, <3>1, <4>1 DEF HandlesMatch
      <4>3. T(p) # obj[o].timeout
        BY <1>1, <1>4, <3>1, <4>1, <4>2 DEF HandlesMatch
      <4>4. QED BY <1>2, <4>2, <4>3
    <3>2. QED BY <3>1
  <2>3. \A h \in InUse(webs') : obj'[webs'.slot[h]].wid = h
    BY <1>1, <1>3, Names
  <2>4. \A p \in Objects :
          IF obj'[p].live THEN obj'[p].wid \in InUse(webs') /\ webs'.slot[obj'[p].wid] = p
                          ELSE obj'[p] = FreeObj
    BY <1>1, <1>3 DEF HandlesMatch
  <2>5. QED BY <2>1, <2>2, <2>3, <2>4 DEF HandlesMatch, TimerOf, InUse, T
<1>6. DueOf'[o] = NoId /\ \A p \in Owners \ {o} : DueOf'[p] = DueOf[p]
  BY <1>2, <1>4, <1>5, Names DEF DueOf, TimerOf, HandlesMatch, T
<1>7. QED BY <1>1, <1>2, <1>3, <1>5, <1>6 DEF ListsKept

LEMMA CloseAndFreeKeeps ==
  ASSUME TimersInv, NEW o \in Objects, obj[o].live, CloseAndFree(o), pruneId' = pruneId
  PROVE  /\ ListsKept'
         /\ DueOf'[o] = NoId /\ \A p \in Owners \ {o} : DueOf'[p] = DueOf[p]
<1>1. /\ callbacks' = StopEvent(callbacks, obj[o].timeout)
      /\ webs' = FreeHandle(webs, obj[o].wid)
      /\ obj' = [obj EXCEPT ![o] = FreeObj]
      /\ IsList(webs, Objects) /\ Sound(webs)
      /\ obj \in [Objects -> ObjType] /\ HandlesMatch
      /\ obj[o].wid \in InUse(webs) /\ webs.slot[obj[o].wid] = o
  BY DEF CloseAndFree, TimersInv, TypeOK, HandlesMatch
<1>2. /\ IsList(callbacks', Event) /\ Sound(callbacks')
      /\ InUse(callbacks') = InUse(callbacks) \ {obj[o].timeout}
      /\ \A h \in InUse(callbacks') : callbacks'.slot[h] = callbacks.slot[h]
  BY <1>1, StopRemoves
<1>3. /\ IsList(webs', Objects) /\ Sound(webs')
      /\ InUse(webs') = InUse(webs) \ {obj[o].wid}
      /\ \A h \in InUse(webs') : webs'.slot[h] = webs.slot[h]
  BY <1>1, FreeRemoves
<1>4. /\ obj' \in [Objects -> ObjType] /\ obj'[o] = FreeObj
      /\ \A p \in Objects \ {o} : obj'[p] = obj[p]
  <2>1. FreeObj \in ObjType
    BY DEF FreeObj, ObjType, Id
  <2>2. QED BY <1>1, <2>1
<1> DEFINE T(p) == IF p = Pruner THEN pruneId' ELSE obj'[p].timeout
<1>5. /\ T(o) = NoId /\ TimerOf(o) = obj[o].timeout
      /\ \A p \in Owners \ {o} : T(p) = TimerOf(p)
  BY <1>4, Names DEF TimerOf, Owners, FreeObj
<1> HIDE DEF T
<1>6. HandlesMatch'
  <2>1. \A i \in InUse(callbacks') : T(callbacks'.slot[i].arg) = i
    BY <1>2, <1>5, Names
  <2>2. \A p \in Owners : T(p) # NoId =>
          T(p) \in InUse(callbacks') /\ callbacks'.slot[T(p)].arg = p
    <3>1. ASSUME NEW p \in Owners, T(p) # NoId
          PROVE  T(p) \in InUse(callbacks') /\ callbacks'.slot[T(p)].arg = p
      <4>1. p # o /\ T(p) = TimerOf(p) /\ o \in Owners
        BY <1>5, <3>1, Names
      <4>2. T(p) \in InUse(callbacks) /\ callbacks.slot[T(p)].arg = p
        BY <1>1, <3>1, <4>1 DEF HandlesMatch
      <4>3. T(p) # obj[o].timeout
        BY <1>1, <1>5, <3>1, <4>1, <4>2 DEF HandlesMatch
      <4>4. QED BY <1>2, <4>2, <4>3
    <3>2. QED BY <3>1
  <2>3. \A h \in InUse(webs') : obj'[webs'.slot[h]].wid = h
    BY <1>1, <1>3, <1>4, Names
  <2>4. \A p \in Objects :
          IF obj'[p].live THEN obj'[p].wid \in InUse(webs') /\ webs'.slot[obj'[p].wid] = p
                          ELSE obj'[p] = FreeObj
    <3>1. ASSUME NEW p \in Objects \ {o}, obj[p].live
          PROVE  obj[p].wid \in InUse(webs') /\ webs'.slot[obj[p].wid] = p
      <4>1. obj[p].wid \in InUse(webs) /\ webs.slot[obj[p].wid] = p
        BY <1>1, <3>1 DEF HandlesMatch
      <4>2. QED BY <1>1, <1>3, <3>1, <4>1
    <3>2. \A p \in Objects : obj[p].live \/ obj[p] = FreeObj
      BY <1>1 DEF HandlesMatch
    <3>3. ~FreeObj.live
      BY DEF FreeObj
    <3>4. QED BY <1>4, <3>1, <3>2, <3>3
  <2>5. QED BY <2>1, <2>2, <2>3, <2>4 DEF HandlesMatch, TimerOf, InUse, T
<1>7. DueOf'[o] = NoId /\ \A p \in Owners \ {o} : DueOf'[p] = DueOf[p]
  BY <1>2, <1>5, <1>6, Names DEF DueOf, TimerOf, HandlesMatch, T
<1>8. QED BY <1>2, <1>3, <1>4, <1>6, <1>7 DEF ListsKept

\* A call of an event's procedure that sets it again.
LEMMA RestartStep ==
  ASSUME TimersInv, NEW id \in InUse(callbacks), NEW d \in Nat,
         callbacks' = RestartEvent(callbacks, id, d),
         webs' = webs, obj' = obj, pruneId' = pruneId
  PROVE  /\ ListsKept'
         /\ DueOf'[callbacks.slot[id].arg] = time + d
         /\ \A p \in Owners \ {callbacks.slot[id].arg} : DueOf'[p] = DueOf[p]
<1>1. /\ IsList(callbacks', Event) /\ Sound(callbacks')
      /\ InUse(callbacks') = InUse(callbacks)
      /\ callbacks'.slot[id] = NewEvent(callbacks.slot[id].arg, d)
      /\ \A h \in InUse(callbacks) \ {id} : callbacks'.slot[h] = callbacks.slot[h]
  BY RestartKeeps DEF TimersInv
<1>2. \A h \in InUse(callbacks) : callbacks'.slot[h].arg = callbacks.slot[h].arg
  BY <1>1 DEF NewEvent
<1>3. HandlesMatch
  BY DEF TimersInv
<1>4. HandlesMatch'
  <2> DEFINE T(p) == IF p = Pruner THEN pruneId' ELSE obj'[p].timeout
  <2>1. \A p : T(p) = TimerOf(p)
    BY DEF TimerOf
  <2> HIDE DEF T
  <2>2. \A i \in InUse(callbacks') : T(callbacks'.slot[i].arg) = i
    BY <1>1, <1>2, <1>3, <2>1 DEF HandlesMatch
  <2>3. \A p \in Owners : T(p) # NoId =>
          T(p) \in InUse(callbacks') /\ callbacks'.slot[T(p)].arg = p
    BY <1>1, <1>2, <1>3, <2>1 DEF HandlesMatch
  <2>4. QED BY <1>3, <2>2, <2>3 DEF HandlesMatch, TimerOf, InUse, T
<1>5. ListsKept'
  BY <1>1, <1>4 DEF ListsKept, TimersInv, TypeOK, Sound, Counted, IsList, InUse
<1> DEFINE o == callbacks.slot[id].arg
<1>6. \A p : TimerOf(p)' = TimerOf(p)
  BY DEF TimerOf
<1>7. DueOf'[o] = time + d
  <2>1. TimerOf(o) = id /\ o \in Owners /\ id # NoId
    BY Names DEF NoId
  <2>2. callbacks'.slot[id].at = time + d
    BY <1>1 DEF NewEvent
  <2>3. QED BY <2>1, <2>2 DEF DueOf, TimerOf
<1>8. \A p \in Owners \ {o} : DueOf'[p] = DueOf[p]
  <2>1. ASSUME NEW p \in Owners \ {o}, TimerOf(p) # NoId
        PROVE  callbacks'.slot[TimerOf(p)] = callbacks.slot[TimerOf(p)]
    BY <1>1, <1>3, <2>1 DEF HandlesMatch
  <2>2. QED BY <2>1 DEF DueOf, TimerOf
<1>9. QED BY <1>5, <1>7, <1>8
\* Outside of websRunEvents only the lists matter.
LEMMA WorkKeeps ==
  ASSUME TimersInv, At("work"), ListsKept',
         pruneId' = pruneId, time' = time, loop' = loop
  PROVE  TimersInv'
BY DEF TimersInv, TypeOK, ListsKept, At, Passed, SleepsNoLonger

\* In websRunEvents the scan starts again when the list has changed.
LEMMA RescanKeeps ==
  ASSUME TimersInv, At("scan"), ListsKept',
         pruneId' = pruneId, time' = time, Rescan
  PROVE  TimersInv'
<1>1. /\ loop' \in LoopType /\ loop'.at = "scan" /\ loop'.i = 0
  BY DEF TimersInv, TypeOK, LoopType, At, Rescan
<1>2. TypeOK'
  BY <1>1 DEF TimersInv, TypeOK, ListsKept
<1>3. Passed'
  <2>1. \A id \in InUse(callbacks') : ~(id < 0)
    BY EntryTypes DEF ListsKept
  <2>2. loop'.now = loop.now /\ loop.now <= time
    BY DEF TimersInv, TypeOK, LoopType, Passed, Rescan
  <2>3. QED BY <1>1, <2>1, <2>2 DEF Passed
<1>4. SleepsNoLonger'
  BY <1>1 DEF SleepsNoLonger, At
<1>5. QED BY <1>2, <1>3, <1>4 DEF TimersInv, ListsKept

\* The entry the scan looks at, when it is due.
LEMMA DueEntry ==
  ASSUME TimersInv, Scanning, Due
  PROVE  loop.i \in InUse(callbacks) /\ Here.arg \in Owners
<1>1. /\ loop.i \in Nat /\ callbacks.max <= callbacks.len
      /\ callbacks.max \in Nat /\ callbacks.len \in Nat
  BY DEF TimersInv, TypeOK, LoopType, Sound, Counted, IsList
<1>2. loop.i \in 0 .. callbacks.len - 1
  BY <1>1 DEF Scanning
<1>3. loop.i \in InUse(callbacks)
  BY <1>2 DEF Due, Here, InUse
<1>4. QED BY <1>3, Names DEF Here

LEMMA CallPruneKeeps ==
  ASSUME TimersInv, CallPrune
  PROVE  TimersInv'
<1>1. At("scan") /\ Rescan /\ time' = time /\ pruneId' = pruneId
  BY DEF CallPrune, Scanning
<1>2. pruneId = loop.i /\ loop.i \in InUse(callbacks)
  BY DueEntry, Names DEF CallPrune, Here, TimerOf
<1>3. WEBS_SESSION_PRUNE \in Nat
  BY TimersAssumption
<1>4. ListsKept'
  BY <1>2, <1>3, RestartStep DEF CallPrune
<1>5. QED BY <1>1, <1>4, RescanKeeps

LEMMA CallCheckTimeoutKeeps ==
  ASSUME TimersInv, CallCheckTimeout
  PROVE  TimersInv'
<1> DEFINE o == Here.arg
<1>1. At("scan") /\ Rescan /\ time' = time /\ pruneId' = pruneId
  BY DEF CallCheckTimeout, Scanning
<1>2. loop.i \in InUse(callbacks) /\ o \in Objects /\ obj[o].live
  <2>1. loop.i \in InUse(callbacks) /\ o \in Objects
    BY DueEntry DEF CallCheckTimeout, Owners
  <2>2. obj[o].timeout # NoId
    BY <2>1, Names DEF Here, NoId
  <2>3. QED BY <2>1, <2>2 DEF TimersInv, HandlesMatch, FreeObj
<1> HIDE DEF o
<1>3. PICK elapsed \in 0 .. WEBS_TIMEOUT, begin \in BOOLEAN :
        IF begin \/ TimedOut(elapsed)
        THEN CloseAndFree(o)
        ELSE /\ callbacks' = RestartEvent(callbacks, loop.i, WEBS_TIMEOUT - elapsed)
             /\ UNCHANGED <<webs, obj>>
  BY DEF CallCheckTimeout, o
<1>4. CASE begin \/ TimedOut(elapsed)
  <2>1. ListsKept'
    BY <1>1, <1>2, <1>3, <1>4, CloseAndFreeKeeps
  <2>2. QED BY <1>1, <2>1, RescanKeeps
<1>5. CASE ~(begin \/ TimedOut(elapsed))
  <2>1. WEBS_TIMEOUT - elapsed \in Nat
    BY TimersAssumption
  <2>2. ListsKept'
    BY <1>1, <1>2, <1>3, <1>5, <2>1, RestartStep
  <2>3. QED BY <1>1, <2>2, RescanKeeps
<1>6. QED BY <1>4, <1>5

LEMMA ScanPassKeeps ==
  ASSUME TimersInv, ScanPass
  PROVE  TimersInv'
<1> DEFINE delay == IF Here # Null THEN Here.at - loop.now ELSE loop.next
           next == IF delay < loop.next THEN delay ELSE loop.next
<1>1. /\ loop' = [loop EXCEPT !.i = @ + 1, !.next = next]
      /\ At("scan") /\ loop \in LoopType /\ ~Due
      /\ UNCHANGED <<webs, callbacks, obj, pruneId, time>>
  BY DEF ScanPass, Scanning, TimersInv, TypeOK
<1>2. \A id \in InUse(callbacks) : id \in Nat /\ callbacks.slot[id].at \in Nat
  BY Names DEF Event
<1>3. delay \in Int
  <2>1. CASE Here # Null
    <3>1. loop.i \in InUse(callbacks)
      BY <1>1, <2>1 DEF ScanPass, Scanning, TimersInv, TypeOK, LoopType, Sound,
                        Counted, IsList, InUse, Here
    <3>2. QED BY <1>1, <1>2, <3>1 DEF Here, LoopType
  <2>2. CASE Here = Null
    BY <1>1, <2>2 DEF LoopType
  <2>3. QED BY <2>1, <2>2
<1>4. /\ next \in Int /\ next <= loop.next
      /\ Here # Null => next <= Here.at - loop.now
  BY <1>1, <1>3 DEF LoopType
<1> HIDE DEF next, delay
<1>5. /\ loop' \in LoopType /\ loop'.at = "scan" /\ loop'.i = loop.i + 1
      /\ loop'.next = next /\ loop'.now = loop.now
  <2>1. /\ loop = [at |-> loop.at, i |-> loop.i, now |-> loop.now, next |-> loop.next]
        /\ loop.i \in Nat /\ loop.now \in Nat
    BY <1>1 DEF LoopType
  <2>2. loop' = [at |-> "scan", i |-> loop.i + 1, now |-> loop.now, next |-> next]
    BY <1>1, <2>1 DEF At
  <2>3. QED BY <1>4, <2>1, <2>2 DEF LoopType
<1>6. \A id \in InUse(callbacks) :
        id < loop.i + 1 => next <= callbacks.slot[id].at - loop.now
  <2>1. ASSUME NEW id \in InUse(callbacks), id < loop.i + 1
        PROVE  next <= callbacks.slot[id].at - loop.now
    <3>1. /\ id \in Nat /\ callbacks.slot[id].at \in Nat
          /\ loop.now \in Nat /\ loop.next \in Int /\ loop.i \in Nat
      BY <1>1, <1>2 DEF LoopType
    <3>2. CASE id = loop.i
      BY <1>4, <3>2 DEF Here, InUse
    <3>3. CASE id < loop.i
      <4>1. loop.next <= callbacks.slot[id].at - loop.now
        BY <1>1, <3>3 DEF TimersInv, Passed
      <4>2. QED BY <1>4, <3>1, <4>1
    <3>4. QED BY <2>1, <3>1, <3>2, <3>3
  <2>2. QED BY <2>1
<1>7. TypeOK' /\ HandlesMatch' /\ Sound(webs)' /\ Sound(callbacks)'
  BY <1>1, <1>5 DEF TimersInv, TypeOK, HandlesMatch, Sound, Counted, IsList,
                    InUse, TimerOf
<1>8. Passed' /\ SleepsNoLonger'
  BY <1>1, <1>5, <1>6 DEF TimersInv, Passed, SleepsNoLonger, At, InUse
<1>9. QED BY <1>7, <1>8 DEF TimersInv

\* The scan ends with next right for all entries.
LEMMA ScanEndKeeps ==
  ASSUME TimersInv, ScanEnd
  PROVE  TimersInv'
<1>1. /\ loop' = [loop EXCEPT !.at = "select"]
      /\ At("scan") /\ loop \in LoopType /\ loop.i >= callbacks.max
      /\ UNCHANGED <<webs, callbacks, obj, pruneId, time>>
  BY DEF ScanEnd, TimersInv, TypeOK
<1>2. /\ loop' \in LoopType /\ loop'.at = "select"
      /\ loop'.next = loop.next /\ loop'.now = loop.now
  BY <1>1 DEF LoopType
<1>3. \A id \in InUse(callbacks) : id < loop.i
  BY <1>1, Names DEF TimersInv, TypeOK, Sound, Counted, IsList, LoopType
<1>4. \A id \in InUse(callbacks) : loop.next <= callbacks.slot[id].at - loop.now
  BY <1>1, <1>3 DEF TimersInv, Passed
<1>5. TypeOK' /\ HandlesMatch' /\ Sound(webs)' /\ Sound(callbacks)'
  BY <1>1, <1>2 DEF TimersInv, TypeOK, HandlesMatch, Sound, Counted, IsList,
                    InUse, TimerOf
<1>6. Passed' /\ SleepsNoLonger'
  BY <1>1, <1>2, <1>4 DEF Passed, SleepsNoLonger, At, InUse
<1>7. QED BY <1>5, <1>6 DEF TimersInv
(***************************************************************************)
(* The theorems.                                                           *)
(***************************************************************************)

LEMMA InitHolds == Init => TimersInv
<1> SUFFICES ASSUME Init PROVE TimersInv
  OBVIOUS
<1> DEFINE e == [arg |-> Pruner, at |-> WEBS_SESSION_PRUNE]
           h == NextHandle(NoList)
<1>1. e \in Event /\ Null \notin Event
  BY TimersAssumption DEF Event, Owners
<1>2. /\ IsList(NoList, Objects) /\ Sound(NoList) /\ InUse(NoList) = {}
      /\ IsList(NoList, Event)
  BY NoListSound
<1>3. h \in Nat
  BY <1>2, NextHandleVacant
<1>4. /\ IsList(callbacks, Event) /\ Sound(callbacks)
      /\ InUse(callbacks) = {h} /\ callbacks.slot[h] = e
  BY <1>1, <1>2, AllocAdds DEF Init
<1> HIDE DEF h
<1>5. /\ webs = NoList /\ pruneId = h /\ obj = [o \in Objects |-> FreeObj]
      /\ time = 0 /\ loop = [at |-> "work", i |-> 0, now |-> 0, next |-> 0]
  BY DEF Init, h
<1>6. TypeOK
  BY <1>2, <1>3, <1>4, <1>5 DEF TypeOK, LoopType, ObjType, FreeObj, Id
<1>7. HandlesMatch
  <2>1. callbacks.slot[h].arg = Pruner /\ TimerOf(Pruner) = h
    BY <1>4, <1>5 DEF TimerOf
  <2>2. \A o \in Objects : o # Pruner /\ obj[o] = FreeObj /\ TimerOf(o) = NoId
    BY <1>5, TimersAssumption DEF TimerOf, FreeObj
  <2>3. ~FreeObj.live
    BY DEF FreeObj
  <2>4. QED BY <1>2, <1>4, <1>5, <2>1, <2>2, <2>3 DEF HandlesMatch, Owners
<1>8. Passed /\ SleepsNoLonger
  BY <1>5 DEF Passed, SleepsNoLonger, At
<1>9. QED BY <1>2, <1>4, <1>5, <1>6, <1>7, <1>8 DEF TimersInv

LEMMA StepKeeps == TimersInv /\ [Next]_vars => TimersInv'
<1> SUFFICES ASSUME TimersInv, [Next]_vars PROVE TimersInv'
  OBVIOUS
<1>1. ASSUME NEW o \in Objects, Accept(o) PROVE TimersInv'
  BY <1>1, AcceptKeeps, WorkKeeps DEF Accept
<1>2. ASSUME NEW o \in Objects, Close(o) PROVE TimersInv'
  BY <1>2, CloseKeeps, WorkKeeps DEF Close
<1>3. ASSUME NEW o \in Objects, EndEvent(o) PROVE TimersInv'
  BY <1>3, CloseAndFreeKeeps, WorkKeeps DEF EndEvent
<1>4. ASSUME AcceptNoMemory PROVE TimersInv'
  <2>1. /\ IsList(webs', Objects) /\ Sound(webs') /\ SameEntries(webs', webs)
    BY <1>4, AllocFailsKeeps DEF AcceptNoMemory, TimersInv, TypeOK
  <2>2. UNCHANGED <<callbacks, obj, pruneId, time, loop>> /\ At("work")
    BY <1>4 DEF AcceptNoMemory
  <2>3. HandlesMatch'
    BY <2>1, <2>2 DEF TimersInv, HandlesMatch, SameEntries, TimerOf, InUse
  <2>4. ListsKept'
    BY <2>1, <2>2, <2>3 DEF ListsKept, TimersInv, TypeOK, Sound, Counted, IsList, InUse
  <2>5. QED BY <2>2, <2>4, WorkKeeps
<1>5. ASSUME ScanBegin PROVE TimersInv'
  <2>1. /\ loop' = [at |-> "scan", i |-> 0, now |-> time, next |-> MAXINT]
        /\ UNCHANGED <<webs, callbacks, obj, pruneId, time>>
    BY <1>5 DEF ScanBegin
  <2>2. loop' \in LoopType
    BY <2>1, TimersAssumption DEF LoopType, TimersInv, TypeOK
  <2>3. \A id \in InUse(callbacks) : ~(id < 0)
    BY Names
  <2>4. Passed' /\ SleepsNoLonger'
    BY <2>1, <2>3 DEF Passed, SleepsNoLonger, At, InUse, TimersInv, TypeOK
  <2>5. QED BY <2>1, <2>2, <2>4 DEF TimersInv, TypeOK, HandlesMatch, Sound,
                                     Counted, IsList, InUse, TimerOf
<1>6. ASSUME Scan PROVE TimersInv'
  BY <1>6, ScanPassKeeps, CallPruneKeeps, CallCheckTimeoutKeeps, ScanEndKeeps DEF Scan
<1>7. ASSUME Select PROVE TimersInv'
  <2>1. /\ loop' = [loop EXCEPT !.at = "work"] /\ loop \in LoopType
        /\ UNCHANGED <<webs, callbacks, obj, pruneId, time>>
    BY <1>7 DEF Select, TimersInv, TypeOK
  <2>2. loop' \in LoopType /\ loop'.at = "work"
    BY <2>1 DEF LoopType
  <2>3. Passed' /\ SleepsNoLonger'
    BY <2>2 DEF Passed, SleepsNoLonger, At
  <2>4. QED BY <2>1, <2>2, <2>3 DEF TimersInv, TypeOK, HandlesMatch, Sound,
                                     Counted, IsList, InUse, TimerOf
<1>8. ASSUME Tick PROVE TimersInv'
  <2>1. /\ time' = time + 1 /\ time \in Nat
        /\ UNCHANGED <<webs, callbacks, obj, pruneId, loop>>
    BY <1>8 DEF Tick, TimersInv, TypeOK
  <2>2. Passed'
    BY <2>1 DEF TimersInv, TypeOK, LoopType, Passed, At, InUse
  <2>3. SleepsNoLonger'
    BY <2>1 DEF TimersInv, SleepsNoLonger, At, InUse
  <2>4. QED BY <2>1, <2>2, <2>3 DEF TimersInv, TypeOK, HandlesMatch, Sound,
                                     Counted, IsList, InUse, TimerOf
<1>9. CASE UNCHANGED vars
  BY <1>9 DEF vars, TimersInv, TypeOK, HandlesMatch, Sound, Counted, IsList,
              InUse, TimerOf, Passed, SleepsNoLonger, At
<1>10. QED BY <1>1, <1>2, <1>3, <1>4, <1>5, <1>6, <1>7, <1>8, <1>9 DEF Next

LEMMA TimersInvariant == Spec => []TimersInv
BY InitHolds, StepKeeps, PTL DEF Spec

\* The values of the model's variables stay in their types.
THEOREM TypeCorrect == Spec => []TypeOK
<1>1. TimersInv => TypeOK
  BY DEF TimersInv
<1>2. QED BY <1>1, TimersInvariant, PTL

\* A list counts what it holds, no handle is beyond its end and none is given
\* twice, however lists grow, shrink, are freed and are begun again
\* (wallocHandle, wfreeHandle, wallocObject).
THEOREM ListsStaySound == Spec => []ListsSound
<1>1. TimersInv => ListsSound
  BY DEF TimersInv, Sound, ListsSound
<1>2. QED BY <1>1, TimersInvariant, PTL

\* An id names its owner from websStartEvent to websStopEvent: connections and
\* events point at each other (websRestartEvent, callEvent, websRunEvents).
THEOREM HandlesNameOwners == Spec => []HandlesMatch
<1>1. TimersInv => HandlesMatch
  BY DEF TimersInv
<1>2. QED BY <1>1, TimersInvariant, PTL

\* websRunEvents never lets select sleep past an event.
THEOREM NoOversleep == Spec => []SleepsNoLonger
<1>1. TimersInv => SleepsNoLonger
  BY DEF TimersInv
<1>2. QED BY <1>1, TimersInvariant, PTL

(***************************************************************************)
(* The list of events implements one alarm for each owner.                 *)
(***************************************************************************)

LEMMA InitMaps == Init => Alarm!AlarmInit
<1> SUFFICES ASSUME Init PROVE Alarm!AlarmInit
  OBVIOUS
<1>1. TimersInv /\ time = 0 /\ obj = [o \in Objects |-> FreeObj]
  BY InitHolds DEF Init
<1>2. \A o \in Objects : DueOf[o] = NoId
  BY <1>1, Names DEF DueOf, FreeObj
<1>3. DueOf[Pruner] = WEBS_SESSION_PRUNE
  <2> DEFINE e == [arg |-> Pruner, at |-> WEBS_SESSION_PRUNE]
  <2>1. e \in Event /\ Null \notin Event
    BY TimersAssumption DEF Event, Owners
  <2>a. IsList(NoList, Event) /\ Sound(NoList)
    BY NoListSound
  <2>b. NextHandle(NoList) \in Nat
    BY <2>a, NextHandleVacant
  <2>2. callbacks.slot[pruneId] = e /\ pruneId \in Nat
    BY <2>1, <2>a, <2>b, AllocAdds DEF Init
  <2>3. QED BY <2>2 DEF DueOf, TimerOf, Owners, NoId
<1>4. DueOf \in [Owners -> {NoId} \cup
                 1 .. (PARSE_TIMEOUT + WEBS_TIMEOUT + WEBS_SESSION_PRUNE)]
  BY <1>2, <1>3, TimersAssumption DEF DueOf, Owners
<1>5. QED BY <1>1, <1>4 DEF Alarm!AlarmInit

\* A step that changes the alarm of one owner.
LEMMA OneAlarm ==
  ASSUME NEW o \in Owners, \A p \in Owners \ {o} : DueOf'[p] = DueOf[p]
  PROVE  DueOf' = [DueOf EXCEPT ![o] = DueOf'[o]]
BY DEF DueOf

LEMMA StepMaps == TimersInv /\ [Next]_vars => [Alarm!AlarmNext]_(Alarm!AlarmVars)
<1> DEFINE M == PARSE_TIMEOUT + WEBS_TIMEOUT + WEBS_SESSION_PRUNE
<1> SUFFICES ASSUME TimersInv, [Next]_vars
             PROVE  Alarm!AlarmNext \/ (DueOf' = DueOf /\ time' = time)
  BY DEF Alarm!AlarmVars
<1>a. /\ PARSE_TIMEOUT \in 1 .. M /\ WEBS_SESSION_PRUNE \in 1 .. M
      /\ \A d \in 1 .. WEBS_TIMEOUT : d \in 1 .. M
  BY TimersAssumption
<1> HIDE DEF M
<1>b. \A o \in Objects : o \in Owners
  BY DEF Owners
<1>1. ASSUME NEW o \in Objects, Accept(o) PROVE Alarm!AlarmNext \/ (DueOf' = DueOf /\ time' = time)
  <2>1. /\ DueOf[o] = NoId /\ DueOf'[o] \in {NoId, time + PARSE_TIMEOUT}
        /\ DueOf' = [DueOf EXCEPT ![o] = DueOf'[o]] /\ time' = time
    BY <1>1, <1>b, AcceptKeeps, OneAlarm DEF Accept
  <2>2. CASE DueOf'[o] = NoId
    BY <2>1, <2>2 DEF DueOf
  <2>3. CASE DueOf'[o] = time + PARSE_TIMEOUT
    <3>1. Alarm!Start(o)
      BY <1>a, <2>1, <2>3 DEF Alarm!Start, M
    <3>2. QED BY <1>b, <3>1 DEF Alarm!AlarmNext
  <2>4. QED BY <2>1, <2>2, <2>3
<1>2. ASSUME NEW o \in Objects,
             DueOf'[o] = NoId, \A p \in Owners \ {o} : DueOf'[p] = DueOf[p],
             time' = time
      PROVE  Alarm!AlarmNext \/ DueOf' = DueOf
  <2>1. DueOf' = [DueOf EXCEPT ![o] = NoId]
    BY <1>2, <1>b, OneAlarm
  <2>2. CASE DueOf[o] = NoId
    BY <2>1, <2>2 DEF DueOf
  <2>3. CASE DueOf[o] # NoId
    <3>1. Alarm!Stop(o)
      BY <1>2, <2>1, <2>3 DEF Alarm!Stop
    <3>2. QED BY <1>b, <3>1 DEF Alarm!AlarmNext
  <2>4. QED BY <2>2, <2>3
<1>3. ASSUME NEW id \in InUse(callbacks), NEW d \in 1 .. M,
             callbacks.slot[id].at <= time, time' = time,
             DueOf'[callbacks.slot[id].arg] = time + d,
             \A p \in Owners \ {callbacks.slot[id].arg} : DueOf'[p] = DueOf[p]
      PROVE  Alarm!AlarmNext
  <2> DEFINE o == callbacks.slot[id].arg
  <2>1. o \in Owners /\ TimerOf(o) = id /\ id # NoId
    BY Names DEF NoId
  <2>2. DueOf[o] = callbacks.slot[id].at /\ DueOf[o] # NoId
    <3>1. callbacks.slot[id].at \in Nat
      BY Names DEF Event
    <3>2. QED BY <2>1, <3>1 DEF DueOf, NoId
  <2>3. DueOf' = [DueOf EXCEPT ![o] = time + d]
    BY <1>3, <2>1, OneAlarm
  <2> HIDE DEF o
  <2>4. Alarm!RingAgain(o)
    BY <1>3, <2>2, <2>3 DEF Alarm!RingAgain, M
  <2>5. QED BY <2>1, <2>4 DEF Alarm!AlarmNext
<1>4. Scanning /\ Due => loop.i \in InUse(callbacks) /\ callbacks.slot[loop.i].at <= time
  <2> SUFFICES ASSUME Scanning, Due
               PROVE  loop.i \in InUse(callbacks) /\ callbacks.slot[loop.i].at <= time
    OBVIOUS
  <2>1. loop.i \in InUse(callbacks) /\ callbacks.slot[loop.i].at \in Nat
    BY DueEntry, Names DEF Event
  <2>2. loop.now \in Nat /\ time \in Nat /\ loop.now <= time
    BY DEF TimersInv, TypeOK, LoopType, Passed, Scanning
  <2>3. QED BY <2>1, <2>2 DEF Due, Here
<1>5. ASSUME CallPrune PROVE Alarm!AlarmNext
  <2>1. pruneId = loop.i /\ loop.i \in InUse(callbacks)
    BY <1>5, DueEntry, Names DEF CallPrune, Here, TimerOf
  <2>2. /\ WEBS_SESSION_PRUNE \in Nat /\ webs' = webs /\ obj' = obj
        /\ pruneId' = pruneId /\ time' = time
        /\ callbacks' = RestartEvent(callbacks, loop.i, WEBS_SESSION_PRUNE)
    BY <1>5, <2>1, TimersAssumption DEF CallPrune
  <2>3. /\ DueOf'[callbacks.slot[loop.i].arg] = time + WEBS_SESSION_PRUNE
        /\ \A p \in Owners \ {callbacks.slot[loop.i].arg} : DueOf'[p] = DueOf[p]
    BY <2>1, <2>2, RestartStep
  <2>4. callbacks.slot[loop.i].at <= time
    BY <1>4, <1>5 DEF CallPrune
  <2>5. QED BY <1>3, <1>a, <2>1, <2>2, <2>3, <2>4
<1>6. ASSUME CallCheckTimeout PROVE Alarm!AlarmNext \/ (DueOf' = DueOf /\ time' = time)
  <2> DEFINE o == callbacks.slot[loop.i].arg
  <2>1. /\ loop.i \in InUse(callbacks) /\ callbacks.slot[loop.i].at <= time
        /\ o \in Objects /\ time' = time /\ pruneId' = pruneId
    BY <1>4, <1>6, DueEntry DEF CallCheckTimeout, Here, Owners
  <2>2. obj[o].live
    BY <2>1, Names DEF TimersInv, HandlesMatch, FreeObj, NoId
  <2> HIDE DEF o
  <2>3. PICK elapsed \in 0 .. WEBS_TIMEOUT, begin \in BOOLEAN :
          IF begin \/ TimedOut(elapsed)
          THEN CloseAndFree(o)
          ELSE /\ callbacks' = RestartEvent(callbacks, loop.i, WEBS_TIMEOUT - elapsed)
               /\ UNCHANGED <<webs, obj>>
    BY <1>6 DEF CallCheckTimeout, Here, o
  <2>4. CASE begin \/ TimedOut(elapsed)
    BY <1>2, <2>1, <2>2, <2>3, <2>4, CloseAndFreeKeeps
  <2>5. CASE ~(begin \/ TimedOut(elapsed))
    <3>1. WEBS_TIMEOUT - elapsed \in Nat /\ WEBS_TIMEOUT - elapsed \in 1 .. WEBS_TIMEOUT
      BY <2>5, TimersAssumption DEF TimedOut
    <3>2. WEBS_TIMEOUT - elapsed \in 1 .. M
      BY <1>a, <3>1
    <3>3. /\ DueOf'[o] = time + (WEBS_TIMEOUT - elapsed)
          /\ \A p \in Owners \ {o} : DueOf'[p] = DueOf[p]
      BY <2>1, <2>3, <2>5, <3>1, RestartStep DEF o
    <3>4. QED BY <1>3, <2>1, <3>2, <3>3 DEF o
  <2>6. QED BY <2>4, <2>5
<1>7. ASSUME AcceptNoMemory \/ ScanBegin \/ ScanPass \/ ScanEnd \/ Select \/ UNCHANGED vars
      PROVE  DueOf' = DueOf /\ time' = time
  BY <1>7 DEF AcceptNoMemory, ScanBegin, ScanPass, ScanEnd, Select, vars, DueOf, TimerOf
<1>8. ASSUME Tick PROVE Alarm!AlarmNext
  <2>1. Alarm!Pass
    BY <1>8 DEF Tick, Alarm!Pass, DueOf, TimerOf
  <2>2. QED BY <2>1 DEF Alarm!AlarmNext
<1>9. ASSUME NEW o \in Objects, Close(o) \/ EndEvent(o)
      PROVE  Alarm!AlarmNext \/ (DueOf' = DueOf /\ time' = time)
  <2>1. time' = time
    BY <1>9 DEF Close, EndEvent
  <2>2. /\ DueOf'[o] = NoId /\ \A p \in Owners \ {o} : DueOf'[p] = DueOf[p]
    BY <1>9, CloseKeeps, CloseAndFreeKeeps DEF EndEvent
  <2>3. QED BY <1>2, <2>1, <2>2
<1>10. QED BY <1>1, <1>5, <1>6, <1>7, <1>8, <1>9 DEF Next, Scan

\* The events of the server behave as Alarms: each owner has at most one, it
\* rings when its time has come, and a ringing alarm is set again for later
\* or is gone (websStartEvent, websRestartEvent, websStopEvent, websRunEvents).
THEOREM ImplementsAlarms == Spec => Alarms
BY InitMaps, StepMaps, TimersInvariant, PTL DEF Spec, Alarms, Alarm!AlarmSpec
=============================================================================
