-------------------------- MODULE WebsServer_proofs --------------------------
(***************************************************************************)
(* Theorems about the event loop, for every number of connections, size of *)
(* buffers and documents, timeout and set of faults.                       *)
(***************************************************************************)
EXTENDS WebsServer, WellFoundedInduction, TLAPS

(***************************************************************************)
(* The operators of WebsCore: each returns a connection, and what it       *)
(* leaves alone.                                                           *)
(***************************************************************************)

(***************************************************************************)
(* The ranges of the numeric fields.                                       *)
(***************************************************************************)

\* The bounds themselves are in the ranges (initWebs, websAlloc and
\* parseHeaders start the counters there).
LEMMA Bounds ==
  /\ 0 \in Queued /\ 0 \in Body /\ 0 \in Age /\ 0 \in Document
  /\ 0 \in Owed /\ -1 \in Owed /\ -2 \in Owed /\ PostLen \in Owed
  /\ RoomMax \in Room /\ NoTimer \in Timer
  /\ WEBS_TIMEOUT \in Age /\ PARSE_TIMEOUT \in Timer /\ PostLen \in Body
BY CoreAssumption DEF Queued, Body, Age, Document, Owed, Room, NoTimer, Timer

\* The states are the states.
LEMMA StateValues ==
  /\ BEGIN \in States /\ CONTENT \in States /\ READY \in States
  /\ RUNNING \in States /\ COMPLETE \in States
BY DEF States

\* The values of wp->state differ.
LEMMA StatesDiffer ==
  /\ BEGIN # CONTENT /\ BEGIN # READY /\ BEGIN # RUNNING /\ BEGIN # COMPLETE
  /\ CONTENT # READY /\ CONTENT # RUNNING /\ CONTENT # COMPLETE
  /\ READY # RUNNING /\ READY # COMPLETE /\ RUNNING # COMPLETE
BY DEF BEGIN, CONTENT, READY, RUNNING, COMPLETE

\* What the socket takes (socketWrite) is at most what there is, and at most
\* what it has room for.
LEMMA Drain ==
  ASSUME NEW w \in WebsType
  PROVE  /\ w.out - Least(w.out, w.room) \in Queued
         /\ w.room - Least(w.out, w.room) \in Room
         /\ w.doc - Least(w.doc, w.room) \in Document
         /\ w.room - Least(w.doc, w.room) \in Room
<1>1. w.out \in Queued /\ w.room \in Room /\ w.doc \in Document
  BY DEF WebsType
<1>2. QED BY <1>1, CoreAssumption DEF Queued, Room, Document, Least

(***************************************************************************)
(* v is w after an output routine: the object, its socket, its timer, its  *)
(* input and the client are untouched; websDone and the headers are not    *)
(* undone, keep-alive not granted anew, no interest in the socket dropped; *)
(* the state stays or becomes COMPLETE, for an ended response or on a      *)
(* connection that will be closed; output is dropped only if writes fail.  *)
(***************************************************************************)
Kept(v, w) ==
  /\ v \in WebsType
  /\ v.live = w.live /\ v.orphan = w.orphan /\ v.closed = w.closed
  /\ v.open = w.open /\ v.timeout = w.timeout /\ v.timer = w.timer
  /\ v.rx = w.rx /\ v.rem = w.rem
  /\ v.ka => w.ka
  /\ w.fin => v.fin
  /\ v.state = w.state \/ (v.state = COMPLETE /\ (v.fin \/ ~v.ka))
  /\ v.writer = w.writer
  /\ v.net = w.net /\ v.owe = w.owe /\ v.shut = w.shut /\ v.rst = w.rst
  /\ v.sockEof = w.sockEof
  /\ w.mask \subseteq v.mask
  /\ w.hdr => v.hdr
  /\ v.cut => w.cut \/ (w.open /\ ~w.rst /\ (w.closed \/ w.sockEof))

\* A connection is kept by doing nothing.
LEMMA KeptRefl == ASSUME NEW w \in WebsType PROVE Kept(w, w)
BY DEF Kept

\* Two output routines, one after the other.
LEMMA KeptTrans ==
  ASSUME NEW u, NEW v, NEW w, Kept(u, v), Kept(v, w)
  PROVE  Kept(u, w)
BY DEF Kept

\* websFlush (http.c:2069).
LEMMA FlushKept == ASSUME NEW w \in WebsType PROVE Kept(Flush(w), w)
<1>1. CASE FlushFails(w)
  <2> DEFINE v == [w EXCEPT !.ka = FALSE, !.out = 0, !.state = COMPLETE,
                            !.cut = @ \/ (w.open /\ ~w.rst)]
  <2>1. Flush(w) = v
    BY <1>1 DEF Flush
  <2>2. v \in WebsType
    BY ZenonT(60), Bounds, StateValues DEF WebsType
  <2>3. /\ v.live = w.live /\ v.orphan = w.orphan /\ v.closed = w.closed
        /\ v.open = w.open /\ v.timeout = w.timeout /\ v.timer = w.timer
        /\ v.rx = w.rx /\ v.rem = w.rem /\ v.writer = w.writer
        /\ v.ka = FALSE /\ v.fin = w.fin /\ v.state = COMPLETE
        /\ v.net = w.net /\ v.owe = w.owe /\ v.shut = w.shut
        /\ v.rst = w.rst /\ v.sockEof = w.sockEof /\ v.mask = w.mask
        /\ v.hdr = w.hdr /\ v.cut = (w.cut \/ (w.open /\ ~w.rst))
    BY DEF WebsType
  <2>4. w.open /\ ~w.rst => w.closed \/ w.sockEof
    BY <1>1 DEF FlushFails, WriteFails
  <2> HIDE DEF v
  <2>5. Kept(v, w)
    BY <2>2, <2>3, <2>4 DEF Kept
  <2>6. QED BY <2>1, <2>5
<1>2. CASE ~FlushFails(w)
  <2> DEFINE k == Least(w.out, w.room)
             a == IF w.out > 0 THEN 0 ELSE w.age
             s == IF w.out = k /\ w.fin THEN COMPLETE ELSE w.state
             v == [w EXCEPT !.out = @ - k, !.room = @ - k, !.age = a,
                            !.state = s]
  <2>1. Flush(w) = v
    BY <1>2 DEF Flush
  <2>2. w.out - k \in Queued /\ w.room - k \in Room
    BY Drain
  <2>3. a \in Age /\ s \in States
    BY Bounds, StateValues DEF WebsType
  <2>4. s = w.state \/ (s = COMPLETE /\ w.fin)
    OBVIOUS
  <2> HIDE DEF k, a, s
  <2>5. v \in WebsType
    BY <2>2, <2>3 DEF WebsType
  <2>6. Kept(v, w)
    BY <2>4, <2>5 DEF Kept, WebsType
  <2>7. QED BY <2>1, <2>6
<1>3. QED BY <1>1, <1>2

\* websWriteBlock (http.c:2180).
LEMMA WriteBlockKept == ASSUME NEW w \in WebsType PROVE Kept(WriteBlock(w), w)
<1> DEFINE f == IF w.out = OutMax THEN Flush(w) ELSE w
<1>1. Kept(f, w) /\ f \in WebsType
  BY FlushKept, KeptRefl DEF Kept
<1>2. CASE w.state = COMPLETE
  BY <1>2, KeptRefl DEF WriteBlock
<1>3. CASE w.state # COMPLETE /\ f.out = OutMax
  BY <1>1, <1>3 DEF WriteBlock
<1>4. CASE w.state # COMPLETE /\ f.out # OutMax
  <2>1. f.out \in Queued
    BY <1>1 DEF WebsType
  <2>2. f.out + 1 \in Queued
    BY <2>1, <1>4, CoreAssumption DEF Queued
  <2>3. Kept([f EXCEPT !.out = @ + 1, !.late = @ \/ w.fin], f)
    <3> HIDE DEF f
    <3>1. QED BY ZenonT(60), <1>1, <2>2 DEF Kept, WebsType
  <2>4. QED BY <1>1, <1>4, <2>3, KeptTrans DEF WriteBlock
<1>5. QED BY <1>2, <1>3, <1>4

\* websWriteHeaders (http.c:1851).
LEMMA WriteHeadersKept ==
  ASSUME NEW w \in WebsType PROVE Kept(WriteHeaders(w), w)
<1>1. CASE w.hdr
  BY <1>1, KeptRefl DEF WriteHeaders
<1>2. CASE ~w.hdr
  <2> DEFINE b == WriteBlock(w)
  <2>1. Kept(b, w)
    BY WriteBlockKept
  <2>2. Kept([b EXCEPT !.hdr = TRUE], b)
    BY <2>1 DEF Kept, WebsType
  <2>3. QED BY <1>2, <2>1, <2>2, KeptTrans DEF WriteHeaders
<1>3. QED BY <1>1, <1>2

\* websDone (http.c:544) ends the response.
LEMMA DoneKept ==
  ASSUME NEW w \in WebsType PROVE Kept(Done(w), w) /\ Done(w).fin
<1>1. CASE w.fin
  BY <1>1, KeptRefl DEF Done
<1>2. CASE ~w.fin
  <2> DEFINE d == [w EXCEPT !.fin = TRUE]
             f == Flush(d)
             m == IF Flushed(d) THEN f.mask ELSE f.mask \cup {"W"}
  <2>1. Kept(d, w) /\ d \in WebsType /\ d.fin
    BY DEF Kept, WebsType
  <2>2. Kept(f, d)
    BY <2>1, FlushKept
  <2>3. f \in WebsType /\ m \in SUBSET Interest /\ f.fin
    BY <2>1, <2>2 DEF Kept, WebsType, Interest
  <2>4. Kept([f EXCEPT !.doc = 0, !.mask = m], f)
    BY <2>3, Bounds DEF Kept, WebsType
  <2>5. Done(w) = [f EXCEPT !.doc = 0, !.mask = m]
    BY <1>2 DEF Done
  <2>6. [f EXCEPT !.doc = 0, !.mask = m].fin
    BY <2>3 DEF WebsType
  <2>7. QED BY <2>1, <2>2, <2>4, <2>5, <2>6, KeptTrans
<1>3. QED BY <1>1, <1>2

\* websResponse (http.c:1535).
LEMMA ResponseKept ==
  ASSUME NEW w \in WebsType PROVE Kept(Response(w), w) /\ Response(w).fin
<1> DEFINE h == WriteHeaders(w)
           b == WriteBlock(h)
<1>1. Kept(h, w) /\ h \in WebsType
  BY WriteHeadersKept DEF Kept
<1>2. Kept(b, h) /\ b \in WebsType
  BY <1>1, WriteBlockKept DEF Kept
<1>3. Kept(Done(b), b) /\ Done(b).fin
  BY <1>2, DoneKept
<1>4. QED BY <1>1, <1>2, <1>3, KeptTrans DEF Response

\* websError (http.c:1728) ends the response, and gives up keep-alive when
\* it is told to or when a body is still to come.
LEMMA ErrorKept ==
  ASSUME NEW w \in WebsType, NEW close \in BOOLEAN
  PROVE  /\ Kept(Error(w, close), w) /\ Error(w, close).fin
         /\ close \/ w.rem # 0 => ~Error(w, close).ka
<1> DEFINE e == [w EXCEPT !.ka = @ /\ ~close /\ w.rem = 0]
<1>1. e \in WebsType /\ Kept(e, w) /\ (close \/ w.rem # 0 => ~e.ka)
  BY ZenonT(60) DEF Kept, WebsType
<1>2. Kept(Response(e), e) /\ Response(e).fin
  BY <1>1, ResponseKept
<1>3. Response(e).ka => e.ka
  BY <1>2 DEF Kept
<1>4. QED BY <1>1, <1>2, <1>3, KeptTrans DEF Error

\* fileWriteEvent (file.c:110).
LEMMA FileWriteKept == ASSUME NEW w \in WebsType PROVE Kept(FileWrite(w), w)
<1>1. CASE w.doc > 0 /\ WriteFails(w)
  <2> DEFINE v == [w EXCEPT !.doc = @ - 1,
                            !.cut = @ \/ (w.open /\ ~w.rst)]
  <2>1. w.doc - 1 \in Document
    <3>1. w.doc \in Document
      BY DEF WebsType
    <3>2. QED BY <1>1, <3>1, CoreAssumption DEF Document
  <2>2. v \in WebsType
    BY <2>1 DEF WebsType
  <2>3. /\ v.live = w.live /\ v.orphan = w.orphan /\ v.closed = w.closed
        /\ v.open = w.open /\ v.timeout = w.timeout /\ v.timer = w.timer
        /\ v.rx = w.rx /\ v.rem = w.rem /\ v.writer = w.writer
        /\ v.ka = w.ka /\ v.fin = w.fin /\ v.state = w.state
        /\ v.net = w.net /\ v.owe = w.owe /\ v.shut = w.shut
        /\ v.rst = w.rst /\ v.sockEof = w.sockEof /\ v.mask = w.mask
        /\ v.hdr = w.hdr /\ v.cut = (w.cut \/ (w.open /\ ~w.rst))
    BY DEF WebsType
  <2>4. w.open /\ ~w.rst => w.closed \/ w.sockEof
    BY <1>1 DEF WriteFails
  <2>5. FileWrite(w) = v
    BY <1>1 DEF FileWrite
  <2> HIDE DEF v
  <2>6. QED BY <2>2, <2>3, <2>4, <2>5 DEF Kept
<1>2. CASE ~(w.doc > 0 /\ WriteFails(w))
  <2> DEFINE k == Least(w.doc, w.room)
             a == IF w.doc > 0 THEN 0 ELSE w.age
             l == w.late \/ (w.fin /\ w.doc > 0)
             s == [w EXCEPT !.doc = @ - k, !.room = @ - k, !.age = a,
                            !.late = l]
  <2>1. w.doc - k \in Document /\ w.room - k \in Room /\ a \in Age
        /\ l \in BOOLEAN
    BY Drain, Bounds DEF WebsType
  <2>2. Kept(s, w) /\ s \in WebsType
    <3> HIDE DEF k, a, l
    <3>1. s \in WebsType
      BY <2>1 DEF WebsType
    <3>2. Kept(s, w)
      BY <3>1 DEF Kept, WebsType
    <3>3. QED BY <3>1, <3>2
  <2>3. FileWrite(w) = IF s.doc = 0 THEN Done(s) ELSE s
    BY <1>2 DEF FileWrite
  <2> HIDE DEF s
  <2>4. QED BY <2>2, <2>3, DoneKept, KeptTrans
<1>3. QED BY <1>1, <1>2

\* websSetBackgroundWriter (http.c:2131): an output routine from the moment
\* the writer is there.
Writing(w) == [w EXCEPT !.writer = TRUE]

LEMMA SetBackgroundWriterKept ==
  ASSUME NEW w \in WebsType
  PROVE  Kept(SetBackgroundWriter(w), Writing(w))
<1> DEFINE s == Writing(w)
           f == IF Flushed(s) THEN FileWrite(Flush(s)) ELSE Flush(s)
           m == IF f.state # COMPLETE THEN f.mask \cup {"W"} ELSE f.mask
           v == [f EXCEPT !.mask = m]
<1>1. s \in WebsType
  BY DEF WebsType, Writing
<1>2. SetBackgroundWriter(w) = v
  BY DEF SetBackgroundWriter, Writing
<1> HIDE DEF s
<1>3. Kept(Flush(s), s) /\ Flush(s) \in WebsType
  BY <1>1, FlushKept DEF Kept
<1>4. Kept(f, s) /\ f \in WebsType
  <2>1. Kept(FileWrite(Flush(s)), s)
    BY <1>3, FileWriteKept, KeptTrans
  <2>2. Kept(f, s)
    BY <1>3, <2>1
  <2>3. QED BY <2>2 DEF Kept
<1> HIDE DEF f
<1>5. m \in SUBSET Interest
  BY <1>4 DEF WebsType, Interest
<1> HIDE DEF m
<1>6. Kept(v, f)
  <2>1. v \in WebsType /\ f.mask \subseteq m
    BY <1>4, <1>5 DEF WebsType, m
  <2>2. QED BY <1>4, <2>1 DEF Kept, WebsType
<1>7. QED BY <1>2, <1>4, <1>6, KeptTrans DEF s

\* websRouteRequest before it calls a handler.
LEMMA RunningType ==
  ASSUME NEW w \in WebsType
  PROVE  Running(w) \in WebsType /\ Running(w).state = RUNNING
BY StateValues DEF Running, WebsType

\* websWriteHeaders and n blocks, n at most 2.
LEMMA BlocksKept ==
  ASSUME NEW w \in WebsType
  PROVE  /\ Kept(WriteBlock(WriteHeaders(w)), w)
         /\ Kept(WriteBlock(WriteBlock(WriteHeaders(w))), w)
<1> DEFINE h == WriteHeaders(w)
           b == WriteBlock(h)
<1>1. Kept(h, w) /\ h \in WebsType
  BY WriteHeadersKept DEF Kept
<1>2. Kept(b, h) /\ b \in WebsType
  BY <1>1, WriteBlockKept DEF Kept
<1>3. Kept(WriteBlock(b), b)
  BY <1>2, WriteBlockKept
<1>4. QED BY <1>1, <1>2, <1>3, KeptTrans

\* actionHandler (action.c:23), from the moment it runs.
LEMMA ServeActionKept ==
  ASSUME NEW w \in WebsType, NEW n \in Nat
  PROVE  Kept(ServeAction(w, n), Running(w))
<1> DEFINE r == Running(w)
           h == WriteHeaders(r)
           b == CASE n = 0 -> h
                  [] n = 1 -> WriteBlock(h)
                  [] OTHER -> WriteBlock(WriteBlock(h))
<1>1. r \in WebsType
  BY RunningType
<1>2. Kept(b, r)
  <2> HIDE DEF r
  <2>1. Kept(h, r) /\ Kept(WriteBlock(h), r)
        /\ Kept(WriteBlock(WriteBlock(h)), r)
    BY <1>1, BlocksKept, WriteHeadersKept
  <2> HIDE DEF h
  <2>2. QED BY <2>1
<1>3. ServeAction(w, n) = Done(b)
  BY DEF ServeAction
<1> HIDE DEF b, r
<1>4. b \in WebsType
  BY <1>2 DEF Kept
<1>5. Kept(Done(b), r)
  BY <1>2, <1>4, DoneKept, KeptTrans
<1>6. QED BY <1>3, <1>5 DEF r

\* fileHandler (file.c:24), from the moment it runs; it sets a background
\* writer unless the document is empty.
LEMMA ServeFileKept ==
  ASSUME NEW w \in WebsType, NEW n \in Document
  PROVE  \/ Kept(ServeFile(w, n), Running(w))
         \/ Kept(ServeFile(w, n), Writing(Running(w)))
<1> DEFINE r == Running(w)
           h == WriteHeaders(r)
           d == [h EXCEPT !.doc = n]
<1>1. r \in WebsType
  BY RunningType
<1>2. ServeFile(w, n) = IF n = 0 THEN Done(h) ELSE SetBackgroundWriter(d)
  BY DEF ServeFile
<1> HIDE DEF r
<1>3. Kept(h, r) /\ h \in WebsType
  BY <1>1, WriteHeadersKept DEF Kept
<1> HIDE DEF h
<1>4. Kept(d, h) /\ d \in WebsType
  <2>1. d \in WebsType
    BY <1>3 DEF WebsType
  <2>2. QED BY <1>3, <2>1 DEF Kept, WebsType
<1> HIDE DEF d
<1>5. Kept(Writing(d), Writing(r))
  <2>1. Kept(d, r)
    BY <1>3, <1>4, KeptTrans
  <2>2. Writing(d) \in WebsType
    BY <1>4 DEF Writing, WebsType
  <2> DEFINE x == Writing(d)
             y == Writing(r)
  <2>3. /\ x.live = d.live /\ x.orphan = d.orphan /\ x.closed = d.closed
        /\ x.open = d.open /\ x.timeout = d.timeout /\ x.timer = d.timer
        /\ x.rx = d.rx /\ x.rem = d.rem /\ x.ka = d.ka /\ x.fin = d.fin
        /\ x.state = d.state /\ x.writer = TRUE /\ x.net = d.net
        /\ x.owe = d.owe /\ x.shut = d.shut /\ x.rst = d.rst
        /\ x.sockEof = d.sockEof /\ x.mask = d.mask /\ x.hdr = d.hdr
        /\ x.cut = d.cut
    BY <1>4 DEF Writing, WebsType
  <2>4. /\ y.live = r.live /\ y.orphan = r.orphan /\ y.closed = r.closed
        /\ y.open = r.open /\ y.timeout = r.timeout /\ y.timer = r.timer
        /\ y.rx = r.rx /\ y.rem = r.rem /\ y.ka = r.ka /\ y.fin = r.fin
        /\ y.state = r.state /\ y.writer = TRUE /\ y.net = r.net
        /\ y.owe = r.owe /\ y.shut = r.shut /\ y.rst = r.rst
        /\ y.sockEof = r.sockEof /\ y.mask = r.mask /\ y.hdr = r.hdr
        /\ y.cut = r.cut
    BY <1>1 DEF Writing, WebsType
  <2> HIDE DEF x, y
  <2>5. x \in WebsType
    BY <2>2 DEF x
  <2>6. Kept(x, y)
    BY ZenonT(60), <2>1, <2>3, <2>4, <2>5 DEF Kept
  <2>7. QED BY <2>6 DEF x, y
<1>6. Kept(SetBackgroundWriter(d), Writing(r))
  BY <1>4, <1>5, SetBackgroundWriterKept, KeptTrans
<1>7. Kept(Done(h), r)
  BY <1>3, DoneKept, KeptTrans
<1>8. QED BY <1>2, <1>6, <1>7 DEF r

(***************************************************************************)
(* What each output routine makes of the response.                         *)
(***************************************************************************)

\* websFlush: it is complete when it drained after websDone, or failed.
LEMMA FlushMakes ==
  ASSUME NEW w \in WebsType
  PROVE  LET v == Flush(w)
         IN /\ v.late = w.late /\ v.fin = w.fin /\ v.doc = w.doc
            /\ v.hdr = w.hdr /\ v.mask = w.mask
            /\ v.ka \/ v.state # COMPLETE =>
                 /\ v.ka = w.ka /\ v.out = w.out - Least(w.out, w.room)
                 /\ v.state = IF v.out = 0 /\ w.fin THEN COMPLETE ELSE w.state
<1>1. CASE FlushFails(w)
  <2> DEFINE v == [w EXCEPT !.ka = FALSE, !.out = 0, !.state = COMPLETE,
                            !.cut = @ \/ (w.open /\ ~w.rst)]
  <2>1. Flush(w) = v
    BY <1>1 DEF Flush
  <2>2. /\ v.late = w.late /\ v.fin = w.fin /\ v.doc = w.doc
        /\ v.hdr = w.hdr /\ v.mask = w.mask /\ ~v.ka /\ v.state = COMPLETE
    BY DEF WebsType
  <2>3. QED BY <2>1, <2>2
<1>2. CASE ~FlushFails(w)
  <2> DEFINE k == Least(w.out, w.room)
             a == IF w.out > 0 THEN 0 ELSE w.age
             s == IF w.out = k /\ w.fin THEN COMPLETE ELSE w.state
             o == w.out - k
             v == [w EXCEPT !.out = o, !.room = @ - k, !.age = a,
                            !.state = s]
  <2>1. Flush(w) = v
    BY <1>2 DEF Flush
  <2>2. w.out \in Nat /\ k \in Nat
    BY CoreAssumption DEF WebsType, Queued, Room, Least
  <2>3. w.out = k <=> o = 0
    BY <2>2
  <2> HIDE DEF k, a, o
  <2>4. /\ v.late = w.late /\ v.fin = w.fin /\ v.doc = w.doc
        /\ v.hdr = w.hdr /\ v.mask = w.mask /\ v.ka = w.ka
        /\ v.out = o /\ v.state = s
    BY DEF WebsType
  <2>5. QED BY <2>1, <2>3, <2>4 DEF o, k
<1>3. QED BY <1>1, <1>2

\* websWriteBlock: it queues behind websDone only what is late, and an
\* error is the only way for it to complete what is not ended.
LEMMA WriteBlockMakes ==
  ASSUME NEW w \in WebsType
  PROVE  LET v == WriteBlock(w)
         IN /\ v.fin = w.fin /\ v.doc = w.doc /\ v.hdr = w.hdr
            /\ v.mask = w.mask
            /\ v.late => w.late \/ w.fin
            /\ v.state # COMPLETE => v.out > 0
            /\ v.ka /\ ~w.fin => v.state = w.state
            /\ w.state = COMPLETE => v = w
<1> DEFINE f == IF w.out = OutMax THEN Flush(w) ELSE w
<1>1. f \in WebsType
  BY FlushKept DEF Kept
<1>2. /\ f.late = w.late /\ f.fin = w.fin /\ f.doc = w.doc
      /\ f.hdr = w.hdr /\ f.mask = w.mask
      /\ f.ka /\ ~w.fin => f.state = w.state
  BY FlushMakes
<1>3. CASE w.state = COMPLETE
  BY <1>3 DEF WriteBlock
<1>4. CASE w.state # COMPLETE /\ f.out = OutMax
  BY <1>1, <1>2, <1>4, CoreAssumption DEF WriteBlock
<1>5. CASE w.state # COMPLETE /\ f.out # OutMax
  <2> DEFINE o == f.out + 1
             l == f.late \/ w.fin
             v == [f EXCEPT !.out = o, !.late = l]
  <2>1. o > 0
    BY <1>1, CoreAssumption DEF WebsType, Queued
  <2>2. WriteBlock(w) = v
    BY <1>5 DEF WriteBlock
  <2> HIDE DEF f, o, l
  <2>3. /\ v.fin = f.fin /\ v.doc = f.doc /\ v.hdr = f.hdr
        /\ v.mask = f.mask /\ v.late = l /\ v.out = o /\ v.ka = f.ka
        /\ v.state = f.state
    BY <1>1 DEF WebsType
  <2>4. QED BY <1>2, <1>5, <2>1, <2>2, <2>3 DEF l
<1>6. QED BY <1>3, <1>4, <1>5

\* websWriteHeaders.
LEMMA WriteHeadersMakes ==
  ASSUME NEW w \in WebsType
  PROVE  LET v == WriteHeaders(w)
         IN /\ v.fin = w.fin /\ v.doc = w.doc /\ v.hdr /\ v.mask = w.mask
            /\ v.late => w.late \/ w.fin
            /\ v.state # COMPLETE /\ ~w.hdr => v.out > 0
            /\ v.ka /\ ~w.fin => v.state = w.state
            /\ w.state = COMPLETE \/ w.hdr => v = [w EXCEPT !.hdr = TRUE]
<1>1. CASE w.hdr
  <2>1. w = [w EXCEPT !.hdr = TRUE]
    BY <1>1 DEF WebsType
  <2>2. QED BY <1>1, <2>1 DEF WriteHeaders
<1>2. CASE ~w.hdr
  <2> DEFINE b == WriteBlock(w)
  <2>1. b \in WebsType
    BY WriteBlockKept DEF Kept
  <2>2. /\ b.fin = w.fin /\ b.doc = w.doc /\ b.mask = w.mask
        /\ b.late => w.late \/ w.fin
        /\ b.state # COMPLETE => b.out > 0
        /\ b.ka /\ ~w.fin => b.state = w.state
        /\ w.state = COMPLETE => b = w
    BY WriteBlockMakes
  <2>3. WriteHeaders(w) = [b EXCEPT !.hdr = TRUE]
    BY <1>2 DEF WriteHeaders
  <2> HIDE DEF b
  <2>4. QED BY <1>2, <2>1, <2>2, <2>3 DEF WebsType
<1>3. QED BY <1>1, <1>2

\* websDone, the first time: what is left waits for the socket.
LEMMA DoneMakes ==
  ASSUME NEW w \in WebsType
  PROVE  LET v == Done(w)
         IN /\ v.fin /\ v.late = w.late /\ v.hdr = w.hdr
            /\ IF w.fin
               THEN v = w
               ELSE /\ v.doc = 0
                    /\ v.state # COMPLETE => "W" \in v.mask /\ v.out > 0
                    /\ /\ v.state = COMPLETE /\ v.ka
                       /\ w.state = COMPLETE => w.out = 0
                       => v.out = 0
<1>1. CASE w.fin
  BY <1>1 DEF Done
<1>2. CASE ~w.fin
  <2> DEFINE d == [w EXCEPT !.fin = TRUE]
             f == Flush(d)
             m == IF Flushed(d) THEN f.mask ELSE f.mask \cup {"W"}
             v == [f EXCEPT !.doc = 0, !.mask = m]
  <2>1. /\ d \in WebsType /\ d.fin /\ d.late = w.late /\ d.hdr = w.hdr
        /\ d.out = w.out /\ d.room = w.room /\ d.state = w.state
        /\ d.ka = w.ka
    BY DEF WebsType
  <2> HIDE DEF d
  <2>2. f \in WebsType
    BY <2>1, FlushKept DEF Kept
  <2>3. /\ f.late = w.late /\ f.fin /\ f.hdr = w.hdr
        /\ f.ka \/ f.state # COMPLETE =>
             /\ f.out = w.out - Least(w.out, w.room)
             /\ f.state = IF f.out = 0 THEN COMPLETE ELSE w.state
    BY <2>1, FlushMakes
  <2>4. w.out \in Nat /\ w.room \in Nat /\ f.out \in Nat
    BY <2>2, CoreAssumption DEF WebsType, Queued, Room
  <2>5. f.state # COMPLETE => ~Flushed(d) /\ f.out > 0
    <3>1. f.state # COMPLETE => f.out # 0
      BY <2>3
    <3>2. f.state # COMPLETE => ~(w.out <= w.room)
      BY <2>3, <2>4, <3>1 DEF Least
    <3>3. QED BY <2>1, <2>4, <3>1, <3>2 DEF Flushed
  <2>6. f.state = COMPLETE /\ f.ka /\ (w.state = COMPLETE => w.out = 0)
        => f.out = 0
    BY <2>3, <2>4 DEF Least
  <2>7. Done(w) = v
    BY <1>2 DEF Done, d
  <2>8. f.state # COMPLETE => "W" \in m
    BY <2>5
  <2> HIDE DEF f, m
  <2>9. /\ v.fin = f.fin /\ v.late = f.late /\ v.hdr = f.hdr /\ v.doc = 0
        /\ v.state = f.state /\ v.mask = m /\ v.out = f.out /\ v.ka = f.ka
    BY <2>2 DEF WebsType
  <2>10. QED BY <1>2, <2>3, <2>5, <2>6, <2>7, <2>8, <2>9
<1>3. QED BY <1>1, <1>2

\* fileWriteEvent: it ends the response with the document, and reads none
\* after the end.
LEMMA FileWriteMakes ==
  ASSUME NEW w \in WebsType
  PROVE  LET v == FileWrite(w)
         IN /\ v.hdr = w.hdr
            /\ w.fin => v.state = w.state /\ v.out = w.out /\ v.ka = w.ka
            /\ ~v.fin => v.state = w.state /\ v.out = w.out /\ v.ka = w.ka
            /\ (w.fin => w.doc = 0) =>
                 v.late = w.late /\ (v.fin => v.doc = 0)
            /\ v.fin /\ ~w.fin =>
                 /\ v.state # COMPLETE => "W" \in v.mask /\ v.out > 0
                 /\ /\ v.state = COMPLETE /\ v.ka
                    /\ w.state = COMPLETE => w.out = 0
                    => v.out = 0
<1>1. CASE w.doc > 0 /\ WriteFails(w)
  <2> DEFINE v == [w EXCEPT !.doc = @ - 1,
                            !.cut = @ \/ (w.open /\ ~w.rst)]
  <2>1. FileWrite(w) = v
    BY <1>1 DEF FileWrite
  <2>2. /\ v.hdr = w.hdr /\ v.state = w.state /\ v.out = w.out
        /\ v.ka = w.ka /\ v.late = w.late /\ v.fin = w.fin
    BY DEF WebsType
  <2>3. w.doc # 0
    BY <1>1
  <2>4. QED BY <2>1, <2>2, <2>3
<1>2. CASE ~(w.doc > 0 /\ WriteFails(w))
  <2> DEFINE k == Least(w.doc, w.room)
             a == IF w.doc > 0 THEN 0 ELSE w.age
             l == w.late \/ (w.fin /\ w.doc > 0)
             s == [w EXCEPT !.doc = @ - k, !.room = @ - k, !.age = a,
                            !.late = l]
  <2>1. w.doc - k \in Document /\ w.room - k \in Room /\ a \in Age
        /\ l \in BOOLEAN
    BY Drain, Bounds DEF WebsType
  <2>2. FileWrite(w) = IF s.doc = 0 THEN Done(s) ELSE s
    BY <1>2 DEF FileWrite
  <2>3. w.doc = 0 => k = 0
    BY CoreAssumption DEF WebsType, Room, Least
  <2> HIDE DEF k, a
  <2>4. /\ s \in WebsType /\ s.hdr = w.hdr /\ s.state = w.state
        /\ s.out = w.out /\ s.ka = w.ka /\ s.fin = w.fin
        /\ s.late = l /\ s.doc = w.doc - k
    <3> HIDE DEF l
    <3>1. s \in WebsType
      BY <2>1 DEF WebsType
    <3>2. QED BY <3>1 DEF WebsType
  <2>5. (w.fin => w.doc = 0) => s.late = w.late /\ (s.fin => s.doc = 0)
    BY <2>3, <2>4 DEF WebsType
  <2> HIDE DEF s
  <2>6. CASE s.doc = 0
    BY <2>2, <2>4, <2>5, <2>6, DoneMakes
  <2>7. CASE s.doc # 0
    BY <2>2, <2>4, <2>5, <2>7
  <2>8. QED BY <2>6, <2>7
<1>3. QED BY <1>1, <1>2

(***************************************************************************)
(* The routines that are not output routines: what they return is a        *)
(* connection.                                                             *)
(***************************************************************************)

\* websCancelTimeout and complete(wp, 0) (http.c:1521, 572).
LEMMA CloseConnType ==
  ASSUME NEW w \in WebsType
  PROVE  CloseConn(w) \in WebsType
<1> DEFINE t == IF w.timeout THEN NoTimer ELSE w.timer
           x == [w EXCEPT !.timeout = FALSE, !.timer = t]
<1>1. t \in Timer
  BY Bounds DEF WebsType
<1>2. x = CancelTimeout(w)
  BY DEF CancelTimeout
<1> HIDE DEF t
<1>3. x \in WebsType
  BY <1>1 DEF WebsType
<1> HIDE DEF x
<1> DEFINE nil == << >>
           none == {}
           x2 == [x EXCEPT !.open = FALSE, !.mask = none, !.resv = FALSE,
                           !.sockEof = FALSE]
           y == [x2 EXCEPT !.net = nil, !.owe = 0, !.shut = FALSE,
                           !.rst = FALSE, !.room = RoomMax]
           z == [y EXCEPT !.rx = nil, !.state = BEGIN, !.closed = TRUE]
<1>4. nil \in Seq(Pieces) /\ none \in SUBSET Interest
  OBVIOUS
<1>5. CloseConn(w) = z
  BY <1>2 DEF CloseConn, CloseSocket
<1> HIDE DEF nil, none
<1>6. y \in WebsType
  <2>1. x2 \in WebsType
    BY ZenonT(60), <1>3, <1>4 DEF WebsType
  <2> HIDE DEF x2
  <2>2. QED BY ZenonT(60), <2>1, <1>4, Bounds DEF WebsType
<1> HIDE DEF y
<1>7. z \in WebsType
  BY <1>4, <1>6, StateValues DEF WebsType
<1>8. QED BY <1>5, <1>7

\* reuseConn (http.c:515).
LEMMA ReuseConnType ==
  ASSUME NEW w \in WebsType
  PROVE  ReuseConn(w) \in WebsType
<1> DEFINE r == w.resv \/ w.rx # << >>
           m == {"R"}
           v1 == [w EXCEPT !.state = BEGIN, !.closed = FALSE, !.fin = FALSE,
                           !.hdr = FALSE, !.rem = 0]
           v2 == [v1 EXCEPT !.out = 0, !.writer = FALSE, !.doc = 0,
                            !.late = FALSE, !.cut = FALSE]
           v == [v2 EXCEPT !.age = WEBS_TIMEOUT, !.resv = r,
                           !.mask = m]
<1>1. r \in BOOLEAN /\ m \in SUBSET Interest
  BY DEF WebsType, Interest
<1>2. ReuseConn(w) = v
  BY DEF ReuseConn
<1> HIDE DEF r, m
<1>3. v1 \in WebsType
  BY Bounds, StateValues DEF WebsType
<1> HIDE DEF v1
<1>4. v2 \in WebsType
  BY ZenonT(60), <1>3, Bounds DEF WebsType
<1> HIDE DEF v2
<1>5. v \in WebsType
  BY ZenonT(60), <1>1, <1>4, Bounds DEF WebsType
<1>6. QED BY <1>2, <1>5

\* websFree (http.c:529), and an object before websAlloc.
LEMMA FreeType ==
  /\ NoWebs \in WebsType
  /\ \A w \in WebsType : Free(w) \in WebsType
<1>1. NoWebs \in WebsType
  BY Bounds, StateValues DEF NoWebs, WebsType
<1>2. ASSUME NEW w \in WebsType PROVE Free(w) \in WebsType
  <2> DEFINE t == IF w.timeout THEN NoTimer ELSE w.timer
  <2>1. t \in Timer
    BY Bounds DEF WebsType
  <2>2. CancelTimeout(w).timer = t
    BY DEF CancelTimeout, WebsType
  <2> HIDE DEF t
  <2>3. [NoWebs EXCEPT !.timer = t] \in WebsType
    BY <1>1, <2>1 DEF WebsType
  <2>4. QED BY <2>2, <2>3 DEF Free
<1>3. QED BY <1>1, <1>2

\* What follows a header is a sequence of pieces.
LEMMA HeaderType ==
  ASSUME NEW S, NEW rx \in Seq(S), HeaderReady(rx)
  PROVE  AfterHeader(rx) \in Seq(S)
<1>1. rx # << >>
  BY DEF HeaderReady
<1>2. Tail(rx) \in Seq(S) /\ Len(Tail(rx)) = Len(rx) - 1
  BY <1>1
<1>3. Head(rx) = "frag" => Len(rx) > 1
  BY DEF HeaderReady, Headers
<1>4. Head(rx) = "frag" => Tail(rx) # << >>
  <2> DEFINE t == Tail(rx)
  <2>1. Head(rx) = "frag" => Len(t) # 0
    BY <1>2, <1>3
  <2>2. Len(<< >>) = 0
    OBVIOUS
  <2> HIDE DEF t
  <2>3. t = << >> => Len(t) = 0
    BY <2>2
  <2>4. QED BY <2>1, <2>3 DEF t
<1>5. Head(rx) = "frag" => Tail(Tail(rx)) \in Seq(S)
  BY <1>2, <1>4
<1>6. QED BY <1>2, <1>5 DEF AfterHeader

\* parseIncoming (http.c:852), once it does not wait.
LEMMA ParseIncomingType ==
  ASSUME NEW w \in WebsType
  PROVE  ParseIncoming(w) \in WebsType
<1>1. CASE ~HeaderReady(w.rx)
  BY <1>1, ErrorKept DEF ParseIncoming, Kept
<1>2. CASE HeaderReady(w.rx)
  <2> DEFINE x == [w EXCEPT !.rx = AfterHeader(w.rx)]
             kind == HeaderOf(w.rx)
             r == IF kind = "post" THEN PostLen ELSE 0
             s == IF kind = "post" THEN CONTENT ELSE READY
             k == kind # "close"
  <2>1. AfterHeader(w.rx) \in Seq(Pieces)
    BY <1>2, HeaderType DEF WebsType
  <2>2. x \in WebsType
    BY <2>1 DEF WebsType
  <2>3. Refused(w) \in WebsType
    <3> HIDE DEF x
    <3>1. Error(x, TRUE) \in WebsType
      BY <2>2, ErrorKept DEF Kept
    <3>2. [Error(x, TRUE) EXCEPT !.state = READY] \in WebsType
      BY <3>1, StateValues DEF WebsType
    <3>3. QED BY <3>1, <3>2 DEF Refused, x
  <2>4. Accepted(w, kind) \in WebsType
    <3>1. r \in Body /\ s \in States /\ k \in BOOLEAN
      BY Bounds, StateValues
    <3>2. Accepted(w, kind) = [w EXCEPT !.rx = AfterHeader(w.rx),
                                        !.ka = k, !.rem = r, !.state = s]
      BY DEF Accepted
    <3> HIDE DEF r, s, k
    <3>3. QED BY ZenonT(60), <2>1, <3>1, <3>2 DEF WebsType
  <2>5. QED BY <1>2, <2>3, <2>4 DEF ParseIncoming
<1>3. QED BY <1>1, <1>2

\* filterChunkData (http.c:1196) takes what has arrived of the body.
LEMMA TakeBodyType ==
  ASSUME NEW w \in WebsType
  PROVE  TakeBody(w) \in WebsType
<1> DEFINE n == Least(w.rem, Len(w.rx))
           t == SubSeq(w.rx, n + 1, Len(w.rx))
<1>1. w.rem \in Body /\ w.rx \in Seq(Pieces)
  BY DEF WebsType
<1>2. n \in Nat /\ w.rem - n \in Body
  BY <1>1, CoreAssumption DEF Body, Least
<1>3. t \in Seq(Pieces)
  <2> HIDE DEF n
  <2>1. QED BY <1>1, <1>2
<1>4. TakeBody(w) = [w EXCEPT !.rx = t, !.rem = @ - n]
  BY DEF TakeBody
<1> HIDE DEF n, t
<1>5. QED BY ZenonT(60), <1>2, <1>3, <1>4 DEF WebsType

\* processContent at the end of the body (http.c:1163).
LEMMA BodyDoneType ==
  ASSUME NEW w \in WebsType
  PROVE  BodyDone(w) \in WebsType
BY StateValues DEF BodyDone, WebsType

\* writeEvent (http.c:2114) is an output routine.
LEMMA WriteEventKept ==
  ASSUME NEW w \in WebsType PROVE Kept(WriteEvent(w), w)
<1> DEFINE f == IF w.out > 0 THEN Flush(w) ELSE w
<1>1. Kept(f, w) /\ f \in WebsType
  BY FlushKept, KeptRefl DEF Kept
<1>2. WriteEvent(w) = IF f.out = 0 /\ f.writer THEN FileWrite(f) ELSE f
  BY DEF WriteEvent
<1> HIDE DEF f
<1>3. QED BY <1>1, <1>2, FileWriteKept, KeptTrans

\* Only the background writer can end the response in it.
LEMMA WriteEventMakes ==
  ASSUME NEW w \in WebsType
  PROVE  WriteEvent(w).fin => w.fin \/ w.writer
<1> DEFINE f == IF w.out > 0 THEN Flush(w) ELSE w
<1>1. f.fin = w.fin /\ f.writer = w.writer
  BY FlushKept, FlushMakes DEF Kept
<1>2. WriteEvent(w) = IF f.out = 0 /\ f.writer THEN FileWrite(f) ELSE f
  BY DEF WriteEvent
<1> HIDE DEF f
<1>3. QED BY <1>1, <1>2

\* readEvent (http.c:773).
LEMMA ReadSocketType ==
  ASSUME NEW w \in WebsType
  PROVE  ReadSocket(w) \in WebsType
<1>1. [w EXCEPT !.age = 0, !.sockEof = TRUE] \in WebsType
  BY Bounds DEF WebsType
<1> DEFINE all == w.rx \o w.net
           nil == << >>
<1>2. all \in Seq(Pieces) /\ nil \in Seq(Pieces)
  BY DEF WebsType
<1>3. ReadSocket(w) = IF ReadsEof(w)
                      THEN [w EXCEPT !.age = 0, !.sockEof = TRUE]
                      ELSE [w EXCEPT !.age = 0, !.rx = all, !.net = nil]
  BY DEF ReadSocket
<1> HIDE DEF all, nil
<1>4. [w EXCEPT !.age = 0, !.rx = all, !.net = nil] \in WebsType
  BY <1>2, Bounds DEF WebsType
<1>5. QED BY <1>1, <1>3, <1>4

\* websAccept (http.c:656).
LEMMA AcceptType ==
  ASSUME NEW w \in WebsType
  PROVE  Accepting(w) \in WebsType /\ AcceptFailed(w) \in WebsType
BY ZenonT(60), FreeType, Bounds DEF Accepting, AcceptFailed, WebsType

\* What the client sends.
LEMMA SentType ==
  ASSUME NEW w \in WebsType, NEW p \in Pieces, CanSend(w, p)
  PROVE  Sent(w, p) \in WebsType
<1> DEFINE o == CASE p = "data" -> w.owe - 1
                  [] p = "frag" -> -1
                  [] p = "huge" -> -2
                  [] p = "post" -> PostLen
                  [] OTHER      -> 0
           n == Append(w.net, p)
<1>1. w.owe \in Owed /\ n \in Seq(Pieces)
  BY DEF WebsType
<1>2. p = "data" => w.owe > 0
  BY DEF CanSend
<1>3. o \in Owed
  <2>1. p = "data" => w.owe - 1 \in Owed
    BY <1>1, <1>2, CoreAssumption DEF Owed
  <2>2. QED BY <2>1, Bounds
<1>4. Sent(w, p) = [w EXCEPT !.net = n, !.owe = o]
  BY DEF Sent
<1> HIDE DEF o, n
<1>5. QED BY ZenonT(60), <1>1, <1>3, <1>4 DEF WebsType

(***************************************************************************)
(* What complete leaves of a connection.                                   *)
(***************************************************************************)

\* complete(wp, 0): no socket, no timer, nothing to parse.
LEMMA CloseConnMakes ==
  ASSUME NEW w \in WebsType
  PROVE  LET v == CloseConn(w)
         IN /\ v.live = w.live /\ v.fin = w.fin /\ v.ka = w.ka
            /\ v.late = w.late /\ v.cut = w.cut /\ v.doc = w.doc
            /\ v.hdr = w.hdr /\ v.out = w.out /\ v.rem = w.rem
            /\ v.writer = w.writer
            /\ v.rx = << >> /\ v.net = << >> /\ v.state = BEGIN /\ v.closed
            /\ ~v.open /\ ~v.shut /\ ~v.rst /\ ~v.sockEof /\ v.mask = {}
            /\ v.owe = 0
<1> DEFINE v == CloseConn(w)
<1>1. v = [w EXCEPT !.timeout = FALSE,
                    !.timer = IF w.timeout THEN NoTimer ELSE w.timer,
                    !.open = FALSE, !.mask = {}, !.resv = FALSE,
                    !.sockEof = FALSE, !.net = << >>, !.owe = 0,
                    !.shut = FALSE, !.rst = FALSE, !.room = RoomMax,
                    !.rx = << >>, !.state = BEGIN, !.closed = TRUE]
  BY DEF CloseConn, CloseSocket, CancelTimeout
<1> HIDE DEF v
<1>2. /\ v.live = w.live /\ v.fin = w.fin /\ v.ka = w.ka
      /\ v.late = w.late /\ v.cut = w.cut /\ v.doc = w.doc
      /\ v.hdr = w.hdr
  BY <1>1 DEF WebsType
<1>3. v.out = w.out /\ v.rem = w.rem /\ v.writer = w.writer
  BY <1>1 DEF WebsType
<1>4. v.rx = << >> /\ v.net = << >> /\ v.state = BEGIN /\ v.closed
  BY <1>1 DEF WebsType
<1>5. /\ ~v.open /\ ~v.shut /\ ~v.rst /\ ~v.sockEof /\ v.mask = {}
      /\ v.owe = 0
  BY <1>1 DEF WebsType
<1>6. QED BY <1>2, <1>3, <1>4, <1>5 DEF v

\* reuseConn: a new request, with what has arrived of it.
LEMMA ReuseConnMakes ==
  ASSUME NEW w \in WebsType
  PROVE  LET v == ReuseConn(w)
         IN /\ v.live = w.live /\ v.open = w.open /\ v.ka = w.ka
            /\ v.rx = w.rx /\ v.net = w.net /\ v.owe = w.owe
            /\ v.shut = w.shut /\ v.rst = w.rst /\ v.sockEof = w.sockEof
            /\ v.state = BEGIN /\ v.rem = 0 /\ v.out = 0 /\ v.doc = 0
            /\ ~v.fin /\ ~v.hdr /\ ~v.writer /\ ~v.late /\ ~v.cut
            /\ ~v.closed /\ v.mask = {"R"}
<1> DEFINE v == ReuseConn(w)
<1>1. v = [w EXCEPT !.state = BEGIN, !.closed = FALSE, !.fin = FALSE,
                    !.hdr = FALSE, !.rem = 0, !.out = 0, !.writer = FALSE,
                    !.doc = 0, !.late = FALSE, !.cut = FALSE,
                    !.age = WEBS_TIMEOUT, !.resv = w.resv \/ w.rx # << >>,
                    !.mask = {"R"}]
  BY DEF ReuseConn, WebsType
<1> HIDE DEF v
<1>2. /\ v.live = w.live /\ v.open = w.open /\ v.ka = w.ka
      /\ v.rx = w.rx /\ v.net = w.net /\ v.owe = w.owe
  BY <1>1 DEF WebsType
<1>3. v.shut = w.shut /\ v.rst = w.rst /\ v.sockEof = w.sockEof
  BY <1>1 DEF WebsType
<1>4. v.state = BEGIN /\ v.rem = 0 /\ v.out = 0 /\ v.doc = 0
  BY <1>1 DEF WebsType
<1>5. /\ ~v.fin /\ ~v.hdr /\ ~v.writer /\ ~v.late /\ ~v.cut
      /\ ~v.closed /\ v.mask = {"R"}
  BY <1>1 DEF WebsType
<1>6. QED BY <1>2, <1>3, <1>4, <1>5 DEF v

(***************************************************************************)
(* Type correctness.                                                       *)
(***************************************************************************)

\* The connection the thread works on, and one more assignment to it.
LEMMA SetType ==
  ASSUME TypeOK, NEW v \in WebsType, Set(v)
  PROVE  conn' \in [Conns -> WebsType]
BY DEF Set, TypeOK

\* Here is a connection.
LEMMA HereType == ASSUME TypeOK PROVE Here \in WebsType /\ pc.c \in Conns
BY DEF TypeOK, PcType, Here

\* The thread stays at a position of PcType.
LEMMA GotoType ==
  ASSUME TypeOK, NEW site \in Sites, Goto(site)
  PROVE  pc' \in PcType
BY DEF TypeOK, PcType, Goto

\* A websPump goes on, or returns to where it was called.
LEMMA PumpType ==
  ASSUME TypeOK, pc.at \in PumpSites, Proceed \/ Return
  PROVE  pc' \in PcType
<1>1. ReturnOf[pc.at] \in Sites
  BY DEF ReturnOf, PumpSites, Sites
<1>2. CASE Proceed
  BY <1>2 DEF Proceed, TypeOK
<1>3. CASE Return
  BY <1>1, <1>3, GotoType DEF Return
<1>4. QED BY <1>2, <1>3

\* Every step of a handler keeps the types.
LEMMA HandleType == ASSUME TypeOK, Handle PROVE TypeOK'
<1> USE HereType
<1>1. ASSUME Read PROVE TypeOK'
  <2>1. conn' \in [Conns -> WebsType]
    BY <1>1, ReadSocketType, SetType DEF Read
  <2>2. pc' \in PcType
    <3> DEFINE got == IF ReadsEof(Here) THEN "eof"
                      ELSE IF Here.net # << >> THEN "data" ELSE "nothing"
               at == IF got = "data" \/ Here.state > BEGIN
                     THEN "pumpRead" ELSE "tail"
    <3>1. pc' = [pc EXCEPT !.got = got, !.at = at]
      BY <1>1 DEF Read
    <3>2. got \in {"eof", "data", "nothing"} /\ at \in Sites
      BY DEF Sites, PumpSites
    <3> HIDE DEF got, at
    <3>3. QED BY <3>1, <3>2 DEF TypeOK, PcType
  <2>3. QED BY <1>1, <2>1, <2>2 DEF Read, TypeOK
<1>2. ASSUME ReadTail PROVE TypeOK'
  <2> DEFINE m == IF Here.state < READY THEN Here.mask \cup {"R"} ELSE Here.mask
  <2>1. m \in SUBSET Interest
    BY DEF WebsType, Interest
  <2>2. [Here EXCEPT !.mask = m] \in WebsType
    <3> HIDE DEF m, Here
    <3>1. QED BY <2>1 DEF WebsType
  <2>3. CloseConn(Here) \in WebsType /\ Error(Here, FALSE) \in WebsType
    BY CloseConnType, ErrorKept DEF Kept
  <2>4. conn' \in [Conns -> WebsType]
    BY <1>2, <2>2, <2>3, SetType DEF ReadTail, TypeOK
  <2>5. pc' \in PcType
    BY <1>2, GotoType DEF ReadTail, Sites, PumpSites
  <2>6. QED BY <1>2, <2>4, <2>5 DEF ReadTail, TypeOK
<1>3. ASSUME Lost PROVE TypeOK'
  <2>1. conn' \in [Conns -> WebsType]
    BY <1>3, CloseConnType, SetType DEF Lost
  <2>2. pc' \in PcType
    BY <1>3, GotoType DEF Lost, Sites
  <2>3. QED BY <1>3, <2>1, <2>2 DEF Lost, TypeOK
<1>4. ASSUME Write PROVE TypeOK'
  <2>1. WriteEvent(Here) \in WebsType
    BY WriteEventKept DEF Kept
  <2>2. conn' \in [Conns -> WebsType]
    BY <1>4, <2>1, SetType DEF Write
  <2>3. pc' \in PcType
    BY <1>4, GotoType DEF Write, Sites, PumpSites
  <2>4. QED BY <1>4, <2>2, <2>3 DEF Write, TypeOK
<1>5. ASSUME EndEvent PROVE TypeOK'
  <2>1. Free(Here) \in WebsType
    BY FreeType
  <2>2. conn' \in [Conns -> WebsType]
    BY <1>5, <2>1, SetType DEF EndEvent
  <2>3. pc' \in PcType
    BY <1>5, GotoType DEF EndEvent, Sites
  <2>4. QED BY <1>5, <2>2, <2>3 DEF EndEvent, TypeOK
<1>6. ASSUME PumpBegin PROVE TypeOK'
  <2>1. conn' \in [Conns -> WebsType]
    BY <1>6, ParseIncomingType, SetType DEF PumpBegin, TypeOK
  <2>2. pc' \in PcType
    BY <1>6, PumpType DEF PumpBegin, Pumping
  <2>3. QED BY <1>6, <2>1, <2>2 DEF PumpBegin, TypeOK
<1>7. ASSUME PumpContent PROVE TypeOK'
  <2> DEFINE w == TakeBody(Here)
             e == Error(w, FALSE)
  <2>1. w \in WebsType
    BY TakeBodyType
  <2>2. e \in WebsType /\ Error(w, TRUE) \in WebsType
    <3> HIDE DEF w
    <3>1. QED BY <2>1, ErrorKept DEF Kept
  <2>3. BodyDone(w) \in WebsType /\ BodyDone(e) \in WebsType
    BY <2>1, <2>2, BodyDoneType
  <2>4. \/ conn' = conn
        \/ \E v \in {w, e, BodyDone(w), BodyDone(e), Error(w, TRUE)} : Set(v)
    BY <1>7 DEF PumpContent
  <2>5. conn' \in [Conns -> WebsType]
    <3> HIDE DEF w, e
    <3>1. QED BY <2>1, <2>2, <2>3, <2>4, SetType DEF TypeOK
  <2>6. pc' \in PcType
    BY <1>7, PumpType DEF PumpContent, Pumping
  <2>7. QED BY <1>7, <2>5, <2>6 DEF PumpContent, TypeOK
<1>8. ASSUME PumpReady PROVE TypeOK'
  <2>1. PICK h \in Handlers, n \in 0 .. DocMax + BlockMax :
          /\ Set(CASE h = "error"  -> Error(Here, FALSE)
                   [] h = "action" -> ServeAction(Here, n)
                   [] h = "file"   -> ServeFile(Here, n)
                   [] h = "cgi"    -> Running(Here))
          /\ h = "file" => n <= DocMax
          /\ job' = [job EXCEPT ![pc.c] = IF h = "cgi" THEN "started" ELSE @]
    BY <1>8 DEF PumpReady
  <2>2. h \in {"error", "action", "file", "cgi"} /\ n \in Nat
    BY ServerAssumption, CoreAssumption
  <2>3. h = "file" => n \in Document
    BY <2>1, <2>2, CoreAssumption DEF Document
  <2>4. /\ Error(Here, FALSE) \in WebsType
        /\ ServeAction(Here, n) \in WebsType
        /\ h = "file" => ServeFile(Here, n) \in WebsType
        /\ Running(Here) \in WebsType
    BY <2>2, <2>3, ErrorKept, ServeActionKept, ServeFileKept, RunningType
       DEF Kept
  <2>5. conn' \in [Conns -> WebsType]
    <3> HIDE DEF Here
    <3>1. QED BY <2>1, <2>2, <2>4, SetType
  <2>6. pc' \in PcType
    BY <1>8, PumpType DEF PumpReady, Pumping
  <2>7. job' \in [Conns -> {"none", "started", "output"}]
    BY <2>1 DEF TypeOK
  <2>8. QED BY <1>8, <2>5, <2>6, <2>7 DEF PumpReady, TypeOK
<1>9. ASSUME PumpRunning PROVE TypeOK'
  <2>1. pc' \in PcType
    BY <1>9, PumpType DEF PumpRunning, Pumping
  <2>2. QED BY <1>9, <2>1 DEF PumpRunning, TypeOK
<1>10. ASSUME PumpComplete PROVE TypeOK'
  <2>1. Complete(Here) \in WebsType
    BY ReuseConnType, CloseConnType DEF Complete
  <2>2. conn' \in [Conns -> WebsType]
    BY <1>10, <2>1, SetType DEF PumpComplete
  <2>3. pc' \in PcType
    BY <1>10, PumpType DEF PumpComplete, Pumping
  <2>4. QED BY <1>10, <2>2, <2>3 DEF PumpComplete, TypeOK
<1>11. QED
  BY <1>1, <1>2, <1>3, <1>4, <1>5, <1>6, <1>7, <1>8, <1>9, <1>10
     DEF Handle, Pump

\* Accepting, the events select reports, the timers and the CGI programs.
LEMMA ServerType ==
  ASSUME TypeOK, NEW c \in Conns, Server(c) PROVE TypeOK'
<1>1. conn[c] \in WebsType /\ conn \in [Conns -> WebsType]
  BY DEF TypeOK
<1>2. ASSUME Accept(c) PROVE TypeOK'
  <2>1. Accepting(conn[c]) \in WebsType
    BY <1>1, AcceptType
  <2>2. conn' \in [Conns -> WebsType]
    BY <1>1, <1>2, <2>1 DEF Accept
  <2>3. pc' \in PcType
    BY <1>2 DEF Accept, PcType, Sites, Interest
  <2>4. budget' \in 0 .. Budget
    BY <1>2, ServerAssumption DEF Accept, TypeOK
  <2>5. QED BY <1>2, <2>2, <2>3, <2>4 DEF Accept, TypeOK
<1>3. ASSUME AcceptFails(c) PROVE TypeOK'
  <2>1. AcceptFailed(conn[c]) \in WebsType
    BY <1>1, AcceptType
  <2>2. conn' \in [Conns -> WebsType]
    BY <1>1, <1>3, <2>1 DEF AcceptFails
  <2>3. budget' \in 0 .. Budget
    BY <1>3, ServerAssumption DEF AcceptFails, TypeOK
  <2>4. QED BY <1>3, <2>2, <2>3 DEF AcceptFails, TypeOK
<1>4. ASSUME SocketEvent(c) PROVE TypeOK'
  <2>1. [conn[c] EXCEPT !.resv = FALSE] \in WebsType
    BY <1>1 DEF WebsType
  <2>2. conn' = [conn EXCEPT ![c] = [conn[c] EXCEPT !.resv = FALSE]]
    BY <1>4 DEF SocketEvent
  <2>3. conn' \in [Conns -> WebsType]
    BY <1>1, <2>1, <2>2
  <2>4. Events(c) \in SUBSET Interest
    <3>1. conn[c].mask \in SUBSET Interest
      BY <1>1 DEF WebsType
    <3>2. QED BY <3>1 DEF Events, SocketReady
  <2>5. pc' \in PcType
    BY <1>4, <2>4 DEF SocketEvent, PcType, Sites
  <2>6. QED BY <1>4, <2>3, <2>5 DEF SocketEvent, TypeOK
<1>5. ASSUME CheckTimeout(c) PROVE TypeOK'
  <2> DEFINE w == conn[c]
             e == IF w.state # BEGIN /\ ~w.hdr THEN Error(w, FALSE) ELSE w
             r == [w EXCEPT !.timer = WEBS_TIMEOUT - w.age]
  <2>1. e \in WebsType
    BY <1>1, ErrorKept DEF Kept
  <2>2. Free(CloseConn(e)) \in WebsType
    <3> HIDE DEF e
    <3>1. QED BY <2>1, CloseConnType, FreeType
  <2>3. r \in WebsType
    <3> DEFINE t == WEBS_TIMEOUT - w.age
    <3>1. w.age \in Age
      BY <1>1 DEF WebsType
    <3>2. t \in Timer
      BY <3>1, CoreAssumption DEF Age, Timer
    <3> HIDE DEF t
    <3>3. [w EXCEPT !.timer = t] \in WebsType
      BY <1>1, <3>2 DEF WebsType
    <3>4. QED BY <3>3 DEF t
  <2>4. \/ conn' = [conn EXCEPT ![c] = Free(CloseConn(e))]
        \/ conn' = [conn EXCEPT ![c] = r]
    BY <1>5 DEF CheckTimeout
  <2>5. conn' \in [Conns -> WebsType]
    <3> HIDE DEF e, r, w
    <3>1. QED BY <1>1, <2>2, <2>3, <2>4
  <2>6. QED BY <1>5, <2>5 DEF CheckTimeout, TypeOK
<1>6. ASSUME CgiPoll(c) PROVE TypeOK'
  <2>1. PICK n \in 0 .. BlockMax, exited \in BOOLEAN :
          \/ /\ conn' = conn /\ pc' = pc
             /\ job' = [job EXCEPT ![c] = "none"]
          \/ /\ \E v \in {Gather(conn[c], n), Done(Gather(conn[c], n)),
                          Error(Gather(conn[c], n), FALSE)} :
                  conn' = [conn EXCEPT ![c] = v]
             /\ \E j \in {"none", "started", "output"} :
                  job' = [job EXCEPT ![c] = j]
             /\ pc' = pc \/ pc' = [pc EXCEPT !.at = "pumpCgi", !.c = c]
    BY <1>6 DEF CgiPoll
  <2> DEFINE g == Gather(conn[c], n)
  <2>2. n \in {0, 1, 2}
    BY ServerAssumption
  <2>3. g \in WebsType
    BY <1>1, <2>2, BlocksKept DEF Gather, Kept
  <2>4. Done(g) \in WebsType /\ Error(g, FALSE) \in WebsType
    <3> HIDE DEF g
    <3>1. QED BY <2>3, DoneKept, ErrorKept DEF Kept
  <2> HIDE DEF g
  <2>5. conn' \in [Conns -> WebsType]
    BY <1>1, <2>1, <2>3, <2>4 DEF g
  <2>6. job' \in [Conns -> {"none", "started", "output"}]
    BY <2>1 DEF TypeOK
  <2>7. pc' \in PcType
    BY <2>1 DEF TypeOK, PcType, Sites, PumpSites
  <2>8. QED BY <1>6, <2>5, <2>6, <2>7 DEF CgiPoll, TypeOK
<1>7. QED BY <1>2, <1>3, <1>4, <1>5, <1>6 DEF Server

\* What the clients do.
LEMMA ClientType ==
  ASSUME TypeOK, NEW c \in Conns, Client(c) PROVE TypeOK'
<1>1. conn[c] \in WebsType /\ conn \in [Conns -> WebsType]
  BY DEF TypeOK
<1>2. ASSUME NEW v \in WebsType, conn' = [conn EXCEPT ![c] = v],
             UNCHANGED <<pc, job>>, budget' \in 0 .. Budget
      PROVE  TypeOK'
  BY <1>1, <1>2 DEF TypeOK
<1>3. budget \in 0 .. Budget
  BY DEF TypeOK
<1>4. CASE ClientRead(c)
  <2> DEFINE r == conn[c].room + 1
  <2>1. r \in Room
    <3>1. conn[c].room \in Room
      BY <1>1 DEF WebsType
    <3>2. QED BY <1>4, <3>1, CoreAssumption DEF ClientRead, Room
  <2>2. conn' = [conn EXCEPT ![c] = [conn[c] EXCEPT !.room = r]]
    BY <1>4 DEF ClientRead
  <2> HIDE DEF r
  <2>3. [conn[c] EXCEPT !.room = r] \in WebsType
    BY <1>1, <2>1 DEF WebsType
  <2>4. QED BY <1>2, <1>3, <1>4, <2>2, <2>3 DEF ClientRead
<1>5. CASE ClientShut(c)
  <2>1. [conn[c] EXCEPT !.shut = TRUE] \in WebsType
    BY <1>1 DEF WebsType
  <2>2. conn' = [conn EXCEPT ![c] = [conn[c] EXCEPT !.shut = TRUE]]
    BY <1>5 DEF ClientShut
  <2>3. QED BY <1>2, <1>3, <1>5, <2>1, <2>2 DEF ClientShut
<1>6. CASE ClientReset(c)
  <2> DEFINE nil == << >>
             v == [conn[c] EXCEPT !.rst = TRUE, !.net = nil]
  <2>1. nil \in Seq(Pieces)
    OBVIOUS
  <2>2. conn' = [conn EXCEPT ![c] = v]
    BY <1>6 DEF ClientReset
  <2> HIDE DEF nil
  <2>3. v \in WebsType
    BY <1>1, <2>1 DEF WebsType
  <2>4. QED BY <1>2, <1>3, <1>6, <2>2, <2>3 DEF ClientReset
<1>7. CASE \E p \in Sends : ClientSend(c, p)
  <2>1. PICK p \in Sends : ClientSend(c, p)
    BY <1>7
  <2>2. p \in Pieces
    BY ServerAssumption
  <2>3. Sent(conn[c], p) \in WebsType
    BY <1>1, <2>1, <2>2, SentType DEF ClientSend
  <2>4. budget' \in 0 .. Budget
    BY <1>3, <2>1, ServerAssumption DEF ClientSend
  <2>5. QED BY <1>2, <2>1, <2>3, <2>4 DEF ClientSend
<1>8. QED BY <1>4, <1>5, <1>6, <1>7 DEF Client

\* Time passes.
LEMMA TickType == ASSUME TypeOK, Tick PROVE TypeOK'
<1> DEFINE t(c) == IF conn[c].timer > 0 THEN conn[c].timer - 1
                                        ELSE conn[c].timer
           a(c) == IF conn[c].live THEN Least(conn[c].age + 1, WEBS_TIMEOUT)
                                   ELSE conn[c].age
           v(c) == [conn[c] EXCEPT !.timer = t(c), !.age = a(c)]
<1>1. ASSUME NEW c \in Conns PROVE v(c) \in WebsType
  <2>1. conn[c] \in WebsType
    BY DEF TypeOK
  <2>2. conn[c].timer \in Timer /\ conn[c].age \in Age
    BY <2>1 DEF WebsType
  <2>3. t(c) \in Timer
    BY <2>2, CoreAssumption DEF Timer, NoTimer
  <2>4. a(c) \in Age
    BY <2>2, CoreAssumption DEF Age, Least
  <2> HIDE DEF t, a
  <2>5. QED BY <2>1, <2>3, <2>4 DEF WebsType
<1>2. conn' = [c \in Conns |-> v(c)]
  BY DEF Tick
<1> HIDE DEF v
<1>3. conn' \in [Conns -> WebsType]
  BY <1>1, <1>2
<1>4. QED BY <1>3 DEF Tick, TypeOK

\* Every connection, the position of the thread, the list of CGI programs
\* and the clients' budget are always of their types: in particular the
\* output buffer never holds more than it can (BIT_GOAHEAD_LIMIT_BUFFER),
\* rxRemaining never goes below zero and a timer is never due in the past.
THEOREM TypeCorrect == Spec => []TypeOK
<1>1. Init => TypeOK
  <2>1. NoWebs \in WebsType
    BY FreeType
  <2>2. QED
    BY <2>1, ServerAssumption DEF Init, TypeOK, PcType, Sites, Interest
<1>2. TypeOK /\ [Next]_vars => TypeOK'
  <2> SUFFICES ASSUME TypeOK, [Next]_vars PROVE TypeOK'
    OBVIOUS
  <2>1. CASE Handle
    BY <2>1, HandleType
  <2>2. CASE Tick
    BY <2>2, TickType
  <2>3. CASE \E c \in Conns : Server(c) \/ Client(c)
    BY <2>3, ServerType, ClientType
  <2>4. CASE UNCHANGED vars
    BY <2>4 DEF vars, TypeOK
  <2>5. QED BY <2>1, <2>2, <2>3, <2>4 DEF Next
<1>3. QED BY <1>1, <1>2, PTL DEF Spec

(***************************************************************************)
(* The life of a connection: its socket, its timer and its object.         *)
(*                                                                         *)
(* What breaks TimerMatches is reuseConn on a connection that complete has *)
(* already closed: it would clear WEBS_CLOSED on an object without socket  *)
(* or timer.  Only a connection with keep-alive is reused, so the          *)
(* invariant follows keep-alive: a closed connection that can still be     *)
(* completed (writeEvent runs after readEvent has closed) has lost it.     *)
(***************************************************************************)
Sound(w) ==
  /\ Timed(w)
  /\ w.mask # {} => w.live /\ ~w.orphan
  /\ w.closed => /\ w.rx = << >>
                 /\ w.state \in {BEGIN, COMPLETE}
                 /\ w.state = COMPLETE => ~w.ka
                 /\ w.fin \/ ~w.ka \/ ~w.writer
  /\ w.writer => w.closed \/ w.state \in {RUNNING, COMPLETE}
  /\ w.state = COMPLETE => w.fin \/ ~w.ka
  /\ w.state = CONTENT => w.rem # 0 \/ ~w.ka

\* A connection no handler works on.
Waiting(c) == At("select") \/ c # pc.c

\* The connection a handler works on is allocated; a closed one that no
\* handler works on (websCgiPoll leaves such) has no event and no CGI program
\* to come; after "connection lost" the reply is ended and not kept alive.
Located ==
  /\ \A c \in Conns : Waiting(c) /\ conn[c].closed =>
       conn[c].mask = {} /\ job[c] = "none"
  /\ \A c \in Conns : job[c] # "none" => ~conn[c].orphan
  /\ ~At("select") => Here.live /\ ~Here.orphan
  /\ At("read") \/ At("pumpCgi") => ~Here.closed
  /\ At("pumpCgi") => job[pc.c] = "none"
  /\ pc.at \in {"pumpLost", "lost"} =>
       Here.fin /\ ~Here.ka /\ (Here.state = BEGIN => Here.closed)

LifeInv == TypeOK /\ Located /\ \A c \in Conns : Sound(conn[c])

\* An open connection stays sound through an output routine.
LEMMA KeptSound ==
  ASSUME NEW w \in WebsType, NEW v, Kept(v, w), Sound(w),
         w.live, ~w.orphan, ~w.closed
  PROVE  Sound(v) /\ v.live /\ ~v.orphan /\ ~v.closed
BY StatesDiffer DEF Kept, Sound, Timed

\* complete(wp, 0).
LEMMA CloseConnSound ==
  ASSUME NEW w \in WebsType, Sound(w), w.live, ~w.orphan,
         w.fin \/ ~w.ka \/ ~w.writer
  PROVE  /\ Sound(CloseConn(w))
         /\ CloseConn(w).live /\ ~CloseConn(w).orphan /\ CloseConn(w).closed
         /\ CloseConn(w).rx = << >> /\ CloseConn(w).mask = {}
         /\ CloseConn(w).fin = w.fin /\ CloseConn(w).ka = w.ka
<1> DEFINE v == CloseConn(w)
<1>1. /\ v.live = w.live /\ v.orphan = w.orphan /\ v.closed = TRUE
      /\ v.open = FALSE /\ v.timeout = FALSE /\ v.mask = {}
      /\ v.timer = IF w.timeout THEN NoTimer ELSE w.timer
      /\ v.rx = << >> /\ v.state = BEGIN
      /\ v.fin = w.fin /\ v.ka = w.ka /\ v.writer = w.writer
  BY DEF CloseConn, CloseSocket, CancelTimeout, WebsType
<1> HIDE DEF v
<1>2. v.timer = NoTimer
  BY <1>1 DEF Sound, Timed
<1>3. QED BY <1>1, <1>2, StatesDiffer DEF v, Sound, Timed

\* reuseConn, on a connection that is still open.
LEMMA ReuseConnSound ==
  ASSUME NEW w \in WebsType, Sound(w), w.open
  PROVE  /\ Sound(ReuseConn(w))
         /\ ReuseConn(w).live /\ ~ReuseConn(w).orphan /\ ~ReuseConn(w).closed
<1> DEFINE v == ReuseConn(w)
<1>1. /\ v.live = w.live /\ v.orphan = w.orphan /\ v.closed = FALSE
      /\ v.open = w.open /\ v.timeout = w.timeout /\ v.timer = w.timer
      /\ v.state = BEGIN /\ v.writer = FALSE
  BY ZenonT(60) DEF ReuseConn, WebsType
<1> HIDE DEF v
<1>2. QED BY <1>1, StatesDiffer DEF v, Sound, Timed

\* complete(wp, 1).
LEMMA CompleteSound ==
  ASSUME NEW w \in WebsType, Sound(w), w.live, ~w.orphan, w.state = COMPLETE
  PROVE  /\ Sound(Complete(w)) /\ Complete(w).live /\ ~Complete(w).orphan
         /\ Complete(w).closed => /\ Complete(w).mask = {}
                                  /\ Complete(w).rx = << >>
         /\ ~w.ka => /\ Complete(w).closed
                     /\ Complete(w).fin = w.fin /\ ~Complete(w).ka
<1>1. CASE w.ka /\ w.rem = 0
  <2>1. w.open
    BY <1>1 DEF Sound, Timed
  <2>2. QED BY <1>1, <2>1, ReuseConnSound DEF Complete
<1>2. CASE ~(w.ka /\ w.rem = 0)
  <2>1. w.fin \/ ~w.ka \/ ~w.writer
    BY DEF Sound
  <2>2. Complete(w) = CloseConn(w)
    BY <1>2 DEF Complete
  <2>3. QED BY <2>1, <2>2, CloseConnSound
<1>3. QED BY <1>1, <1>2

\* parseIncoming.
LEMMA ParseIncomingSound ==
  ASSUME NEW w \in WebsType, Sound(w), w.live, ~w.orphan, ~w.closed,
         w.state = BEGIN
  PROVE  /\ Sound(ParseIncoming(w)) /\ ParseIncoming(w).live
         /\ ~ParseIncoming(w).orphan /\ ~ParseIncoming(w).closed
<1> DEFINE x == [w EXCEPT !.rx = AfterHeader(w.rx)]
           e == Error(x, TRUE)
           a == Accepted(w, HeaderOf(w.rx))
<1>1. CASE ~HeaderReady(w.rx)
  BY <1>1, ErrorKept, KeptSound DEF ParseIncoming
<1>2. CASE HeaderReady(w.rx) /\ HeaderOf(w.rx) = "bad"
  <2>1. AfterHeader(w.rx) \in Seq(Pieces)
    BY <1>2, HeaderType DEF WebsType
  <2>2. x \in WebsType /\ Sound(x) /\ x.live /\ ~x.orphan /\ ~x.closed
        /\ x.state = BEGIN /\ ~x.writer
    BY <2>1, StatesDiffer DEF WebsType, Sound, Timed
  <2> HIDE DEF x
  <2>3. Kept(e, x)
    BY <2>2, ErrorKept
  <2> HIDE DEF e
  <2>a. e \in WebsType
    BY <2>3 DEF Kept
  <2>4. Sound(e) /\ e.live /\ ~e.orphan /\ ~e.closed
    BY <2>2, <2>3, KeptSound
  <2>5. CASE e.state = COMPLETE
    BY <1>2, <2>4, <2>5 DEF ParseIncoming, Refused, e, x
  <2>6. CASE e.state # COMPLETE
    <3> DEFINE r == [e EXCEPT !.state = READY]
    <3>1. ~e.writer
      BY <2>2, <2>3, <2>6, StatesDiffer DEF Kept
    <3>2. Sound(r) /\ r.live /\ ~r.orphan /\ ~r.closed
      BY <2>a, <2>4, <3>1, StatesDiffer DEF WebsType, Sound, Timed
    <3>3. ParseIncoming(w) = r
      BY <1>2, <2>6 DEF ParseIncoming, Refused, e, x
    <3>4. QED BY <3>2, <3>3
  <2>7. QED BY <2>5, <2>6
<1>3. CASE HeaderReady(w.rx) /\ HeaderOf(w.rx) # "bad"
  <2>1. /\ a.live = w.live /\ a.orphan = w.orphan /\ a.closed = w.closed
        /\ a.open = w.open /\ a.timeout = w.timeout /\ a.timer = w.timer
        /\ a.mask = w.mask /\ a.writer = w.writer
        /\ \/ a.state = READY
           \/ a.state = CONTENT /\ a.rem = PostLen
    BY DEF Accepted, WebsType
  <2>2. ~w.writer
    BY StatesDiffer DEF Sound
  <2>3. ParseIncoming(w) = a
    BY <1>3 DEF ParseIncoming
  <2> HIDE DEF a
  <2>4. QED BY <2>1, <2>2, <2>3, CoreAssumption, StatesDiffer
            DEF Sound, Timed
<1>4. QED BY <1>1, <1>2, <1>3

\* writeEvent, on a connection that readEvent may just have closed.
LEMMA WriteEventSound ==
  ASSUME NEW w \in WebsType, Sound(w), w.live, ~w.orphan
  PROVE  Sound(WriteEvent(w)) /\ WriteEvent(w).live /\ ~WriteEvent(w).orphan
<1> DEFINE v == WriteEvent(w)
<1>1. Kept(v, w)
  BY WriteEventKept
<1>2. CASE ~w.closed
  BY <1>1, <1>2, KeptSound
<1>3. CASE w.closed
  <2>1. v.state = COMPLETE => ~v.ka
    <3>1. CASE w.state = COMPLETE
      BY <1>1, <1>3, <3>1 DEF Kept, Sound
    <3>2. CASE w.state # COMPLETE /\ w.out > 0
      <4>1. FlushFails(w)
        BY <1>3, <3>2 DEF FlushFails, WriteFails
      <4>2. Kept(Flush(w), w) /\ Flush(w) \in WebsType
        BY FlushKept DEF Kept
      <4>3. v = Flush(w) \/ v = FileWrite(Flush(w))
        BY <3>2 DEF WriteEvent
      <4>4. Kept(v, Flush(w))
        BY <4>2, <4>3, FileWriteKept, KeptRefl
      <4>5. ~Flush(w).ka
        BY <4>1 DEF Flush, WebsType
      <4>6. QED BY <4>4, <4>5 DEF Kept
    <3>3. CASE w.state # COMPLETE /\ ~(w.out > 0)
      <4>1. v = w \/ (w.writer /\ v = FileWrite(w))
        BY <3>3 DEF WriteEvent
      <4>2. CASE v = w
        BY <3>3, <4>2
      <4>3. CASE w.writer /\ v = FileWrite(w) /\ ~w.ka
        BY <1>1, <4>3 DEF Kept
      <4>4. CASE w.fin /\ v = FileWrite(w)
        <5>1. CASE w.doc > 0
          <6>1. v.state = w.state
            BY <1>3, <4>4, <5>1 DEF FileWrite, WriteFails, WebsType
          <6>2. QED BY <3>3, <6>1
        <5>2. CASE ~(w.doc > 0)
          <6> DEFINE k == Least(w.doc, w.room)
                     s == [w EXCEPT !.doc = @ - k, !.room = @ - k,
                             !.age = IF w.doc > 0 THEN 0 ELSE @,
                             !.late = @ \/ (w.fin /\ w.doc > 0)]
          <6>1. s.fin /\ s.state = w.state
            BY <4>4 DEF WebsType
          <6>2. v = Done(s) \/ v = s
            BY <4>4, <5>2 DEF FileWrite
          <6> HIDE DEF s
          <6>3. v = s
            BY <6>1, <6>2 DEF Done
          <6>4. QED BY <3>3, <6>1, <6>3
        <5>3. QED BY <5>1, <5>2
      <4>5. QED BY <1>3, <4>1, <4>2, <4>3, <4>4 DEF Sound
    <3>4. QED BY <3>1, <3>2, <3>3
  <2>2. v.state \in {BEGIN, COMPLETE}
    BY <1>1, <1>3 DEF Kept, Sound
  <2>3. v.fin \/ ~v.ka \/ ~v.writer
    BY <1>1, <1>3, <2>1, <2>2, StatesDiffer DEF Kept, Sound
  <2> HIDE DEF v
  <2>4. /\ v.rx = << >> /\ Timed(v) /\ v.live /\ ~v.orphan /\ v.closed
        /\ v.state = COMPLETE => v.fin \/ ~v.ka
        /\ v.state # CONTENT
    BY <1>1, <1>3, <2>1, <2>2, StatesDiffer DEF Kept, Sound, Timed
  <2>5. Sound(v)
    BY <1>3, <2>1, <2>2, <2>3, <2>4 DEF Sound
  <2>6. QED BY <2>4, <2>5 DEF v
<1>4. QED BY <1>2, <1>3

\* What processContent may make of a connection whose body is coming.
Follows(v, w) ==
  /\ Sound(v) /\ v.live /\ ~v.orphan /\ ~v.closed /\ v.state # BEGIN
  /\ v.ka => w.ka
  /\ w.fin => v.fin

\* The rest of processContent, by the end of the body.
AtEnd(v) == IF v.rem = 0 THEN BodyDone(v) ELSE v

\* processContent, the three ways out of it.
LEMMA ContentSound ==
  ASSUME NEW w \in WebsType, Sound(w), w.live, ~w.orphan, w.state = CONTENT
  PROVE  /\ Follows(AtEnd(TakeBody(w)), w)
         /\ Follows(Error(TakeBody(w), TRUE), w)
         /\ Follows(AtEnd(Error(TakeBody(w), FALSE)), w)
<1> DEFINE b == TakeBody(w)
           e == Error(b, FALSE)
           f == Error(b, TRUE)
<1>1. ~w.closed /\ ~w.writer
  BY StatesDiffer DEF Sound
<1>2. /\ b \in WebsType /\ b.live = w.live /\ b.orphan = w.orphan
      /\ b.closed = w.closed /\ b.open = w.open /\ b.timeout = w.timeout
      /\ b.timer = w.timer /\ b.mask = w.mask /\ b.writer = w.writer
      /\ b.state = w.state /\ b.fin = w.fin /\ b.ka = w.ka
  <2> DEFINE n == Least(w.rem, Len(w.rx))
             t == SubSeq(w.rx, n + 1, Len(w.rx))
             r == w.rem - n
  <2>1. b = [w EXCEPT !.rx = t, !.rem = r]
    BY DEF TakeBody, WebsType
  <2> HIDE DEF t, r
  <2>2. QED BY ZenonT(60), <2>1, TakeBodyType DEF WebsType
<1> HIDE DEF b
<1>3. /\ Kept(e, b) /\ e.fin /\ (b.rem # 0 => ~e.ka)
      /\ Kept(f, b) /\ f.fin /\ ~f.ka
  BY <1>2, ErrorKept
<1> HIDE DEF e, f
<1>4. ASSUME NEW v \in {b, e, f},
             v.state = CONTENT => v.rem # 0 \/ ~v.ka
      PROVE  Follows(v, w)
  <2>1. /\ v \in WebsType /\ v.live /\ ~v.orphan /\ ~v.closed
        /\ Timed(v) /\ (v.ka => w.ka) /\ (w.fin => v.fin)
        /\ v.state = CONTENT \/ (v.state = COMPLETE /\ (v.fin \/ ~v.ka))
        /\ v.writer => v.state = COMPLETE
    <3>1. CASE v = b
      BY <1>1, <1>2, <3>1 DEF Sound, Timed
    <3>2. CASE v \in {e, f}
      <4>1. Kept(v, b) /\ v.fin
        BY <1>3, <3>2
      <4>2. QED BY <1>1, <1>2, <4>1 DEF Kept, Sound, Timed
    <3>3. QED BY <3>1, <3>2
  <2>2. QED BY <1>4, <2>1, StatesDiffer DEF Follows, Sound
<1>5. ASSUME NEW v \in {b, e} PROVE Follows(BodyDone(v), w)
  <2> DEFINE d == BodyDone(v)
  <2>1. /\ v \in WebsType /\ v.live /\ ~v.orphan /\ ~v.closed
        /\ Timed(v) /\ (v.ka => w.ka) /\ (w.fin => v.fin) /\ ~v.writer
    <3>1. CASE v = b
      BY <1>1, <1>2, <3>1 DEF Sound, Timed
    <3>2. CASE v = e
      <4>1. Kept(v, b)
        BY <1>3, <3>2
      <4>2. QED BY <1>1, <1>2, <4>1 DEF Kept, Sound, Timed
    <3>3. QED BY <3>1, <3>2
  <2>2. /\ d.live = v.live /\ d.orphan = v.orphan /\ d.closed = v.closed
        /\ d.open = v.open /\ d.timeout = v.timeout /\ d.timer = v.timer
        /\ d.ka = v.ka /\ d.fin = v.fin /\ d.writer = v.writer
        /\ d.state = READY /\ d.mask = {}
    BY <2>1 DEF BodyDone, WebsType
  <2> HIDE DEF d
  <2>3. Follows(d, w)
    BY <2>1, <2>2, StatesDiffer DEF Follows, Sound, Timed
  <2>4. QED BY <2>3 DEF d
<1>6. Follows(AtEnd(b), w) /\ Follows(AtEnd(e), w) /\ Follows(f, w)
  BY <1>2, <1>3, <1>4, <1>5, StatesDiffer DEF AtEnd
<1>7. QED BY <1>6 DEF b, e, f

(***************************************************************************)
(* Steps of the thread inside a handler.                                   *)
(***************************************************************************)

\* What such a step must leave to keep the invariant.
LEMMA HandlerStep ==
  ASSUME LifeInv, TypeOK', ~At("select"), pc'.c = pc.c, pc'.at # "read",
         \A d \in Conns \ {pc.c} : conn'[d] = conn[d] /\ job'[d] = job[d],
         Sound(conn'[pc.c]), ~conn'[pc.c].orphan,
         pc'.at # "select" => conn'[pc.c].live,
         pc'.at = "select" /\ conn'[pc.c].closed =>
           conn'[pc.c].mask = {} /\ job'[pc.c] = "none",
         pc'.at = "pumpCgi" => ~conn'[pc.c].closed /\ job'[pc.c] = "none",
         pc'.at \in {"pumpLost", "lost"} =>
           /\ conn'[pc.c].fin /\ ~conn'[pc.c].ka
           /\ conn'[pc.c].state = BEGIN => conn'[pc.c].closed
  PROVE  LifeInv'
<1>1. \A c \in Conns : Sound(conn'[c])
  BY DEF LifeInv
<1>2. \A c \in Conns : (Waiting(c))' /\ conn'[c].closed =>
                        conn'[c].mask = {} /\ job'[c] = "none"
  <2> SUFFICES ASSUME NEW c \in Conns, (Waiting(c))', conn'[c].closed
               PROVE  conn'[c].mask = {} /\ job'[c] = "none"
    OBVIOUS
  <2>1. CASE c = pc.c
    BY <2>1 DEF Waiting, At
  <2>2. CASE c # pc.c
    BY <2>2 DEF Waiting, LifeInv, Located
  <2>3. QED BY <2>1, <2>2
<1>3. \A c \in Conns : job'[c] # "none" => ~conn'[c].orphan
  BY DEF LifeInv, Located
<1>4. QED BY <1>1, <1>2, <1>3 DEF LifeInv, Located, At, Here

\* A step that assigns one connection and no job.
LEMMA SetStep ==
  ASSUME TypeOK, NEW v, conn' = [conn EXCEPT ![pc.c] = v], job' = job
  PROVE  /\ conn'[pc.c] = v
         /\ \A d \in Conns \ {pc.c} : conn'[d] = conn[d] /\ job'[d] = job[d]
BY HereType DEF TypeOK

\* A turn of websPump.
LEMMA PumpStep ==
  ASSUME LifeInv, TypeOK', pc.at \in PumpSites, Proceed \/ Return,
         \A d \in Conns \ {pc.c} : conn'[d] = conn[d] /\ job'[d] = job[d],
         Sound(conn'[pc.c]), conn'[pc.c].live, ~conn'[pc.c].orphan,
         At("pumpCgi") /\ Proceed =>
           ~conn'[pc.c].closed /\ job'[pc.c] = "none",
         At("pumpCgi") /\ Return /\ conn'[pc.c].closed =>
           conn'[pc.c].mask = {} /\ job'[pc.c] = "none",
         At("pumpLost") => /\ conn'[pc.c].fin /\ ~conn'[pc.c].ka
                           /\ conn'[pc.c].state = BEGIN => conn'[pc.c].closed
  PROVE  LifeInv'
<1>1. pc \in PcType
  BY DEF LifeInv, TypeOK
<1>2. CASE Proceed
  <2>1. pc' = pc
    BY <1>2 DEF Proceed
  <2>2. ~At("select") /\ pc'.at \notin {"select", "read", "lost"}
    BY <2>1 DEF PumpSites, At
  <2>3. QED BY <1>2, <2>1, <2>2, HandlerStep DEF At
<1>3. CASE Return
  <2>1. pc'.c = pc.c /\ pc'.at = ReturnOf[pc.at]
    BY <1>1, <1>3 DEF Return, Goto, PcType
  <2>2. CASE At("pumpRead")
    <3>1. pc'.at = "tail"
      BY <2>1, <2>2 DEF ReturnOf, At
    <3>2. QED BY <2>1, <2>2, <3>1, HandlerStep DEF At
  <2>3. CASE At("pumpLost")
    <3>1. pc'.at = "lost"
      BY <2>1, <2>3 DEF ReturnOf, At
    <3>2. QED BY <2>1, <2>3, <3>1, HandlerStep DEF At
  <2>4. CASE At("pumpWrite")
    <3>1. pc'.at = "end"
      BY <2>1, <2>4 DEF ReturnOf, At
    <3>2. QED BY <2>1, <2>4, <3>1, HandlerStep DEF At
  <2>5. CASE At("pumpCgi")
    <3>1. pc'.at = "select"
      BY <2>1, <2>5 DEF ReturnOf, At
    <3>2. QED BY <2>1, <2>5, <3>1, HandlerStep DEF At
  <2>6. QED BY <2>2, <2>3, <2>4, <2>5 DEF PumpSites, At
<1>4. QED BY <1>2, <1>3

\* What LifeInv says of the connection a handler works on.
LEMMA HereSound ==
  ASSUME LifeInv, ~At("select")
  PROVE  /\ TypeOK /\ Here \in WebsType /\ Sound(Here)
         /\ Here.live /\ ~Here.orphan
<1>1. TypeOK /\ \A c \in Conns : Sound(conn[c])
  BY DEF LifeInv
<1>2. Here \in WebsType /\ pc.c \in Conns
  BY <1>1, HereType
<1>3. Sound(Here)
  BY <1>1, <1>2 DEF Here
<1>4. QED BY <1>1, <1>2, <1>3 DEF LifeInv, Located

\* parseIncoming keeps the invariant.
LEMMA PumpBeginSound == ASSUME LifeInv, TypeOK', PumpBegin PROVE LifeInv'
<1>1. pc.at \in PumpSites /\ Here.state = BEGIN /\ ~At("select")
  BY DEF PumpBegin, Pumping, PumpSites, At
<1>2. /\ TypeOK /\ Here \in WebsType /\ Sound(Here)
      /\ Here.live /\ ~Here.orphan
  BY <1>1, HereSound
<1>3. CASE ParseWaits(Here)
  <2>1. Return /\ conn' = conn /\ job' = job
    BY <1>3 DEF PumpBegin
  <2>2. At("pumpCgi") => ~Here.closed
    BY DEF LifeInv, Located
  <2>3. At("pumpLost") => Here.fin /\ ~Here.ka /\ (Here.state = BEGIN => Here.closed)
    BY DEF LifeInv, Located, At
  <2>4. At("pumpCgi") => job'[pc.c] = "none"
    BY <2>1 DEF LifeInv, Located
  <2>5. QED BY <1>1, <1>2, <2>1, <2>2, <2>3, <2>4, PumpStep DEF Here
<1>4. CASE ~ParseWaits(Here)
  <2> DEFINE v == ParseIncoming(Here)
  <2>1. Proceed /\ Set(v) /\ job' = job
    BY <1>4 DEF PumpBegin
  <2>2. ~Here.closed
    BY <1>2, <1>4 DEF ParseWaits, HeaderReady, Sound
  <2>3. Sound(v) /\ v.live /\ ~v.orphan /\ ~v.closed
    BY <1>1, <1>2, <2>2, ParseIncomingSound
  <2> HIDE DEF v
  <2>4. /\ conn'[pc.c] = v
        /\ \A d \in Conns \ {pc.c} : conn'[d] = conn[d] /\ job'[d] = job[d]
    BY <1>2, <2>1, SetStep DEF Set
  <2>5. At("pumpCgi") => job'[pc.c] = "none"
    BY <2>1 DEF LifeInv, Located
  <2>6. ~At("pumpLost")
    BY <1>1, <2>2 DEF LifeInv, Located, At
  <2>7. ~Return
    BY <1>1, <1>2, <2>1 DEF Proceed, Return, Goto, ReturnOf, PumpSites, TypeOK, PcType
  <2>8. QED BY <1>1, <2>1, <2>3, <2>4, <2>5, <2>6, <2>7, PumpStep
<1>5. QED BY <1>3, <1>4

\* processContent keeps the invariant.
LEMMA PumpContentSound == ASSUME LifeInv, TypeOK', PumpContent PROVE LifeInv'
<1>1. /\ pc.at \in PumpSites /\ Here.state = CONTENT /\ ~At("select")
      /\ Proceed \/ Return
  BY DEF PumpContent, Pumping, PumpSites, At
<1>2. /\ TypeOK /\ Here \in WebsType /\ Sound(Here)
      /\ Here.live /\ ~Here.orphan
  BY <1>1, HereSound
<1>3. PICK v : /\ Follows(v, Here) /\ job' = job
               /\ conn' = [conn EXCEPT ![pc.c] = v]
  <2>1. Follows(Here, Here)
    BY <1>1, <1>2, StatesDiffer DEF Follows, Sound
  <2>2. CASE conn' = conn
    BY <2>1, <2>2, <1>2 DEF PumpContent, Here, TypeOK
  <2>3. CASE conn' # conn
    <3>1. \E v \in {AtEnd(TakeBody(Here)), Error(TakeBody(Here), TRUE),
                    AtEnd(Error(TakeBody(Here), FALSE))} : Set(v)
      BY <2>3 DEF PumpContent, AtEnd
    <3>2. \A v \in {AtEnd(TakeBody(Here)), Error(TakeBody(Here), TRUE),
                    AtEnd(Error(TakeBody(Here), FALSE))} : Follows(v, Here)
      BY <1>1, <1>2, ContentSound
    <3>3. QED BY <3>1, <3>2 DEF PumpContent, Set
  <2>4. QED BY <2>2, <2>3
<1>4. /\ conn'[pc.c] = v
      /\ \A d \in Conns \ {pc.c} : conn'[d] = conn[d] /\ job'[d] = job[d]
  BY <1>2, <1>3, SetStep
<1>5. At("pumpCgi") => job'[pc.c] = "none"
  BY <1>3 DEF LifeInv, Located
<1>6. At("pumpLost") => v.fin /\ ~v.ka /\ v.state # BEGIN
  BY <1>3 DEF LifeInv, Located, At, Follows
<1>7. QED BY <1>1, <1>3, <1>4, <1>5, <1>6, PumpStep DEF Follows

\* websRouteRequest and its handlers keep the invariant.
LEMMA PumpReadySound == ASSUME LifeInv, TypeOK', PumpReady PROVE LifeInv'
<1>1. pc.at \in PumpSites /\ Here.state = READY /\ ~At("select")
  BY DEF PumpReady, Pumping, PumpSites, At
<1>2. /\ TypeOK /\ Here \in WebsType /\ Sound(Here)
      /\ Here.live /\ ~Here.orphan /\ ~Here.closed
  BY <1>1, HereSound, StatesDiffer DEF Sound
<1>a. PICK h \in Handlers, n \in 0 .. DocMax + BlockMax : \E v :
        /\ v = CASE h = "error"  -> Error(Here, FALSE)
                 [] h = "action" -> ServeAction(Here, n)
                 [] h = "file"   -> ServeFile(Here, n)
                 [] h = "cgi"    -> Running(Here)
        /\ h = "file" => n <= DocMax
        /\ conn' = [conn EXCEPT ![pc.c] = v]
        /\ IF v.state = RUNNING THEN Return ELSE Proceed
        /\ job' = [job EXCEPT ![pc.c] = IF h = "cgi" THEN "started" ELSE @]
  BY DEF PumpReady, Set
<1>3. PICK v :
        /\ v = CASE h = "error"  -> Error(Here, FALSE)
                 [] h = "action" -> ServeAction(Here, n)
                 [] h = "file"   -> ServeFile(Here, n)
                 [] h = "cgi"    -> Running(Here)
        /\ h = "file" => n <= DocMax
        /\ conn' = [conn EXCEPT ![pc.c] = v]
        /\ IF v.state = RUNNING THEN Return ELSE Proceed
        /\ job' = [job EXCEPT ![pc.c] = IF h = "cgi" THEN "started" ELSE @]
  BY <1>a
<1>4. h \in {"error", "action", "file", "cgi"} /\ n \in Nat
  BY ServerAssumption, CoreAssumption
<1>5. h = "file" => n \in Document
  BY <1>3, <1>4, CoreAssumption DEF Document
<1> DEFINE r == Running(Here)
           s == Writing(Running(Here))
<1>6. /\ r \in WebsType /\ Sound(r) /\ r.live /\ ~r.orphan /\ ~r.closed
      /\ r.ka = Here.ka /\ r.fin = Here.fin /\ r.state = RUNNING
  BY <1>2, RunningType, StatesDiffer DEF Running, WebsType, Sound, Timed
<1>7. /\ s \in WebsType /\ Sound(s) /\ s.live /\ ~s.orphan /\ ~s.closed
      /\ s.ka = Here.ka /\ s.fin = Here.fin /\ s.state = RUNNING
  <2> HIDE DEF r
  <2>1. s = [r EXCEPT !.writer = TRUE]
    BY DEF s, r, Writing
  <2> HIDE DEF s
  <2>2. s \in WebsType
    BY <1>6, <2>1 DEF WebsType
  <2>3. QED BY ZenonT(60), <1>6, <2>1, <2>2, StatesDiffer DEF WebsType, Sound, Timed
<1>8. /\ h = "error"  => Kept(v, Here)
      /\ h = "action" => Kept(v, r)
      /\ h = "file"   => Kept(v, r) \/ Kept(v, s)
      /\ h = "cgi"    => Kept(v, r)
  <2>1. h = "error" => Kept(v, Here)
    BY <1>2, <1>3, ErrorKept
  <2>2. h = "action" => Kept(v, r)
    BY <1>2, <1>3, <1>4, ServeActionKept
  <2>3. h = "file" => Kept(v, r) \/ Kept(v, s)
    BY <1>2, <1>3, <1>5, ServeFileKept
  <2>4. h = "cgi" => Kept(v, r)
    BY <1>3, <1>6, KeptRefl
  <2>5. QED BY <2>1, <2>2, <2>3, <2>4
<1> HIDE DEF r, s
<1>9. PICK w \in WebsType :
        /\ Kept(v, w) /\ Sound(w) /\ w.live /\ ~w.orphan /\ ~w.closed
        /\ w.ka = Here.ka /\ w.fin = Here.fin /\ w.state \in {READY, RUNNING}
  <2>1. CASE Kept(v, Here)
    BY <1>1, <1>2, <2>1
  <2>2. CASE Kept(v, r)
    BY <1>6, <2>2
  <2>3. CASE Kept(v, s)
    BY <1>7, <2>3
  <2>4. QED BY <1>4, <1>8, <2>1, <2>2, <2>3
<1>10. Sound(v) /\ v.live /\ ~v.orphan /\ ~v.closed
  BY <1>9, KeptSound
<1>11. At("pumpLost") => v.fin /\ ~v.ka /\ v.state # BEGIN
  BY <1>9, StatesDiffer DEF LifeInv, Located, At, Kept
<1>12. /\ conn'[pc.c] = v
       /\ \A d \in Conns \ {pc.c} : conn'[d] = conn[d] /\ job'[d] = job[d]
  BY <1>2, <1>3, HereType DEF TypeOK
<1>13. At("pumpCgi") /\ Proceed => job'[pc.c] = "none"
  <2>1. CASE h = "cgi"
    <3>1. v.state = RUNNING
      BY <1>3, <1>6, <2>1 DEF r
    <3>2. pc' # pc
      BY <1>1, <1>2, <1>3, <3>1
         DEF Return, Goto, ReturnOf, PumpSites, TypeOK, PcType
    <3>3. QED BY <3>2 DEF Proceed
  <2>2. CASE h # "cgi"
    <3>1. job'[pc.c] = job[pc.c]
      BY <1>2, <1>3, <2>2, HereType DEF TypeOK
    <3>2. QED BY <3>1 DEF LifeInv, Located
  <2>3. QED BY <2>1, <2>2
<1>14. Proceed \/ Return
  BY <1>3
<1> HIDE DEF Proceed, Return
<1>15. QED BY <1>1, <1>10, <1>11, <1>12, <1>13, <1>14, PumpStep

\* complete(wp, 1) keeps the invariant.
LEMMA PumpCompleteSound == ASSUME LifeInv, TypeOK', PumpComplete PROVE LifeInv'
<1> DEFINE v == Complete(Here)
<1>1. /\ pc.at \in PumpSites /\ Here.state = COMPLETE /\ ~At("select")
      /\ IF v.rx # << >> THEN Proceed ELSE Return
      /\ conn' = [conn EXCEPT ![pc.c] = v] /\ job' = job
  BY DEF PumpComplete, Pumping, PumpSites, At, Set
<1>2. /\ TypeOK /\ Here \in WebsType /\ Sound(Here)
      /\ Here.live /\ ~Here.orphan
  BY <1>1, HereSound
<1>3. /\ Sound(v) /\ v.live /\ ~v.orphan
      /\ v.closed => v.mask = {} /\ v.rx = << >>
      /\ ~Here.ka => v.closed /\ v.fin = Here.fin /\ ~v.ka
  BY <1>1, <1>2, CompleteSound
<1> HIDE DEF v
<1>4. /\ conn'[pc.c] = v
      /\ \A d \in Conns \ {pc.c} : conn'[d] = conn[d] /\ job'[d] = job[d]
  BY <1>1, <1>2, SetStep
<1>5. At("pumpLost") => v.fin /\ ~v.ka /\ v.closed
  BY <1>3 DEF LifeInv, Located, At
<1>6. At("pumpCgi") => job'[pc.c] = "none"
  BY <1>1 DEF LifeInv, Located
<1>7. At("pumpCgi") /\ Proceed => ~v.closed
  <2>1. ~(Proceed /\ Return)
    BY <1>1, <1>2 DEF Proceed, Return, Goto, ReturnOf, PumpSites, TypeOK, PcType
  <2>2. QED BY <1>1, <1>3, <2>1
<1>8. QED BY <1>1, <1>3, <1>4, <1>5, <1>6, <1>7, PumpStep

\* A handler that still runs (or waits) keeps the invariant.
LEMMA PumpRunningSound == ASSUME LifeInv, TypeOK', PumpRunning PROVE LifeInv'
<1>1. /\ pc.at \in PumpSites /\ Here.state = RUNNING /\ ~At("select")
      /\ Return /\ conn' = conn /\ job' = job
  BY DEF PumpRunning, Pumping, PumpSites, At
<1>2. /\ TypeOK /\ Here \in WebsType /\ Sound(Here)
      /\ Here.live /\ ~Here.orphan /\ ~Here.closed
  BY <1>1, HereSound, StatesDiffer DEF Sound
<1>3. At("pumpLost") => Here.fin /\ ~Here.ka /\ Here.state # BEGIN
  BY <1>1, StatesDiffer DEF LifeInv, Located, At
<1>4. At("pumpCgi") => job'[pc.c] = "none"
  BY <1>1 DEF LifeInv, Located
<1>5. QED BY <1>1, <1>2, <1>3, <1>4, PumpStep DEF Here

\* websRead keeps the invariant.
LEMMA ReadSound == ASSUME LifeInv, TypeOK', Read PROVE LifeInv'
<1> DEFINE v == ReadSocket(Here)
<1>1. /\ ~At("select") /\ At("read")
      /\ conn' = [conn EXCEPT ![pc.c] = v] /\ job' = job
  BY DEF Read, Set, At
<1>2. /\ TypeOK /\ Here \in WebsType /\ Sound(Here)
      /\ Here.live /\ ~Here.orphan /\ ~Here.closed
  BY <1>1, HereSound DEF LifeInv, Located
<1>3. pc'.c = pc.c /\ pc'.at \in {"pumpRead", "tail"}
  <2>1. pc \in PcType
    BY <1>2 DEF TypeOK
  <2> DEFINE g == IF ReadsEof(Here) THEN "eof"
                  ELSE IF Here.net # << >> THEN "data" ELSE "nothing"
             at == IF g = "data" \/ Here.state > BEGIN
                   THEN "pumpRead" ELSE "tail"
  <2>2. pc' = [pc EXCEPT !.got = g, !.at = at]
    BY DEF Read
  <2>3. at \in {"pumpRead", "tail"}
    OBVIOUS
  <2> HIDE DEF g, at
  <2>4. QED BY <2>1, <2>2, <2>3 DEF PcType
<1>4. Sound(v) /\ v.live /\ ~v.orphan
  <2>1. /\ v.live = Here.live /\ v.orphan = Here.orphan
        /\ v.closed = Here.closed /\ v.open = Here.open
        /\ v.timeout = Here.timeout /\ v.timer = Here.timer
        /\ v.mask = Here.mask /\ v.state = Here.state /\ v.ka = Here.ka
        /\ v.fin = Here.fin /\ v.rem = Here.rem /\ v.writer = Here.writer
    BY <1>2 DEF ReadSocket, WebsType
  <2> HIDE DEF v
  <2>2. QED BY <1>2, <2>1 DEF Sound, Timed
<1> HIDE DEF v
<1>5. /\ conn'[pc.c] = v
      /\ \A d \in Conns \ {pc.c} : conn'[d] = conn[d] /\ job'[d] = job[d]
  BY <1>1, <1>2, SetStep
<1>6. QED BY <1>1, <1>3, <1>4, <1>5, HandlerStep

\* The end of readEvent keeps the invariant.
LEMMA ReadTailSound == ASSUME LifeInv, TypeOK', ReadTail PROVE LifeInv'
<1>1. ~At("select") /\ job' = job
  BY DEF ReadTail, At
<1>2. /\ TypeOK /\ Here \in WebsType /\ Sound(Here)
      /\ Here.live /\ ~Here.orphan
  BY <1>1, HereSound
<1>3. ASSUME NEW v, conn' = [conn EXCEPT ![pc.c] = v],
             Sound(v), v.live, ~v.orphan,
             \/ Goto("write")
             \/ Goto("pumpLost") /\ v.fin /\ ~v.ka /\ v.state # BEGIN
      PROVE  LifeInv'
  <2>1. pc'.c = pc.c /\ (pc'.at = "write" \/ pc'.at = "pumpLost")
        /\ (pc'.at = "pumpLost" => v.fin /\ ~v.ka /\ v.state # BEGIN)
    BY <1>2, <1>3 DEF Goto, TypeOK, PcType
  <2>2. /\ conn'[pc.c] = v
        /\ \A d \in Conns \ {pc.c} : conn'[d] = conn[d] /\ job'[d] = job[d]
    BY <1>1, <1>2, <1>3, SetStep
  <2>3. QED BY <1>1, <1>3, <2>1, <2>2, HandlerStep
<1>4. CASE Goto("write") /\ UNCHANGED conn
  <2>1. conn' = [conn EXCEPT ![pc.c] = Here]
    BY <1>2, <1>4 DEF TypeOK, Here
  <2>2. QED BY <1>2, <1>3, <1>4, <2>1
<1>5. CASE Here.state = BEGIN /\ ~Here.closed /\ Set(CloseConn(Here)) /\ Goto("write")
  <2>1. ~Here.writer
    BY <1>2, <1>5, StatesDiffer DEF Sound
  <2>2. QED BY <1>2, <1>3, <1>5, <2>1, CloseConnSound DEF Set
<1>6. CASE /\ ~Here.closed /\ Here.state = CONTENT
           /\ Set(Error(Here, FALSE)) /\ Goto("pumpLost")
  <2> DEFINE v == Error(Here, FALSE)
  <2>1. Kept(v, Here) /\ v.fin /\ (Here.rem # 0 => ~v.ka)
    BY <1>2, ErrorKept
  <2>2. conn' = [conn EXCEPT ![pc.c] = v]
    BY <1>6 DEF Set
  <2> HIDE DEF v
  <2>3. ~v.ka /\ v.state # BEGIN
    BY <1>2, <1>6, <2>1, StatesDiffer DEF Kept, Sound
  <2>4. Sound(v) /\ v.live /\ ~v.orphan
    BY <1>2, <1>6, <2>1, KeptSound
  <2>5. QED BY <1>3, <1>6, <2>1, <2>2, <2>3, <2>4
<1>7. CASE /\ ~Here.closed /\ Goto("write")
           /\ \E m : Set([Here EXCEPT !.mask = m])
  <2>1. PICK m : conn' = [conn EXCEPT ![pc.c] = [Here EXCEPT !.mask = m]]
    BY <1>7 DEF Set
  <2> DEFINE v == [Here EXCEPT !.mask = m]
  <2>2. Sound(v) /\ v.live /\ ~v.orphan
    BY <1>2, <1>7 DEF WebsType, Sound, Timed
  <2>3. QED BY <1>3, <1>7, <2>1, <2>2
<1>8. QED BY <1>4, <1>5, <1>6, <1>7 DEF ReadTail

\* complete(wp, 0) after "connection lost" keeps the invariant.
LEMMA LostSound == ASSUME LifeInv, TypeOK', Lost PROVE LifeInv'
<1> DEFINE v == CloseConn(Here)
<1>1. /\ ~At("select") /\ At("lost") /\ Goto("write")
      /\ conn' = [conn EXCEPT ![pc.c] = v] /\ job' = job
  BY DEF Lost, Set, At
<1>2. /\ TypeOK /\ Here \in WebsType /\ Sound(Here)
      /\ Here.live /\ ~Here.orphan /\ Here.fin
  BY <1>1, HereSound DEF LifeInv, Located, At
<1>3. Sound(v) /\ v.live /\ ~v.orphan
  BY <1>2, CloseConnSound
<1>4. pc'.c = pc.c /\ pc'.at = "write"
  BY <1>1, <1>2 DEF Goto, TypeOK, PcType
<1> HIDE DEF v
<1>5. /\ conn'[pc.c] = v
      /\ \A d \in Conns \ {pc.c} : conn'[d] = conn[d] /\ job'[d] = job[d]
  BY <1>1, <1>2, SetStep
<1>6. QED BY <1>1, <1>3, <1>4, <1>5, HandlerStep

\* The writable half of socketEvent keeps the invariant.
LEMMA WriteSound == ASSUME LifeInv, TypeOK', Write PROVE LifeInv'
<1>1. ~At("select") /\ job' = job
  BY DEF Write, At
<1>2. /\ TypeOK /\ Here \in WebsType /\ Sound(Here)
      /\ Here.live /\ ~Here.orphan
  BY <1>1, HereSound
<1>3. PICK v \in {Here, WriteEvent(Here)} : Set(v)
  BY DEF Write
<1>4. Sound(v) /\ v.live /\ ~v.orphan
  BY <1>2, <1>3, WriteEventSound
<1>5. pc'.c = pc.c /\ pc'.at \in {"pumpWrite", "end"}
  BY <1>2 DEF Write, Goto, TypeOK, PcType
<1>6. /\ conn'[pc.c] = v
      /\ \A d \in Conns \ {pc.c} : conn'[d] = conn[d] /\ job'[d] = job[d]
  BY <1>1, <1>2, <1>3, SetStep DEF Set
<1>7. QED BY <1>1, <1>4, <1>5, <1>6, HandlerStep

\* An object that is not allocated is sound, and so is a closed one freed.
LEMMA FreeSound ==
  /\ Sound(NoWebs) /\ ~NoWebs.orphan /\ ~NoWebs.closed
  /\ \A w \in WebsType : Sound(w) /\ w.closed => Free(w) = NoWebs
<1>1. Sound(NoWebs) /\ ~NoWebs.orphan /\ ~NoWebs.closed
  BY StatesDiffer DEF NoWebs, Sound, Timed
<1>2. ASSUME NEW w \in WebsType, Sound(w), w.closed PROVE Free(w) = NoWebs
  <2>1. ~w.timeout /\ w.timer = NoTimer
    BY <1>2 DEF Sound, Timed
  <2>2. CancelTimeout(w).timer = NoTimer
    BY <2>1 DEF CancelTimeout, WebsType
  <2>3. NoWebs.timer = NoTimer
    BY DEF NoWebs
  <2>4. QED BY <2>2, <2>3, FreeType DEF Free, WebsType
<1>3. QED BY <1>1, <1>2

\* websFree at the end of socketEvent keeps the invariant.
LEMMA EndEventSound == ASSUME LifeInv, TypeOK', EndEvent PROVE LifeInv'
<1> DEFINE v == IF Here.closed THEN Free(Here) ELSE Here
<1>1. /\ ~At("select") /\ At("end") /\ Goto("select")
      /\ conn' = [conn EXCEPT ![pc.c] = v] /\ job' = job
  BY DEF EndEvent, Set, At
<1>2. /\ TypeOK /\ Here \in WebsType /\ Sound(Here) /\ ~Here.orphan
  BY <1>1, HereSound
<1>3. Sound(v) /\ ~v.orphan /\ ~v.closed
  <2>1. CASE Here.closed
    <3>1. v = NoWebs
      BY <1>2, <2>1, FreeSound
    <3>2. QED BY <3>1, FreeSound
  <2>2. CASE ~Here.closed
    BY <1>2, <2>2
  <2>3. QED BY <2>1, <2>2
<1>4. pc'.c = pc.c /\ pc'.at = "select"
  BY <1>1, <1>2 DEF Goto, TypeOK, PcType
<1> HIDE DEF v
<1>5. /\ conn'[pc.c] = v
      /\ \A d \in Conns \ {pc.c} : conn'[d] = conn[d] /\ job'[d] = job[d]
  BY <1>1, <1>2, SetStep
<1>6. QED BY <1>1, <1>3, <1>4, <1>5, HandlerStep

\* Every step of a handler keeps the invariant.
LEMMA HandleSound == ASSUME LifeInv, Handle PROVE LifeInv'
<1>1. TypeOK'
  BY HandleType DEF LifeInv
<1>2. QED
  BY <1>1, ReadSound, ReadTailSound, LostSound, WriteSound, EndEventSound,
     PumpBeginSound, PumpContentSound, PumpReadySound, PumpRunningSound,
     PumpCompleteSound
  DEF Handle, Pump

(***************************************************************************)
(* Steps from select, and steps of the clients and of the clock.           *)
(***************************************************************************)

\* A step that changes c and leaves the thread in select.
LEMMA IdleStep ==
  ASSUME LifeInv, TypeOK', At("select"), pc' = pc, NEW c \in Conns,
         \A d \in Conns \ {c} : conn'[d] = conn[d] /\ job'[d] = job[d],
         Sound(conn'[c]),
         conn'[c].closed => conn'[c].mask = {} /\ job'[c] = "none",
         job'[c] # "none" => ~conn'[c].orphan
  PROVE  LifeInv'
<1>1. \A d \in Conns : Sound(conn'[d])
  BY DEF LifeInv
<1>2. \A d \in Conns : conn'[d].closed => conn'[d].mask = {} /\ job'[d] = "none"
  BY DEF LifeInv, Located, Waiting
<1>3. \A d \in Conns : job'[d] # "none" => ~conn'[d].orphan
  BY DEF LifeInv, Located
<1>4. QED BY <1>1, <1>2, <1>3 DEF LifeInv, Located, At, Waiting

\* A step that begins a handler of c.
LEMMA WakeStep ==
  ASSUME LifeInv, TypeOK', At("select"), NEW c \in Conns,
         pc'.c = c, pc'.at \in {"read", "write", "pumpCgi"},
         \A d \in Conns \ {c} : conn'[d] = conn[d] /\ job'[d] = job[d],
         Sound(conn'[c]),
         conn'[c].live, ~conn'[c].orphan, ~conn'[c].closed,
         pc'.at = "pumpCgi" => job'[c] = "none"
  PROVE  LifeInv'
<1>1. \A d \in Conns : Sound(conn'[d])
  BY DEF LifeInv
<1>2. \A d \in Conns : conn'[d].closed => conn'[d].mask = {} /\ job'[d] = "none"
  BY DEF LifeInv, Located, Waiting
<1>3. \A d \in Conns : job'[d] # "none" => ~conn'[d].orphan
  BY DEF LifeInv, Located
<1>4. QED BY <1>1, <1>2, <1>3 DEF LifeInv, Located, At, Waiting, Here

\* What Sound and Located look at.
Alike(v, w) ==
  /\ v.live = w.live /\ v.orphan = w.orphan /\ v.closed = w.closed
  /\ v.open = w.open /\ v.timeout = w.timeout /\ v.mask = w.mask
  /\ v.state = w.state /\ v.ka = w.ka /\ v.fin = w.fin /\ v.rx = w.rx
  /\ v.rem = w.rem /\ v.writer = w.writer
  /\ v.timer # NoTimer <=> w.timer # NoTimer

\* A step that changes nothing of it.
LEMMA AlikeStep ==
  ASSUME LifeInv, TypeOK', pc' = pc, job' = job,
         \A c \in Conns : Alike(conn'[c], conn[c])
  PROVE  LifeInv'
<1>1. \A c \in Conns : Sound(conn'[c])
  BY DEF LifeInv, Alike, Sound, Timed
<1>2. pc.c \in Conns
  BY HereType DEF LifeInv
<1>3. Located'
  BY <1>2 DEF LifeInv, Located, Waiting, At, Here, Alike
<1>4. QED BY <1>1, <1>3 DEF LifeInv

\* websCgiPoll on a connection that is still there.
LEMMA GatherSound ==
  ASSUME NEW w \in WebsType, Sound(w), w.live, ~w.orphan, ~w.closed,
         NEW n \in 0 .. BlockMax,
         NEW v \in {Gather(w, n), Done(Gather(w, n)), Error(Gather(w, n), FALSE)}
  PROVE  Sound(v) /\ v.live /\ ~v.orphan /\ ~v.closed
<1> DEFINE g == Gather(w, n)
<1>1. n \in {0, 1, 2}
  BY ServerAssumption
<1>2. Kept(g, w) /\ g \in WebsType
  <2> DEFINE h == WriteHeaders(w)
  <2>1. g \in {w, WriteBlock(h), WriteBlock(WriteBlock(h))}
    BY <1>1 DEF Gather
  <2>2. /\ Kept(w, w) /\ Kept(WriteBlock(h), w)
        /\ Kept(WriteBlock(WriteBlock(h)), w)
    BY BlocksKept, KeptRefl
  <2> HIDE DEF g, h
  <2>3. Kept(g, w)
    BY <2>1, <2>2
  <2>4. QED BY <2>3 DEF Kept
<1> HIDE DEF g
<1>3. Kept(Done(g), g) /\ Kept(Error(g, FALSE), g)
  BY <1>2, DoneKept, ErrorKept
<1>4. Kept(Done(g), w) /\ Kept(Error(g, FALSE), w)
  BY <1>2, <1>3, KeptTrans
<1>5. Kept(v, w)
  BY <1>2, <1>4 DEF g
<1>6. QED BY <1>5, KeptSound

\* Accepting, the events select reports, the timers and the CGI programs
\* keep the invariant.
LEMMA ServerSound ==
  ASSUME LifeInv, NEW c \in Conns, Server(c) PROVE LifeInv'
<1>1. TypeOK /\ TypeOK'
  BY ServerType DEF LifeInv
<1>2. /\ At("select") /\ conn[c] \in WebsType /\ Sound(conn[c])
      /\ conn[c].closed => conn[c].mask = {} /\ job[c] = "none"
      /\ job[c] # "none" => ~conn[c].orphan
  BY <1>1 DEF Server, Accept, AcceptFails, SocketEvent, CheckTimeout, CgiPoll,
              LifeInv, TypeOK, Located, Waiting
<1>3. ASSUME NEW v, conn' = [conn EXCEPT ![c] = v]
      PROVE  conn'[c] = v /\ \A d \in Conns \ {c} : conn'[d] = conn[d]
  BY <1>1, <1>3 DEF TypeOK
<1>4. CASE Accept(c)
  <2> DEFINE v == Accepting(conn[c])
  <2>1. /\ v.live /\ ~v.orphan /\ ~v.closed /\ v.open /\ v.timeout
        /\ v.timer = PARSE_TIMEOUT /\ ~v.writer /\ v.state = BEGIN
    BY FreeType DEF Accepting, NoWebs, WebsType
  <2>2. conn' = [conn EXCEPT ![c] = v] /\ job' = job
        /\ pc'.c = c /\ pc'.at = "read"
    BY <1>4 DEF Accept
  <2> HIDE DEF v
  <2>3. Sound(v)
    BY <2>1, CoreAssumption, StatesDiffer DEF Sound, Timed, NoTimer
  <2>4. QED BY ZenonT(60), <1>1, <1>2, <1>3, <2>1, <2>2, <2>3, WakeStep
<1>5. CASE AcceptFails(c)
  <2> DEFINE v == AcceptFailed(conn[c])
  <2>1. /\ v.live /\ v.orphan /\ ~v.closed /\ ~v.open /\ ~v.timeout
        /\ v.timer = NoTimer /\ ~v.writer /\ v.state = BEGIN /\ v.mask = {}
    BY FreeType DEF AcceptFailed, NoWebs, WebsType
  <2>2. /\ conn' = [conn EXCEPT ![c] = v] /\ job' = job /\ pc' = pc
        /\ job[c] = "none"
    BY <1>5 DEF AcceptFails
  <2> HIDE DEF v
  <2>3. Sound(v)
    BY <2>1, StatesDiffer DEF Sound, Timed
  <2>4. QED BY <1>1, <1>2, <1>3, <2>1, <2>2, <2>3, IdleStep
<1>6. CASE SocketEvent(c)
  <2> DEFINE v == [conn[c] EXCEPT !.resv = FALSE]
  <2>1. /\ conn' = [conn EXCEPT ![c] = v] /\ job' = job
        /\ pc'.c = c /\ pc'.at \in {"read", "write"}
    BY <1>6 DEF SocketEvent
  <2>2. conn[c].mask # {}
    BY <1>6 DEF SocketEvent, Events, SocketReady
  <2>3. conn[c].live /\ ~conn[c].orphan /\ ~conn[c].closed
    BY <1>2, <2>2 DEF Sound
  <2>4. Sound(v) /\ v.live /\ ~v.orphan /\ ~v.closed
    BY <1>2, <2>3 DEF Sound, Timed, WebsType
  <2> HIDE DEF v
  <2>5. conn'[c] = v /\ \A d \in Conns \ {c} : conn'[d] = conn[d]
    BY <1>3, <2>1
  <2>6. pc'.at # "pumpCgi"
    BY <2>1
  <2>7. QED BY <1>1, <1>2, <2>1, <2>4, <2>5, <2>6, WakeStep
<1>7. CASE CheckTimeout(c)
  <2> DEFINE w == conn[c]
             e == IF w.state # BEGIN /\ ~w.hdr THEN Error(w, FALSE) ELSE w
             t == WEBS_TIMEOUT - w.age
             r == [w EXCEPT !.timer = t]
  <2>1. w.open /\ w.live /\ ~w.orphan /\ ~w.closed
    <3>1. w.timer # NoTimer
      BY <1>7 DEF CheckTimeout, NoTimer
    <3>2. QED BY <1>2, <3>1 DEF Sound, Timed
  <2>2. /\ conn' = [conn EXCEPT ![c] = Free(CloseConn(e))]
           \/ conn' = [conn EXCEPT ![c] = r]
        /\ job' = job /\ pc' = pc
    BY <1>7 DEF CheckTimeout
  <2>3. e \in WebsType /\ e.timeout = w.timeout /\ e.timer = w.timer
    BY <1>2, ErrorKept DEF Kept
  <2>4. Free(CloseConn(e)) = NoWebs
    <3> HIDE DEF e
    <3>1. CloseConn(e).timer = NoTimer /\ ~CloseConn(e).timeout
      BY <1>2, <2>1, <2>3 DEF CloseConn, CloseSocket, CancelTimeout, WebsType,
                              Sound, Timed
    <3>2. CancelTimeout(CloseConn(e)).timer = NoTimer
      BY <2>3, <3>1, CloseConnType DEF CancelTimeout, WebsType
    <3>3. NoWebs.timer = NoTimer
      BY DEF NoWebs
    <3>4. QED BY <3>2, <3>3, FreeType DEF Free, WebsType
  <2>5. Sound(r) /\ ~r.closed /\ ~r.orphan
    <3>1. t # NoTimer
      <4>1. w.age \in Age
        BY <1>2 DEF WebsType
      <4>2. QED BY <4>1, CoreAssumption DEF Age, NoTimer
    <3> HIDE DEF t
    <3>2. QED BY <1>2, <2>1, <3>1 DEF Sound, Timed, WebsType
  <2> HIDE DEF e, r
  <2>6. CASE conn' = [conn EXCEPT ![c] = Free(CloseConn(e))]
    <3>1. conn'[c] = NoWebs /\ \A d \in Conns \ {c} : conn'[d] = conn[d]
      BY <1>3, <2>4, <2>6
    <3>2. QED BY <1>1, <1>2, <2>2, <3>1, FreeSound, IdleStep
  <2>7. CASE conn' = [conn EXCEPT ![c] = r]
    <3>1. conn'[c] = r /\ \A d \in Conns \ {c} : conn'[d] = conn[d]
      BY <1>3, <2>7
    <3>2. QED BY <1>1, <1>2, <2>2, <2>5, <3>1, IdleStep
  <2>8. QED BY <2>2, <2>6, <2>7
<1>8. CASE CgiPoll(c)
  <2>1. job[c] # "none" /\ ~conn[c].closed /\ ~conn[c].orphan
    BY <1>2, <1>8 DEF CgiPoll
  <2>2. CASE ~conn[c].live
    <3>1. /\ conn' = conn /\ pc' = pc /\ job' = [job EXCEPT ![c] = "none"]
      BY <1>8, <2>2 DEF CgiPoll
    <3>2. job'[c] = "none" /\ \A d \in Conns \ {c} : job'[d] = job[d]
      BY <1>1, <3>1 DEF TypeOK
    <3>3. QED BY <1>1, <1>2, <2>1, <3>1, <3>2, IdleStep
  <2>3. CASE conn[c].live
    <3>1. PICK n \in 0 .. BlockMax, exited \in BOOLEAN :
            LET g == Gather(conn[c], n)
                wrote == n > 0 \/ job[c] = "output"
            IN  /\ conn' = [conn EXCEPT ![c] =
                     CASE ~exited         -> g
                       [] exited /\ wrote -> Done(g)
                       [] OTHER           -> Error(g, FALSE)]
                /\ job' = [job EXCEPT ![c] =
                     CASE exited            -> "none"
                       [] ~exited /\ wrote  -> "output"
                       [] OTHER             -> "started"]
                /\ pc' = IF exited THEN [pc EXCEPT !.at = "pumpCgi", !.c = c]
                                   ELSE pc
      BY <1>8, <2>3 DEF CgiPoll
    <3> DEFINE g == Gather(conn[c], n)
               wrote == n > 0 \/ job[c] = "output"
               j == CASE exited            -> "none"
                      [] ~exited /\ wrote  -> "output"
                      [] OTHER             -> "started"
    <3>2. PICK v \in {g, Done(g), Error(g, FALSE)} :
            conn' = [conn EXCEPT ![c] = v]
      BY <3>1
    <3>3. job' = [job EXCEPT ![c] = j]
      BY <3>1
    <3>4. CASE exited
      <4>1. j = "none"
        <5> HIDE DEF wrote
        <5>1. QED BY <3>4
      <4>2. pc'.at = "pumpCgi" /\ pc'.c = c
        BY <1>1, <3>1, <3>4 DEF TypeOK, PcType
      <4> HIDE DEF g, j
      <4>3. Sound(v) /\ v.live /\ ~v.orphan /\ ~v.closed
        BY <1>2, <2>1, <2>3, <3>2, GatherSound DEF g
      <4>4. /\ conn'[c] = v /\ job'[c] = "none"
            /\ \A d \in Conns \ {c} : conn'[d] = conn[d] /\ job'[d] = job[d]
        BY <1>1, <3>2, <3>3, <4>1 DEF TypeOK
      <4>5. QED BY <1>1, <1>2, <4>2, <4>3, <4>4, WakeStep
    <3>5. CASE ~exited
      <4>1. pc' = pc
        BY <3>1, <3>5
      <4> HIDE DEF g, j
      <4>2. Sound(v) /\ v.live /\ ~v.orphan /\ ~v.closed
        BY <1>2, <2>1, <2>3, <3>2, GatherSound DEF g
      <4>3. /\ conn'[c] = v /\ job'[c] = j
            /\ \A d \in Conns \ {c} : conn'[d] = conn[d] /\ job'[d] = job[d]
        BY <1>1, <3>2, <3>3 DEF TypeOK
      <4>4. QED BY <1>1, <1>2, <4>1, <4>2, <4>3, IdleStep
    <3>6. QED BY <3>4, <3>5
  <2>4. QED BY <2>2, <2>3
<1>9. QED BY <1>4, <1>5, <1>6, <1>7, <1>8 DEF Server

\* The clients and the clock keep the invariant.
LEMMA OutsideSound ==
  ASSUME LifeInv, Tick \/ \E c \in Conns : Client(c) PROVE LifeInv'
<1>1. TypeOK /\ TypeOK'
  BY TickType, ClientType DEF LifeInv
<1>2. pc' = pc /\ job' = job
  BY DEF Tick, Client, ClientRead, ClientShut, ClientReset, ClientSend
<1>3. \A d \in Conns : conn[d] \in WebsType
  BY <1>1 DEF TypeOK
<1>4. ASSUME Tick, NEW d \in Conns PROVE Alike(conn'[d], conn[d])
  <2> DEFINE t == IF conn[d].timer > 0 THEN conn[d].timer - 1 ELSE conn[d].timer
             a == IF conn[d].live THEN Least(conn[d].age + 1, WEBS_TIMEOUT)
                                  ELSE conn[d].age
  <2>1. conn'[d] = [conn[d] EXCEPT !.timer = t, !.age = a]
    BY <1>4 DEF Tick
  <2>2. t # NoTimer <=> conn[d].timer # NoTimer
    <3>1. conn[d].timer \in Timer
      BY <1>3 DEF WebsType
    <3>2. QED BY <3>1, CoreAssumption DEF Timer, NoTimer
  <2> HIDE DEF t, a
  <2>3. QED BY <1>3, <2>1, <2>2 DEF Alike, WebsType
<1>5. ASSUME NEW c \in Conns, Client(c), NEW d \in Conns
      PROVE  Alike(conn'[d], conn[d])
  <2>1. ASSUME NEW v,
               Alike(v, conn[c]), conn' = [conn EXCEPT ![c] = v]
        PROVE  Alike(conn'[d], conn[d])
    <3>1. conn'[d] = IF d = c THEN v ELSE conn[d]
      BY <1>1, <2>1 DEF TypeOK
    <3>2. QED BY <2>1, <3>1 DEF Alike
  <2>2. \A x : /\ Alike([conn[c] EXCEPT !.room = x], conn[c])
               /\ Alike([conn[c] EXCEPT !.shut = TRUE], conn[c])
               /\ Alike([conn[c] EXCEPT !.rst = TRUE, !.net = x], conn[c])
    BY <1>3 DEF Alike, WebsType
  <2>3. \A x, o : Alike([conn[c] EXCEPT !.net = x, !.owe = o], conn[c])
    BY <1>3 DEF Alike, WebsType
  <2>4. CASE ClientRead(c)
    BY <2>1, <2>2, <2>4 DEF ClientRead
  <2>5. CASE ClientShut(c)
    BY <2>1, <2>2, <2>5 DEF ClientShut
  <2>6. CASE ClientReset(c)
    BY <2>1, <2>2, <2>6 DEF ClientReset
  <2>7. CASE \E p \in Sends : ClientSend(c, p)
    <3>1. PICK p \in Sends : conn' = [conn EXCEPT ![c] = Sent(conn[c], p)]
      BY <2>7 DEF ClientSend
    <3>2. Alike(Sent(conn[c], p), conn[c])
      BY <2>3 DEF Sent
    <3>3. QED BY <2>1, <3>1, <3>2
  <2>8. QED BY <1>5, <2>4, <2>5, <2>6, <2>7 DEF Client
<1>6. QED BY <1>1, <1>2, <1>4, <1>5, AlikeStep

\* The invariant holds at the start,
LEMMA LifeInit == ASSUME Init PROVE LifeInv
<1>1. \A c \in Conns : conn[c] = NoWebs /\ job[c] = "none"
  BY DEF Init
<1>2. pc.at = "select"
  BY DEF Init
<1>3. TypeOK
  <2>1. NoWebs \in WebsType
    BY FreeType
  <2>2. QED
    BY <2>1, ServerAssumption DEF Init, TypeOK, PcType, Sites, Interest
<1>4. QED BY <1>1, <1>2, <1>3, FreeSound DEF LifeInv, Located, Waiting, At

\* every step keeps it,
LEMMA LifeStep == ASSUME LifeInv, [Next]_vars PROVE LifeInv'
<1>1. CASE Handle
  BY <1>1, HandleSound
<1>2. CASE Tick \/ \E c \in Conns : Client(c)
  BY <1>2, OutsideSound
<1>3. CASE \E c \in Conns : Server(c)
  BY <1>3, ServerSound
<1>4. CASE UNCHANGED vars
  BY <1>4 DEF vars, LifeInv, TypeOK, Located, Waiting, At, Here
<1>5. QED BY <1>1, <1>2, <1>3, <1>4 DEF Next

\* and so it always holds.
LEMMA LifeInvariant == Spec => []LifeInv
BY LifeInit, LifeStep, PTL DEF Spec

\* The timer, the pointer to it and the socket of every connection live and
\* die together, whatever the clients, the handlers and the clock do: no
\* checkTimeout is left to run on a freed Webs.
THEOREM TimersMatch == Spec => []TimerMatches
<1>1. LifeInv => TimerMatches
  BY DEF LifeInv, TimerMatches, Sound
<1>2. QED BY <1>1, LifeInvariant, PTL

(***************************************************************************)
(* One connection's view of a step.  A handler works on one connection and *)
(* leaves the others alone, so what a step means for a connection depends  *)
(* on the connection, on where the thread is if it works on it, and on its *)
(* CGI program: the Move operators relate these three before and after.    *)
(* The invariants below speak of one connection and are shown against      *)
(* Move.                                                                   *)
(***************************************************************************)

\* Where the thread is, seen from a connection.
Place(c) == IF pc.c = c THEN pc.at ELSE "select"

\* What LifeInv says of a connection w, its place s and its program j.
Fit(w, s, j) ==
  /\ w \in WebsType /\ Sound(w) /\ s \in Sites
  /\ j \in {"none", "started", "output"}
  /\ s = "select" /\ w.closed => w.mask = {} /\ j = "none"
  /\ j # "none" => ~w.orphan
  /\ s # "select" => w.live /\ ~w.orphan
  /\ s \in {"read", "pumpCgi"} => ~w.closed
  /\ s = "pumpCgi" => j = "none"
  /\ s \in {"pumpLost", "lost"} =>
       w.fin /\ ~w.ka /\ (w.state = BEGIN => w.closed)

\* It is accepted, has an event, or its timer fires.
MoveBegin(w, s, j, v, t, k) ==
  /\ s = "select" /\ k = j
  /\ \/ /\ ~w.live /\ j = "none"
        /\ \/ v = Accepting(w) /\ t = "read"
           \/ "accept" \in Faults /\ v = AcceptFailed(w) /\ t = s
     \/ /\ w.mask # {} /\ t \in {"read", "write"}
        /\ v = [w EXCEPT !.resv = FALSE]
     \/ t = s /\ (v = NoWebs \/ \E x : v = [w EXCEPT !.timer = x])

\* Its CGI program is polled.
MovePoll(w, s, j, v, t, k) ==
  /\ s = "select" /\ j # "none"
  /\ \/ ~w.live /\ v = w /\ t = s /\ k = "none"
     \/ /\ w.live
        /\ \E n \in {0, 1, 2} :
             LET g == Gather(w, n)
                 wrote == n > 0 \/ j = "output"
             IN \/ v = g /\ t = s /\ k = IF wrote THEN "output" ELSE "started"
                \/ /\ t = "pumpCgi" /\ k = "none"
                   /\ v = IF wrote THEN Done(g) ELSE Error(g, FALSE)

\* readEvent and writeEvent.
MoveEvent(w, s, j, v, t, k) ==
  /\ k = j
  /\ \/ /\ s = "read" /\ v = ReadSocket(w)
        /\ \/ t = "pumpRead"
           \/ t = "tail" /\ w.state = BEGIN /\ (ReadsEof(w) \/ w.net = << >>)
     \/ /\ s = "tail"
        /\ \/ (w.closed \/ w.state >= READY) /\ v = w /\ t = "write"
           \/ ~w.closed /\ w.state = BEGIN /\ v = CloseConn(w) /\ t = "write"
           \/ ~w.closed /\ w.state = CONTENT /\ v = Error(w, FALSE)
              /\ t = "pumpLost"
           \/ ~w.closed /\ t = "write"
              /\ v = [w EXCEPT !.mask = IF w.state < READY THEN @ \cup {"R"}
                                                           ELSE @]
     \/ s = "lost" /\ v = CloseConn(w) /\ t = "write"
     \/ /\ s = "write"
        /\ \/ v = w /\ t = "end"
           \/ /\ v = WriteEvent(w)
              /\ t = IF v.state # RUNNING THEN "pumpWrite" ELSE "end"
     \/ s = "end" /\ t = "select" /\ v = IF w.closed THEN NoWebs ELSE w

\* A turn of websPump, by wp->state.
MoveBEGIN(w, s, j, v, t, k) ==
  /\ w.state = BEGIN /\ k = j
  /\ \/ ParseWaits(w) /\ v = w /\ t = ReturnOf[s]
     \/ ~ParseWaits(w) /\ v = ParseIncoming(w) /\ t = s

MoveCONTENT(w, s, j, v, t, k) ==
  /\ w.state = CONTENT /\ k = j
  /\ LET b == TakeBody(w)
         end(u) == /\ v = AtEnd(u)
                   /\ t = IF u.rem = 0 THEN s ELSE ReturnOf[s]
     IN \/ w.rx = << >> /\ v = w /\ t = ReturnOf[s]
        \/ w.rx # << >> /\ end(b)
        \/ w.rx # << >> /\ "put" \in Faults /\ v = Error(b, TRUE)
           /\ t = ReturnOf[s]
        \/ w.rx # << >> /\ "upload" \in Faults /\ end(Error(b, FALSE))

MoveREADY(w, s, j, v, t, k) ==
  /\ w.state = READY
  /\ \/ "error" \in Handlers /\ v = Error(w, FALSE) /\ k = j
     \/ "action" \in Handlers /\ k = j /\ \E n \in Nat : v = ServeAction(w, n)
     \/ "file" \in Handlers /\ k = j /\ \E n \in Document : v = ServeFile(w, n)
     \/ "cgi" \in Handlers /\ k = "started" /\ v = Running(w)
  /\ t = IF v.state = RUNNING THEN ReturnOf[s] ELSE s

MoveCOMPLETE(w, s, j, v, t, k) ==
  /\ w.state = COMPLETE /\ k = j
  /\ v = Complete(w)
  /\ t = IF v.rx # << >> THEN s ELSE ReturnOf[s]

MovePump(w, s, j, v, t, k) ==
  /\ s \in PumpSites
  /\ \/ MoveBEGIN(w, s, j, v, t, k)
     \/ MoveCONTENT(w, s, j, v, t, k)
     \/ MoveREADY(w, s, j, v, t, k)
     \/ w.state = RUNNING /\ v = w /\ t = ReturnOf[s] /\ k = j
     \/ MoveCOMPLETE(w, s, j, v, t, k)

\* Its client or the clock.
MoveOutside(w, s, j, v, t, k) ==
  /\ t = s /\ k = j
  /\ \/ \E p \in Sends : CanSend(w, p) /\ v = Sent(w, p)
     \/ \E x : v = [w EXCEPT !.room = x]
     \/ "shut" \in Faults /\ v = [w EXCEPT !.shut = TRUE]
     \/ "reset" \in Faults /\ w.open /\ v = [w EXCEPT !.rst = TRUE, !.net = << >>]
     \/ \E x, a : v = [w EXCEPT !.timer = x, !.age = a]

Move(w, s, j, v, t, k) ==
  \/ v = w /\ t = s /\ k = j
  \/ MoveBegin(w, s, j, v, t, k)
  \/ MovePoll(w, s, j, v, t, k)
  \/ MoveEvent(w, s, j, v, t, k)
  \/ MovePump(w, s, j, v, t, k)
  \/ MoveOutside(w, s, j, v, t, k)

\* What LifeInv says of one connection.
LEMMA LifeFit ==
  ASSUME LifeInv, NEW c \in Conns
  PROVE  Fit(conn[c], Place(c), job[c])
<1>1. /\ conn[c] \in WebsType /\ pc \in PcType
      /\ job[c] \in {"none", "started", "output"} /\ Sound(conn[c])
  BY DEF LifeInv, TypeOK
<1>2. Place(c) \in Sites
  BY <1>1 DEF Place, PcType, Sites
<1>3. Place(c) = "select" => Waiting(c)
  BY DEF Place, Waiting, At
<1>4. Place(c) # "select" => pc.c = c /\ Place(c) = pc.at
  BY DEF Place
<1>5. QED BY <1>1, <1>2, <1>3, <1>4 DEF Fit, LifeInv, Located, Here, At, PumpSites

\* A step of a handler is a move of the connection it works on.
LEMMA HandleMove ==
  ASSUME LifeInv, Handle
  PROVE  /\ pc'.c = pc.c
         /\ \A d \in Conns \ {pc.c} : conn'[d] = conn[d] /\ job'[d] = job[d]
         /\ Move(Here, pc.at, job[pc.c], conn'[pc.c], pc'.at, job'[pc.c])
<1>1. TypeOK /\ pc \in PcType /\ pc.c \in Conns /\ Here \in WebsType
  BY HereType DEF LifeInv, TypeOK
<1>a. pc.at \in Sites
  BY <1>1 DEF PcType
<1>2. ASSUME NEW v, Set(v)
      PROVE  conn'[pc.c] = v /\ \A d \in Conns \ {pc.c} : conn'[d] = conn[d]
  BY <1>1, <1>2 DEF Set, TypeOK
<1>3. ASSUME NEW site, Goto(site) PROVE pc'.c = pc.c /\ pc'.at = site
  BY <1>1, <1>3 DEF Goto, PcType
<1>4. Return => pc'.c = pc.c /\ pc'.at = ReturnOf[pc.at]
  BY <1>3 DEF Return
<1>5. Proceed => pc'.c = pc.c /\ pc'.at = pc.at
  BY DEF Proceed
<1>6. CASE Read
  <2> DEFINE g == IF ReadsEof(Here) THEN "eof"
                  ELSE IF Here.net # << >> THEN "data" ELSE "nothing"
             at == IF g = "data" \/ Here.state > BEGIN THEN "pumpRead" ELSE "tail"
  <2>1. pc' = [pc EXCEPT !.got = g, !.at = at] /\ Set(ReadSocket(Here))
        /\ job' = job /\ pc.at = "read"
    BY <1>6 DEF Read, At
  <2>2. at = "pumpRead" \/ (at = "tail" /\ Here.state = BEGIN
                            /\ (ReadsEof(Here) \/ Here.net = << >>))
    BY <1>1 DEF WebsType, States, BEGIN, CONTENT, READY, RUNNING, COMPLETE
  <2> HIDE DEF g, at
  <2>3. pc'.c = pc.c /\ pc'.at = at
    BY <1>1, <2>1 DEF PcType
  <2>4. MoveEvent(Here, pc.at, job[pc.c], conn'[pc.c], pc'.at, job'[pc.c])
    BY <1>2, <2>1, <2>2, <2>3 DEF MoveEvent
  <2>5. QED BY <1>2, <2>1, <2>3, <2>4 DEF Move
<1>7. CASE ReadTail
  <2> DEFINE m == [Here EXCEPT !.mask = IF Here.state < READY THEN @ \cup {"R"}
                                                              ELSE @]
  <2>1. job' = job /\ pc.at = "tail"
    BY <1>7 DEF ReadTail, At
  <2>2. CASE (Here.closed \/ Here.state >= READY) /\ Goto("write") /\ conn' = conn
    BY <1>3, <2>1, <2>2 DEF Move, MoveEvent, Here
  <2>3. CASE ~Here.closed /\ Here.state = BEGIN /\ Set(CloseConn(Here)) /\ Goto("write")
    BY <1>2, <1>3, <2>1, <2>3 DEF Move, MoveEvent
  <2>4. CASE ~Here.closed /\ Here.state = CONTENT /\ Set(Error(Here, FALSE))
             /\ Goto("pumpLost")
    BY <1>2, <1>3, <2>1, <2>4 DEF Move, MoveEvent
  <2>5. CASE ~Here.closed /\ Goto("write") /\ Set(m)
    <3>1. MoveEvent(Here, pc.at, job[pc.c], m, pc'.at, job'[pc.c])
      BY <1>3, <2>1, <2>5 DEF MoveEvent
    <3> HIDE DEF m
    <3>2. QED BY <1>2, <1>3, <2>1, <2>5, <3>1 DEF Move
  <2>6. QED BY <1>7, <2>2, <2>3, <2>4, <2>5 DEF ReadTail
<1>8. CASE Lost
  BY <1>2, <1>3, <1>8 DEF Lost, At, Move, MoveEvent
<1>9. CASE Write
  <2> DEFINE w == IF "W" \in pc.events THEN WriteEvent(Here) ELSE Here
             at == IF "W" \in pc.events /\ w.state # RUNNING THEN "pumpWrite"
                                                           ELSE "end"
  <2>1. job' = job /\ pc.at = "write" /\ Set(w) /\ Goto(at)
    BY <1>9 DEF Write, At
  <2>2. \/ w = Here /\ at = "end"
        \/ w = WriteEvent(Here) /\ at = IF w.state # RUNNING THEN "pumpWrite" ELSE "end"
    OBVIOUS
  <2> HIDE DEF w, at
  <2>3. MoveEvent(Here, pc.at, job[pc.c], w, at, job'[pc.c])
    BY <2>1, <2>2 DEF MoveEvent
  <2>4. QED BY <1>2, <1>3, <2>1, <2>3 DEF Move
<1>10. CASE EndEvent
  <2> DEFINE w == IF Here.closed THEN Free(Here) ELSE Here
  <2>1. job' = job /\ pc.at = "end" /\ Set(w) /\ Goto("select")
    BY <1>10 DEF EndEvent, At
  <2>2. Here.closed => Free(Here) = NoWebs
    BY <2>1, HereSound, FreeSound DEF At
  <2>3. w = IF Here.closed THEN NoWebs ELSE Here
    BY <2>2
  <2> HIDE DEF w
  <2>4. QED BY <1>2, <1>3, <2>1, <2>3 DEF Move, MoveEvent
<1>11. ASSUME Pump
       PROVE  /\ pc'.c = pc.c
              /\ \A d \in Conns \ {pc.c} : conn'[d] = conn[d] /\ job'[d] = job[d]
              /\ MovePump(Here, pc.at, job[pc.c], conn'[pc.c], pc'.at, job'[pc.c])
  <2>1. pc.at \in PumpSites
    BY <1>11 DEF Pump, PumpBegin, PumpContent, PumpReady, PumpRunning,
                 PumpComplete, Pumping
  <2>2. CASE PumpBegin
    <3>1. Here.state = BEGIN /\ job' = job
      BY <2>2 DEF PumpBegin, Pumping
    <3>2. CASE ParseWaits(Here)
      BY <1>4, <2>1, <2>2, <3>1, <3>2 DEF PumpBegin, MovePump, MoveBEGIN, Here
    <3>3. CASE ~ParseWaits(Here)
      BY <1>2, <1>5, <2>1, <2>2, <3>1, <3>3 DEF PumpBegin, MovePump, MoveBEGIN
    <3>4. QED BY <3>2, <3>3
  <2>3. CASE PumpContent
    <3> DEFINE b == TakeBody(Here)
               e == Error(b, FALSE)
               f == Error(b, TRUE)
    <3>1. Here.state = CONTENT /\ job' = job
      BY <2>3 DEF PumpContent, Pumping
    <3>2. ASSUME NEW u, IF u.rem = 0 THEN Set(BodyDone(u)) /\ Proceed
                                     ELSE Set(u) /\ Return
          PROVE  /\ pc'.c = pc.c
                 /\ \A d \in Conns \ {pc.c} : conn'[d] = conn[d]
                 /\ conn'[pc.c] = AtEnd(u)
                 /\ pc'.at = IF u.rem = 0 THEN pc.at ELSE ReturnOf[pc.at]
      BY <1>2, <1>4, <1>5, <3>2 DEF AtEnd
    <3>3. CASE Here.rx = << >> /\ Return /\ conn' = conn
      BY <1>4, <2>1, <3>1, <3>3 DEF MovePump, MoveCONTENT, Here
    <3>4. CASE Here.rx # << >> /\ IF b.rem = 0 THEN Set(BodyDone(b)) /\ Proceed
                                               ELSE Set(b) /\ Return
      <4>1. MoveCONTENT(Here, pc.at, job[pc.c], conn'[pc.c], pc'.at, job'[pc.c])
        BY <3>1, <3>2, <3>4 DEF MoveCONTENT
      <4>2. QED BY <2>1, <3>1, <3>2, <3>4, <4>1 DEF MovePump
    <3>5. CASE Here.rx # << >> /\ "put" \in Faults /\ Set(f) /\ Return
      <4>1. MoveCONTENT(Here, pc.at, job[pc.c], conn'[pc.c], pc'.at, job'[pc.c])
        BY <1>2, <1>4, <3>1, <3>5 DEF MoveCONTENT
      <4>2. QED BY <1>2, <1>4, <2>1, <3>1, <3>5, <4>1 DEF MovePump
    <3>6. CASE /\ Here.rx # << >> /\ "upload" \in Faults
               /\ IF e.rem = 0 THEN Set(BodyDone(e)) /\ Proceed
                               ELSE Set(e) /\ Return
      <4>1. MoveCONTENT(Here, pc.at, job[pc.c], conn'[pc.c], pc'.at, job'[pc.c])
        BY <3>1, <3>2, <3>6 DEF MoveCONTENT
      <4>2. QED BY <2>1, <3>1, <3>2, <3>6, <4>1 DEF MovePump
    <3>7. QED BY <2>3, <3>3, <3>4, <3>5, <3>6 DEF PumpContent
  <2>4. CASE PumpReady
    <3>1. Here.state = READY
      BY <2>4 DEF PumpReady, Pumping
    <3>a. PICK h \in Handlers, n \in 0 .. DocMax + BlockMax : \E v :
            /\ v = CASE h = "error"  -> Error(Here, FALSE)
                     [] h = "action" -> ServeAction(Here, n)
                     [] h = "file"   -> ServeFile(Here, n)
                     [] h = "cgi"    -> Running(Here)
            /\ h = "file" => n <= DocMax
            /\ conn' = [conn EXCEPT ![pc.c] = v]
            /\ IF v.state = RUNNING THEN Return ELSE Proceed
            /\ job' = [job EXCEPT ![pc.c] = IF h = "cgi" THEN "started" ELSE @]
      BY <2>4 DEF PumpReady, Set
    <3>2. PICK v :
            /\ v = CASE h = "error"  -> Error(Here, FALSE)
                     [] h = "action" -> ServeAction(Here, n)
                     [] h = "file"   -> ServeFile(Here, n)
                     [] h = "cgi"    -> Running(Here)
            /\ h = "file" => n <= DocMax
            /\ conn' = [conn EXCEPT ![pc.c] = v]
            /\ IF v.state = RUNNING THEN Return ELSE Proceed
            /\ job' = [job EXCEPT ![pc.c] = IF h = "cgi" THEN "started" ELSE @]
      BY <3>a
    <3>3. h \in {"error", "action", "file", "cgi"} /\ n \in Nat
      BY ServerAssumption, CoreAssumption
    <3>4. h = "file" => n \in Document
      BY <3>2, <3>3, CoreAssumption DEF Document
    <3>5. conn'[pc.c] = v /\ job'[pc.c] = (IF h = "cgi" THEN "started" ELSE job[pc.c])
          /\ \A d \in Conns \ {pc.c} : conn'[d] = conn[d] /\ job'[d] = job[d]
      BY <1>1, <3>2 DEF TypeOK
    <3>6. pc'.c = pc.c /\ pc'.at = IF v.state = RUNNING THEN ReturnOf[pc.at] ELSE pc.at
      BY <1>4, <1>5, <3>2
    <3>7. MoveREADY(Here, pc.at, job[pc.c], v, pc'.at, job'[pc.c])
      BY <3>1, <3>2, <3>3, <3>4, <3>5, <3>6 DEF MoveREADY
    <3>8. QED BY <2>1, <3>5, <3>6, <3>7 DEF MovePump
  <2>5. CASE PumpRunning
    BY <1>4, <2>1, <2>5 DEF PumpRunning, Pumping, MovePump, Here
  <2>6. CASE PumpComplete
    <3> DEFINE v == Complete(Here)
    <3>1. /\ Here.state = COMPLETE /\ job' = job /\ Set(v)
          /\ IF v.rx # << >> THEN Proceed ELSE Return
      BY <2>6 DEF PumpComplete, Pumping
    <3>2. MoveCOMPLETE(Here, pc.at, job[pc.c], v, pc'.at, job'[pc.c])
      BY <1>4, <1>5, <3>1 DEF MoveCOMPLETE
    <3> HIDE DEF v
    <3>3. QED BY <1>2, <1>4, <1>5, <2>1, <3>1, <3>2 DEF MovePump
  <2>7. QED BY <1>11, <2>2, <2>3, <2>4, <2>5, <2>6 DEF Pump
<1>12. QED BY <1>6, <1>7, <1>8, <1>9, <1>10, <1>11 DEF Handle, Move

\* A step of the loop from select is a move of the connection it is about.
LEMMA ServerMove ==
  ASSUME LifeInv, NEW c \in Conns, Server(c)
  PROVE  /\ At("select") /\ (pc' = pc \/ pc'.c = c)
         /\ \A d \in Conns \ {c} : conn'[d] = conn[d] /\ job'[d] = job[d]
         /\ Move(conn[c], "select", job[c], conn'[c],
                 IF pc' = pc THEN "select" ELSE pc'.at, job'[c])
<1>1. /\ TypeOK /\ pc \in PcType /\ conn[c] \in WebsType /\ At("select")
      /\ Sound(conn[c]) /\ pc.at = "select"
  BY DEF LifeInv, TypeOK, Server, Accept, AcceptFails, SocketEvent,
         CheckTimeout, CgiPoll, At
<1>2. ASSUME NEW v, conn' = [conn EXCEPT ![c] = v]
      PROVE  conn'[c] = v /\ \A d \in Conns \ {c} : conn'[d] = conn[d]
  BY <1>1, <1>2 DEF TypeOK
<1>3. CASE Accept(c)
  <2>1. /\ ~conn[c].live /\ job[c] = "none" /\ job' = job
        /\ conn' = [conn EXCEPT ![c] = Accepting(conn[c])]
        /\ pc'.c = c /\ pc'.at = "read"
    BY <1>3 DEF Accept
  <2>2. pc' # pc
    BY <1>1, <2>1
  <2>3. QED BY <1>1, <1>2, <2>1, <2>2 DEF Move, MoveBegin
<1>4. CASE AcceptFails(c)
  <2>1. /\ ~conn[c].live /\ job[c] = "none" /\ job' = job /\ pc' = pc
        /\ conn' = [conn EXCEPT ![c] = AcceptFailed(conn[c])]
        /\ "accept" \in Faults
    BY <1>4 DEF AcceptFails
  <2>2. QED BY <1>1, <1>2, <2>1 DEF Move, MoveBegin
<1>5. CASE SocketEvent(c)
  <2>1. /\ conn' = [conn EXCEPT ![c] = [conn[c] EXCEPT !.resv = FALSE]]
        /\ job' = job /\ pc'.c = c /\ pc'.at \in {"read", "write"}
    BY <1>5 DEF SocketEvent
  <2>2. conn[c].mask # {} /\ pc' # pc
    BY <1>1, <1>5, <2>1 DEF SocketEvent, Events, SocketReady
  <2>3. QED BY <1>1, <1>2, <2>1, <2>2 DEF Move, MoveBegin
<1>6. CASE CheckTimeout(c)
  <2> DEFINE w == conn[c]
             e == IF w.state # BEGIN /\ ~w.hdr THEN Error(w, FALSE) ELSE w
             t == WEBS_TIMEOUT - w.age
  <2>1. /\ \/ conn' = [conn EXCEPT ![c] = Free(CloseConn(e))]
           \/ conn' = [conn EXCEPT ![c] = [w EXCEPT !.timer = t]]
        /\ job' = job /\ pc' = pc
    BY <1>6 DEF CheckTimeout
  <2>2. Free(CloseConn(e)) = NoWebs
    <3>1. w.open /\ w.timeout
      <4>1. w.timer # NoTimer
        BY <1>6 DEF CheckTimeout, NoTimer
      <4>2. QED BY <1>1, <4>1 DEF Sound, Timed
    <3>2. e \in WebsType /\ e.timeout = w.timeout /\ e.timer = w.timer
      BY <1>1, ErrorKept DEF Kept
    <3> HIDE DEF e
    <3>3. CloseConn(e).timer = NoTimer /\ ~CloseConn(e).timeout
      BY <3>1, <3>2 DEF CloseConn, CloseSocket, CancelTimeout, WebsType
    <3>4. CancelTimeout(CloseConn(e)).timer = NoTimer
      BY <3>2, <3>3, CloseConnType DEF CancelTimeout, WebsType
    <3>5. NoWebs.timer = NoTimer
      BY DEF NoWebs
    <3>6. QED BY <3>4, <3>5, FreeType DEF Free, WebsType
  <2> HIDE DEF e, t
  <2>3. CASE conn' = [conn EXCEPT ![c] = Free(CloseConn(e))]
    BY <1>1, <1>2, <2>1, <2>2, <2>3 DEF Move, MoveBegin
  <2>4. CASE conn' = [conn EXCEPT ![c] = [w EXCEPT !.timer = t]]
    BY <1>1, <1>2, <2>1, <2>4 DEF Move, MoveBegin
  <2>5. QED BY <2>1, <2>3, <2>4
<1>7. CASE CgiPoll(c)
  <2>1. job[c] # "none"
    BY <1>7 DEF CgiPoll
  <2>2. ASSUME NEW x, job' = [job EXCEPT ![c] = x]
        PROVE  job'[c] = x /\ \A d \in Conns \ {c} : job'[d] = job[d]
    BY <1>1, <2>2 DEF TypeOK
  <2>3. CASE ~conn[c].live
    BY <1>1, <1>7, <2>1, <2>2, <2>3 DEF CgiPoll, Move, MovePoll
  <2>4. CASE conn[c].live
    <3>1. PICK n \in 0 .. BlockMax, exited \in BOOLEAN :
            LET g == Gather(conn[c], n)
                wrote == n > 0 \/ job[c] = "output"
            IN  /\ conn' = [conn EXCEPT ![c] =
                     CASE ~exited         -> g
                       [] exited /\ wrote -> Done(g)
                       [] OTHER           -> Error(g, FALSE)]
                /\ job' = [job EXCEPT ![c] =
                     CASE exited            -> "none"
                       [] ~exited /\ wrote  -> "output"
                       [] OTHER             -> "started"]
                /\ pc' = IF exited THEN [pc EXCEPT !.at = "pumpCgi", !.c = c]
                                   ELSE pc
      BY <1>7, <2>4 DEF CgiPoll
    <3> DEFINE g == Gather(conn[c], n)
               wrote == n > 0 \/ job[c] = "output"
    <3>2. n \in {0, 1, 2}
      BY ServerAssumption
    <3>3. CASE exited
      <4>1. /\ conn' = [conn EXCEPT ![c] = IF wrote THEN Done(g) ELSE Error(g, FALSE)]
            /\ job' = [job EXCEPT ![c] = "none"]
            /\ pc'.at = "pumpCgi" /\ pc'.c = c /\ pc' # pc
        <5>1. pc'.at = "pumpCgi" /\ pc'.c = c /\ pc' # pc
          BY <1>1, <3>1, <3>3 DEF PcType
        <5>2. job' = [job EXCEPT ![c] = "none"]
          BY <3>1, <3>3
        <5>3. CASE wrote
          BY <3>1, <3>3, <5>1, <5>2, <5>3
        <5>4. CASE ~wrote
          BY <3>1, <3>3, <5>1, <5>2, <5>4
        <5>5. QED BY <5>3, <5>4
      <4>2. MovePoll(conn[c], "select", job[c],
                     IF wrote THEN Done(g) ELSE Error(g, FALSE), "pumpCgi", "none")
        BY <2>1, <2>4, <3>2 DEF MovePoll
      <4> HIDE DEF g, wrote
      <4>3. QED BY <1>1, <1>2, <2>2, <4>1, <4>2 DEF Move
    <3>4. CASE ~exited
      <4> DEFINE k == IF wrote THEN "output" ELSE "started"
      <4>1. /\ conn' = [conn EXCEPT ![c] = g] /\ pc' = pc
            /\ job' = [job EXCEPT ![c] = k]
        <5>1. CASE wrote
          BY <3>1, <3>4, <5>1
        <5>2. CASE ~wrote
          BY <3>1, <3>4, <5>2
        <5>3. QED BY <5>1, <5>2
      <4>2. MovePoll(conn[c], "select", job[c], g, "select", k)
        BY <2>1, <2>4, <3>2 DEF MovePoll
      <4> HIDE DEF g, k
      <4>3. QED BY <1>1, <1>2, <2>2, <4>1, <4>2 DEF Move
    <3>5. QED BY <3>3, <3>4
  <2>5. QED BY <2>3, <2>4
<1>8. QED BY <1>3, <1>4, <1>5, <1>6, <1>7 DEF Server

\* What a client does, and a tick of the clock, moves connections where
\* they are.
LEMMA OutsideMove ==
  ASSUME LifeInv, Tick \/ \E c \in Conns : Client(c), NEW d \in Conns
  PROVE  /\ pc' = pc /\ job' = job
         /\ Move(conn[d], Place(d), job[d], conn'[d], Place(d), job[d])
<1>1. TypeOK /\ pc' = pc /\ job' = job
  BY DEF LifeInv, Tick, Client, ClientRead, ClientShut, ClientReset, ClientSend
<1>2. CASE Tick
  <2> DEFINE t == IF conn[d].timer > 0 THEN conn[d].timer - 1 ELSE conn[d].timer
             a == IF conn[d].live THEN Least(conn[d].age + 1, WEBS_TIMEOUT)
                                  ELSE conn[d].age
  <2>1. conn'[d] = [conn[d] EXCEPT !.timer = t, !.age = a]
    BY <1>2 DEF Tick
  <2> HIDE DEF t, a
  <2>2. QED BY <1>1, <2>1 DEF Move, MoveOutside
<1>3. ASSUME NEW c \in Conns, Client(c)
      PROVE  Move(conn[d], Place(d), job[d], conn'[d], Place(d), job[d])
  <2>1. ASSUME NEW v, conn' = [conn EXCEPT ![c] = v],
               MoveOutside(conn[c], Place(c), job[c], v, Place(c), job[c])
        PROVE  Move(conn[d], Place(d), job[d], conn'[d], Place(d), job[d])
    <3>1. conn'[d] = IF d = c THEN v ELSE conn[d]
      BY <1>1, <2>1 DEF TypeOK
    <3>2. CASE d = c
      BY <2>1, <3>1, <3>2 DEF Move
    <3>3. CASE d # c
      BY <3>1, <3>3 DEF Move
    <3>4. QED BY <3>2, <3>3
  <2>2. CASE ClientRead(c)
    <3> DEFINE r == conn[c].room + 1
    <3>1. conn' = [conn EXCEPT ![c] = [conn[c] EXCEPT !.room = r]]
      BY <2>2 DEF ClientRead
    <3> HIDE DEF r
    <3>2. QED BY <2>1, <3>1 DEF MoveOutside
  <2>3. CASE ClientShut(c)
    <3>1. conn' = [conn EXCEPT ![c] = [conn[c] EXCEPT !.shut = TRUE]]
          /\ "shut" \in Faults
      BY <2>3 DEF ClientShut
    <3>2. QED BY <2>1, <3>1 DEF MoveOutside
  <2>4. CASE ClientReset(c)
    <3>1. /\ conn' = [conn EXCEPT ![c] = [conn[c] EXCEPT !.rst = TRUE,
                                                         !.net = << >>]]
          /\ "reset" \in Faults /\ conn[c].open
      BY <2>4 DEF ClientReset
    <3>2. QED BY <2>1, <3>1 DEF MoveOutside
  <2>5. CASE \E p \in Sends : ClientSend(c, p)
    <3>1. PICK p \in Sends : /\ CanSend(conn[c], p)
                             /\ conn' = [conn EXCEPT ![c] = Sent(conn[c], p)]
      BY <2>5 DEF ClientSend
    <3>2. QED BY <2>1, <3>1 DEF MoveOutside
  <2>6. QED BY <1>3, <2>2, <2>3, <2>4, <2>5 DEF Client
<1>4. QED BY <1>1, <1>2, <1>3

\* Every step is a move of every connection, from a connection that fits to
\* one that fits.
LEMMA StepMove ==
  ASSUME LifeInv, [Next]_vars, NEW c \in Conns
  PROVE  /\ Fit(conn[c], Place(c), job[c])
         /\ Fit(conn'[c], (Place(c))', job'[c])
         /\ Move(conn[c], Place(c), job[c], conn'[c], (Place(c))', job'[c])
<1>1. LifeInv'
  BY LifeStep
<1>2. Fit(conn[c], Place(c), job[c])
  BY LifeFit
<1>3. Fit(conn'[c], (Place(c))', job'[c])
  <2>1. /\ conn'[c] \in WebsType /\ pc' \in PcType
        /\ job'[c] \in {"none", "started", "output"} /\ Sound(conn'[c])
    BY <1>1 DEF LifeInv, TypeOK
  <2>2. (Place(c))' \in Sites
    BY <2>1 DEF Place, PcType, Sites
  <2>3. (Place(c))' = "select" => (Waiting(c))'
    BY DEF Place, Waiting, At
  <2>4. (Place(c))' # "select" => pc'.c = c /\ (Place(c))' = pc'.at
    BY DEF Place
  <2>5. QED
    BY <1>1, <2>1, <2>2, <2>3, <2>4
       DEF Fit, LifeInv, Located, Here, At, PumpSites
<1>4. Move(conn[c], Place(c), job[c], conn'[c], (Place(c))', job'[c])
  <2>1. CASE Handle
    <3>1. CASE c = pc.c
      BY <2>1, <3>1, HandleMove DEF Place, Here
    <3>2. CASE c # pc.c
      BY <2>1, <3>2, HandleMove DEF Place, Move
    <3>3. QED BY <3>1, <3>2
  <2>2. CASE Tick \/ \E d \in Conns : Client(d)
    BY <2>2, OutsideMove DEF Place
  <2>3. ASSUME NEW d \in Conns, Server(d)
        PROVE  Move(conn[c], Place(c), job[c], conn'[c], (Place(c))', job'[c])
    <3>1. /\ At("select") /\ (pc' = pc \/ pc'.c = d)
          /\ \A e \in Conns \ {d} : conn'[e] = conn[e] /\ job'[e] = job[e]
          /\ Move(conn[d], "select", job[d], conn'[d],
                  IF pc' = pc THEN "select" ELSE pc'.at, job'[d])
      BY <2>3, ServerMove
    <3>2. Place(c) = "select"
      BY <3>1 DEF At, Place
    <3>3. CASE c = d
      <4>1. (Place(c))' = IF pc' = pc THEN "select" ELSE pc'.at
        BY <3>1, <3>2, <3>3 DEF Place, At
      <4>2. QED BY <3>1, <3>2, <3>3, <4>1
    <3>4. CASE c # d
      <4>1. (Place(c))' = "select"
        BY <3>1, <3>2, <3>4 DEF Place, At
      <4>2. QED BY <3>1, <3>2, <3>4, <4>1 DEF Move
    <3>5. QED BY <3>3, <3>4
  <2>4. CASE UNCHANGED vars
    BY <2>4 DEF vars, Move, Place
  <2>5. QED BY <2>1, <2>2, <2>3, <2>4 DEF Next
<1>5. QED BY <1>2, <1>3, <1>4

(***************************************************************************)
(* Closed connections are freed.  Without CGI a connection is closed only  *)
(* by checkTimeout, which frees it, and by the handlers of socketEvent,    *)
(* which end by looking at WEBS_CLOSED.                                    *)
(***************************************************************************)
FreedInv(w, s, j) ==
  /\ j = "none" /\ s # "pumpCgi"
  /\ s = "select" /\ w.live => ~w.closed

\* A move keeps it.
LEMMA FreedMove ==
  ASSUME "cgi" \notin Handlers, NEW w, NEW s, NEW j, NEW v, NEW t, NEW k,
         Fit(w, s, j), Fit(v, t, k), Move(w, s, j, v, t, k), FreedInv(w, s, j)
  PROVE  FreedInv(v, t, k)
<1>1. w \in WebsType /\ s \in Sites
  BY DEF Fit
<1>2. CASE v = w /\ t = s /\ k = j
  BY <1>2
<1>3. CASE MoveBegin(w, s, j, v, t, k)
  <2>1. ~AcceptFailed(w).closed /\ ~NoWebs.live
    BY FreeType DEF AcceptFailed, NoWebs, WebsType
  <2>2. \A x : [w EXCEPT !.timer = x].live = w.live
               /\ [w EXCEPT !.timer = x].closed = w.closed
    BY <1>1 DEF WebsType
  <2>3. QED BY <1>3, <2>1, <2>2 DEF MoveBegin, FreedInv
<1>4. ~MovePoll(w, s, j, v, t, k)
  BY DEF MovePoll, FreedInv
<1>5. CASE MoveEvent(w, s, j, v, t, k)
  <2>1. k = j /\ t # "pumpCgi"
    BY <1>5 DEF MoveEvent
  <2>2. t = "select" => v = IF w.closed THEN NoWebs ELSE w
    BY <1>5 DEF MoveEvent
  <2>3. ~NoWebs.live
    BY DEF NoWebs
  <2>4. QED BY <2>1, <2>2, <2>3 DEF FreedInv
<1>6. CASE MovePump(w, s, j, v, t, k)
  <2>1. k = j /\ t \in {s, ReturnOf[s]}
    BY <1>6 DEF MovePump, MoveBEGIN, MoveCONTENT, MoveREADY, MoveCOMPLETE
  <2>2. t \in {"pumpRead", "pumpLost", "pumpWrite", "tail", "lost", "end"}
    BY <1>6, <2>1 DEF MovePump, PumpSites, ReturnOf, FreedInv
  <2>3. QED BY <2>1, <2>2 DEF FreedInv
<1>7. CASE MoveOutside(w, s, j, v, t, k)
  <2>1. v.live = w.live /\ v.closed = w.closed
    BY <1>1, <1>7 DEF MoveOutside, Sent, WebsType
  <2>2. QED BY <1>7, <2>1 DEF MoveOutside, FreedInv
<1>8. QED BY <1>2, <1>3, <1>4, <1>5, <1>6, <1>7 DEF Move

\* Back in select, no connection is closed and still allocated, in a server
\* without CGI programs (websCgiPoll completes a connection and does not look
\* whether it closed it).
THEOREM ClosedFreed ==
  ASSUME "cgi" \notin Handlers
  PROVE  Spec => []ClosedIsFreed
<1> DEFINE Inv == LifeInv /\ \A c \in Conns : FreedInv(conn[c], Place(c), job[c])
<1>1. Init => Inv
  <2>1. Init => \A c \in Conns : FreedInv(conn[c], Place(c), job[c])
    BY DEF Init, FreedInv, Place, NoWebs
  <2>2. QED BY <2>1, LifeInit
<1>2. Inv /\ [Next]_vars => Inv'
  <2> SUFFICES ASSUME Inv, [Next]_vars PROVE Inv'
    OBVIOUS
  <2>1. LifeInv'
    BY LifeStep
  <2>2. ASSUME NEW c \in Conns
        PROVE  FreedInv(conn'[c], (Place(c))', job'[c])
    <3>1. /\ Fit(conn[c], Place(c), job[c])
          /\ Fit(conn'[c], (Place(c))', job'[c])
          /\ Move(conn[c], Place(c), job[c], conn'[c], (Place(c))', job'[c])
      BY StepMove
    <3>2. FreedInv(conn[c], Place(c), job[c])
      OBVIOUS
    <3>3. QED BY <3>1, <3>2, FreedMove
  <2>3. QED BY <2>1, <2>2 DEF FreedInv, Place
<1>3. Inv => ClosedIsFreed
  BY DEF ClosedIsFreed, FreedInv, Place, At
<1> HIDE DEF Inv
<1>4. QED BY <1>1, <1>2, <1>3, PTL DEF Spec

\* A connection that is new, or not there.
LEMMA FreshMakes ==
  ASSUME NEW w \in WebsType, NEW v \in {NoWebs, Accepting(w), AcceptFailed(w)}
  PROVE  /\ v.rx = << >> /\ v.net = << >> /\ v.state = BEGIN /\ v.mask = {}
         /\ ~v.fin /\ ~v.hdr /\ ~v.late /\ ~v.cut /\ ~v.writer /\ ~v.closed
         /\ ~v.ka /\ ~v.shut /\ ~v.rst /\ ~v.sockEof
         /\ v.out = 0 /\ v.doc = 0 /\ v.rem = 0 /\ v.owe = 0
<1>1. CASE v = NoWebs
  BY <1>1 DEF NoWebs
<1>2. CASE v = Accepting(w)
  BY <1>2 DEF NoWebs, Accepting
<1>3. CASE v = AcceptFailed(w)
  BY <1>3 DEF NoWebs, AcceptFailed
<1>4. QED BY <1>1, <1>2, <1>3

\* What socketEvent and checkTimeout change of a connection they do not free.
LEMMA BeginMakes ==
  ASSUME NEW w \in WebsType, NEW v,
         \/ v = [w EXCEPT !.resv = FALSE]
         \/ \E x : v = [w EXCEPT !.timer = x]
  PROVE  /\ v.live = w.live /\ v.state = w.state /\ v.ka = w.ka
         /\ v.closed = w.closed /\ v.fin = w.fin /\ v.hdr = w.hdr
         /\ v.rx = w.rx /\ v.rem = w.rem /\ v.out = w.out
         /\ v.writer = w.writer /\ v.doc = w.doc /\ v.late = w.late
         /\ v.cut = w.cut /\ v.open = w.open /\ v.mask = w.mask
         /\ v.sockEof = w.sockEof /\ v.net = w.net /\ v.owe = w.owe
         /\ v.shut = w.shut /\ v.rst = w.rst
<1>1. CASE v = [w EXCEPT !.resv = FALSE]
  BY <1>1 DEF WebsType
<1>2. CASE \E x : v = [w EXCEPT !.timer = x]
  BY <1>2 DEF WebsType
<1>3. QED BY <1>1, <1>2

\* What clients and the clock leave alone.
LEMMA OutsideMakes ==
  ASSUME NEW w \in WebsType, NEW s, NEW j, NEW v, NEW t, NEW k,
         MoveOutside(w, s, j, v, t, k)
  PROVE  /\ t = s /\ k = j
         /\ v.live = w.live /\ v.state = w.state /\ v.ka = w.ka
         /\ v.closed = w.closed /\ v.fin = w.fin /\ v.hdr = w.hdr
         /\ v.rx = w.rx /\ v.rem = w.rem /\ v.out = w.out
         /\ v.writer = w.writer /\ v.doc = w.doc /\ v.late = w.late
         /\ v.cut = w.cut /\ v.open = w.open /\ v.mask = w.mask
         /\ v.sockEof = w.sockEof
<1>1. t = s /\ k = j
  BY DEF MoveOutside
<1>2. CASE \E p \in Sends : v = Sent(w, p)
  BY <1>1, <1>2 DEF Sent, WebsType
<1>3. CASE \E x : v = [w EXCEPT !.room = x]
  BY <1>1, <1>3 DEF WebsType
<1>4. CASE v = [w EXCEPT !.shut = TRUE]
  BY <1>1, <1>4 DEF WebsType
<1>5. CASE v = [w EXCEPT !.rst = TRUE, !.net = << >>]
  BY <1>1, <1>5 DEF WebsType
<1>6. CASE \E x, a : v = [w EXCEPT !.timer = x, !.age = a]
  BY <1>1, <1>6 DEF WebsType
<1>7. QED BY <1>2, <1>3, <1>4, <1>5, <1>6 DEF MoveOutside

\* What a client does to its side of the stream.
LEMMA ClientMakes ==
  ASSUME NEW w \in WebsType, NEW s, NEW j, NEW v, NEW t, NEW k,
         MoveOutside(w, s, j, v, t, k)
  PROVE  \/ \E p \in Sends : /\ CanSend(w, p) /\ v.net = Append(w.net, p)
                             /\ v.owe = Sent(w, p).owe
                             /\ v.shut = w.shut /\ v.rst = w.rst
         \/ /\ v.net = w.net /\ v.owe = w.owe /\ v.rst = w.rst
            /\ v.shut = w.shut \/ "shut" \in Faults
         \/ /\ "reset" \in Faults /\ v.net = << >> /\ v.owe = w.owe
            /\ v.shut = w.shut /\ v.rst
<1>2. CASE \E p \in Sends : CanSend(w, p) /\ v = Sent(w, p)
  <2>1. PICK p \in Sends : CanSend(w, p) /\ v = Sent(w, p)
    BY <1>2
  <2>2. v.net = Append(w.net, p) /\ v.shut = w.shut /\ v.rst = w.rst
    BY <2>1 DEF Sent, WebsType
  <2>3. QED BY <2>1, <2>2
<1>3. CASE \E x : v = [w EXCEPT !.room = x]
  BY <1>3 DEF WebsType
<1>4. CASE "shut" \in Faults /\ v = [w EXCEPT !.shut = TRUE]
  BY <1>4 DEF WebsType
<1>5. CASE "reset" \in Faults /\ v = [w EXCEPT !.rst = TRUE, !.net = << >>]
  BY <1>5 DEF WebsType
<1>6. CASE \E x, a : v = [w EXCEPT !.timer = x, !.age = a]
  BY <1>6 DEF WebsType
<1>7. QED BY <1>2, <1>3, <1>4, <1>5, <1>6 DEF MoveOutside

\* What websCgiGatherOutput may make of a connection, and what websCgiPoll
\* then does with it.
Gathers(w) == {w, WriteBlock(WriteHeaders(w)),
               WriteBlock(WriteBlock(WriteHeaders(w)))}

Polled(g, j, v, t, k) ==
  \/ /\ v = g /\ t = "select" /\ k # "none"
     /\ k = "output" => g.hdr \/ j = "output"
  \/ /\ t = "pumpCgi" /\ k = "none"
     /\ \/ v = Done(g) /\ (g.hdr \/ j = "output")
        \/ v = Error(g, FALSE)

\* websCgiPoll: blocks, if the program wrote any, and if it ended websDone,
\* or websError when it wrote nothing.
LEMMA PollMakes ==
  ASSUME NEW w, NEW s, NEW j, NEW v, NEW t, NEW k,
         Fit(w, s, j), MovePoll(w, s, j, v, t, k)
  PROVE  /\ s = "select" /\ j # "none"
         /\ \/ ~w.live /\ v = w /\ k = "none" /\ t = s
            \/ /\ w.live /\ ~w.closed /\ Kept(v, w)
               /\ \E g \in Gathers(w) :
                    g \in WebsType /\ Kept(g, w) /\ Polled(g, j, v, t, k)
<1>1. s = "select" /\ j # "none" /\ w \in WebsType
  BY DEF MovePoll, Fit
<1>2. CASE ~w.live
  BY <1>1, <1>2 DEF MovePoll
<1>3. CASE w.live
  <2>1. ~w.closed
    BY <1>1 DEF Fit
  <2>2. PICK n \in {0, 1, 2} :
          LET g == Gather(w, n)
              wrote == n > 0 \/ j = "output"
          IN \/ v = g /\ t = s /\ k = IF wrote THEN "output" ELSE "started"
             \/ /\ t = "pumpCgi" /\ k = "none"
                /\ v = IF wrote THEN Done(g) ELSE Error(g, FALSE)
    BY <1>3 DEF MovePoll
  <2> DEFINE g == Gather(w, n)
             h == WriteHeaders(w)
             b == WriteBlock(h)
  <2>3. g \in {w, b, WriteBlock(b)} /\ (n > 0 => g \in {b, WriteBlock(b)})
    <3> HIDE DEF h, b
    <3>1. Gather(w, 0) = w /\ Gather(w, 1) = b /\ Gather(w, 2) = WriteBlock(b)
      BY DEF Gather, h, b
    <3>2. QED BY <3>1
  <2>4. h \in WebsType /\ h.hdr
    BY <1>1, WriteHeadersKept, WriteHeadersMakes DEF Kept
  <2>5. b \in WebsType /\ b.hdr
    <3> HIDE DEF h
    <3>1. QED BY <2>4, WriteBlockKept, WriteBlockMakes DEF Kept
  <2>6. WriteBlock(b).hdr
    <3> HIDE DEF b
    <3>1. QED BY <2>5, WriteBlockKept, WriteBlockMakes DEF Kept
  <2>7. Kept(w, w) /\ Kept(b, w) /\ Kept(WriteBlock(b), w)
    BY <1>1, BlocksKept, KeptRefl
  <2> HIDE DEF h, b
  <2>8. Kept(g, w) /\ g \in WebsType /\ (n > 0 => g.hdr)
    BY <2>3, <2>5, <2>6, <2>7 DEF Kept
  <2> HIDE DEF g
  <2>9. Kept(Done(g), w) /\ Kept(Error(g, FALSE), w)
    BY <2>8, DoneKept, ErrorKept, KeptTrans
  <2>10. Polled(g, j, v, t, k)
    BY <1>1, <2>2, <2>8 DEF g, Polled
  <2>11. Kept(v, w)
    BY <2>8, <2>9, <2>10 DEF Polled
  <2>12. g \in Gathers(w)
    BY <2>3 DEF h, b, Gathers
  <2>13. QED BY <1>1, <1>3, <2>1, <2>8, <2>10, <2>11, <2>12
<1>4. QED BY <1>2, <1>3

(***************************************************************************)
(* Nothing is queued behind an ended response, in a server that answers    *)
(* every request through its handler: no refused request (routed all the   *)
(* same once its error reply is queued) and no failing consumer of a body  *)
(* (whose connection goes on to its handler).  A connection has then ended *)
(* its response only while its request runs or is complete.                *)
(***************************************************************************)
Refusals == {"bad", "huge"}

\* Every request is served by a handler.
AllServed ==
  /\ "error" \notin Handlers
  /\ Sends \cap Refusals = {}
  /\ Faults \cap {"put", "upload"} = {}

\* Nothing is late, and no document is left to make it so.
Clean(w) == ~w.late /\ (w.fin => w.doc = 0)

Fine == Pieces \ Refusals

LateInv(w, s, j) ==
  /\ Clean(w)
  /\ w.rx \in Seq(Fine) /\ w.net \in Seq(Fine)
  /\ w.fin /\ ~w.closed => w.state \in {RUNNING, COMPLETE} \/ s \in {"pumpLost", "lost"}
  /\ s \in {"pumpLost", "lost"} /\ ~w.closed => w.state \in {CONTENT, COMPLETE}
  /\ s \in {"tail", "pumpLost", "lost"} /\ w.state = CONTENT => w.rx = << >>
  /\ j # "none" /\ w.live =>
       ~w.fin /\ ~w.writer /\ (w.closed \/ w.state \in {RUNNING, COMPLETE})

\* websWriteHeaders and blocks, before websDone.
LEMMA BlocksClean ==
  ASSUME NEW w \in WebsType, Clean(w), ~w.fin
  PROVE  \A b \in {WriteHeaders(w), WriteBlock(WriteHeaders(w)),
                   WriteBlock(WriteBlock(WriteHeaders(w)))} :
           b \in WebsType /\ Clean(b) /\ ~b.fin
<1> DEFINE h == WriteHeaders(w)
           b == WriteBlock(h)
<1>1. h \in WebsType /\ Clean(h) /\ ~h.fin
  BY WriteHeadersKept, WriteHeadersMakes DEF Kept, Clean
<1> HIDE DEF h
<1>2. b \in WebsType /\ Clean(b) /\ ~b.fin
  BY <1>1, WriteBlockKept, WriteBlockMakes DEF Kept, Clean
<1> HIDE DEF b
<1>3. WriteBlock(b) \in WebsType /\ Clean(WriteBlock(b)) /\ ~WriteBlock(b).fin
  BY <1>2, WriteBlockKept, WriteBlockMakes DEF Kept, Clean
<1>4. QED BY <1>1, <1>2, <1>3 DEF h, b

\* websDone.
LEMMA DoneClean == ASSUME NEW w \in WebsType, Clean(w) PROVE Clean(Done(w))
BY DoneMakes DEF Clean

\* websError, before websDone.
LEMMA ErrorClean ==
  ASSUME NEW w \in WebsType, Clean(w), ~w.fin, NEW close \in BOOLEAN
  PROVE  Clean(Error(w, close))
<1> DEFINE e == [w EXCEPT !.ka = @ /\ ~close /\ w.rem = 0]
<1>1. e \in WebsType /\ Clean(e) /\ ~e.fin
  BY ZenonT(60) DEF WebsType, Clean
<1>2. Error(w, close) = Done(WriteBlock(WriteHeaders(e)))
  BY DEF Error, Response
<1> HIDE DEF e
<1>3. QED BY <1>1, <1>2, BlocksClean, DoneClean

\* fileWriteEvent and writeEvent.
LEMMA WriteEventClean ==
  ASSUME NEW w \in WebsType, Clean(w)
  PROVE  Clean(FileWrite(w)) /\ Clean(WriteEvent(w))
<1>1. ASSUME NEW u \in WebsType, Clean(u) PROVE Clean(FileWrite(u))
  BY <1>1, FileWriteMakes DEF Clean
<1> DEFINE f == IF w.out > 0 THEN Flush(w) ELSE w
<1>2. f \in WebsType /\ Clean(f)
  BY FlushKept, FlushMakes DEF Kept, Clean
<1>3. WriteEvent(w) = IF f.out = 0 /\ f.writer THEN FileWrite(f) ELSE f
  BY DEF WriteEvent
<1> HIDE DEF f
<1>4. QED BY <1>1, <1>2, <1>3

\* The handlers.
LEMMA ServeClean ==
  ASSUME NEW w \in WebsType, Clean(w), ~w.fin
  PROVE  /\ Clean(Running(w)) /\ ~Running(w).fin
         /\ \A n \in Nat : Clean(ServeAction(w, n))
         /\ \A n \in Document : Clean(ServeFile(w, n))
<1> DEFINE r == Running(w)
           h == WriteHeaders(r)
<1>1. r \in WebsType /\ Clean(r) /\ ~r.fin
  BY RunningType DEF Running, WebsType, Clean
<1> HIDE DEF r
<1>2. \A b \in {h, WriteBlock(h), WriteBlock(WriteBlock(h))} :
        b \in WebsType /\ Clean(b) /\ ~b.fin
  BY <1>1, BlocksClean
<1>3. ASSUME NEW n \in Nat PROVE Clean(ServeAction(w, n))
  <2> DEFINE b == CASE n = 0 -> h
                    [] n = 1 -> WriteBlock(h)
                    [] OTHER -> WriteBlock(WriteBlock(h))
  <2>1. ServeAction(w, n) = Done(b)
    BY DEF ServeAction, r
  <2>2. b \in WebsType /\ Clean(b)
    <3> HIDE DEF h
    <3>1. QED BY <1>2
  <2> HIDE DEF b
  <2>3. QED BY <2>1, <2>2, DoneClean
<1>4. ASSUME NEW n \in Document PROVE Clean(ServeFile(w, n))
  <2> DEFINE d == [h EXCEPT !.doc = n]
  <2>1. ServeFile(w, n) = IF n = 0 THEN Done(h) ELSE SetBackgroundWriter(d)
    BY DEF ServeFile, r
  <2>2. h \in WebsType /\ Clean(h) /\ ~h.fin
    BY <1>2
  <2> HIDE DEF h
  <2>3. Writing(d) \in WebsType /\ Clean(Writing(d))
    BY <2>2 DEF WebsType, Clean, Writing
  <2> DEFINE s == Writing(d)
             f == IF Flushed(s) THEN FileWrite(Flush(s)) ELSE Flush(s)
             m == IF f.state # COMPLETE THEN f.mask \cup {"W"} ELSE f.mask
             v == [f EXCEPT !.mask = m]
  <2>4. SetBackgroundWriter(d) = v
    BY DEF SetBackgroundWriter, Writing
  <2> HIDE DEF d
  <2>5. Flush(s) \in WebsType /\ Clean(Flush(s))
    BY <2>3, FlushKept, FlushMakes DEF Kept, Clean
  <2>6. FileWrite(Flush(s)) \in WebsType /\ Clean(FileWrite(Flush(s)))
    BY <2>5, FileWriteKept, WriteEventClean DEF Kept
  <2> HIDE DEF s
  <2>7. f \in WebsType /\ Clean(f)
    BY <2>5, <2>6
  <2> HIDE DEF f, m
  <2>8. Clean(v)
    BY <2>7 DEF WebsType, Clean
  <2>9. QED BY <2>1, <2>2, <2>4, <2>8, DoneClean
<1>5. QED BY <1>1, <1>3, <1>4 DEF r

\* Where a turn of websPump leaves the thread.
LEMMA PumpPlace ==
  ASSUME NEW w, NEW s, NEW j, NEW v, NEW t, NEW k, MovePump(w, s, j, v, t, k)
  PROVE  /\ s \in PumpSites /\ t \in {s, ReturnOf[s]}
         /\ t \in {"pumpLost", "lost"} <=> s = "pumpLost"
         /\ s # "pumpCgi" => t # "select"
         /\ ReturnOf[s] \in {"tail", "lost", "end", "select"}
<1>1. s \in PumpSites /\ t \in {s, ReturnOf[s]}
  BY DEF MovePump, MoveBEGIN, MoveCONTENT, MoveREADY, MoveCOMPLETE
<1>2. QED BY <1>1 DEF PumpSites, ReturnOf

\* A turn of websPump keeps the invariant.
LEMMA LatePump ==
  ASSUME AllServed, NEW w, NEW s, NEW j, NEW v, NEW t, NEW k,
         Fit(w, s, j), Fit(v, t, k), MovePump(w, s, j, v, t, k),
         LateInv(w, s, j)
  PROVE  LateInv(v, t, k)
<1>1. /\ w \in WebsType /\ v \in WebsType /\ Sound(w) /\ w.live
      /\ s \in PumpSites
      /\ j # "none" => (~w.closed => w.state \in {RUNNING, COMPLETE})
      /\ s = "pumpLost" => w.state # BEGIN \/ w.closed
  BY DEF Fit, MovePump, PumpSites, LateInv
<1>2. t \in {s, ReturnOf[s]} /\ (t \in {"pumpLost", "lost"} <=> s = "pumpLost")
  BY PumpPlace
<1>3. w.closed => w.rx = << >> /\ w.state \in {BEGIN, COMPLETE}
  BY <1>1 DEF Sound
<1>4. CASE v = w /\ k = j /\ (w.state = CONTENT => w.rx = << >>)
  <2>1. s \notin {"tail", "lost"}
    BY <1>1 DEF PumpSites
  <2>2. w.closed \/ (w.state = BEGIN => s # "pumpLost")
    BY <1>1
  <2>3. QED BY <1>1, <1>2, <1>3, <1>4, <2>1, <2>2, StatesDiffer DEF LateInv
<1>5. CASE w.state = BEGIN /\ ~ParseWaits(w) /\ v = ParseIncoming(w) /\ t = s /\ k = j
  <2>1. ~w.closed /\ s # "pumpLost" /\ ~w.fin /\ j = "none"
    BY <1>1, <1>3, <1>5, StatesDiffer DEF ParseWaits, HeaderReady, LateInv, PumpSites
  <2>2. w.rx \in Seq(Fine) /\ w.rx # << >>
    BY <1>5 DEF LateInv, ParseWaits, HeaderReady
  <2>3. Head(w.rx) \in Fine
    BY <2>2
  <2>4. HeaderReady(w.rx)
    BY <1>5, <2>3 DEF ParseWaits, Fine, Refusals
  <2>5. HeaderOf(w.rx) # "bad"
    <3>1. Len(w.rx) > 1 => w.rx[2] \in Fine
      BY <2>2
    <3>2. Head(w.rx) = "frag" => Len(w.rx) > 1
      BY <2>4 DEF HeaderReady, Headers
    <3>3. QED BY <2>3, <3>1, <3>2 DEF HeaderOf, Fine, Refusals
  <2>6. v = Accepted(w, HeaderOf(w.rx))
    BY <1>5, <2>4, <2>5 DEF ParseIncoming
  <2>7. AfterHeader(w.rx) \in Seq(Fine)
    BY <2>2, <2>4, HeaderType
  <2>8. /\ v.rx = AfterHeader(w.rx) /\ v.net = w.net /\ v.fin = w.fin
        /\ v.late = w.late /\ v.doc = w.doc /\ v.closed = w.closed
    BY <1>1, <2>6 DEF Accepted, WebsType
  <2>9. QED BY <1>1, <1>5, <2>1, <2>7, <2>8 DEF LateInv, Clean, PumpSites
<1>6. CASE /\ w.state = CONTENT /\ w.rx # << >> /\ k = j /\ v = AtEnd(TakeBody(w))
           /\ t = IF TakeBody(w).rem = 0 THEN s ELSE ReturnOf[s]
  <2>1. ~w.closed /\ s # "pumpLost" /\ ~w.fin /\ j = "none"
    BY <1>1, <1>3, <1>6, StatesDiffer DEF LateInv, PumpSites
  <2> DEFINE b == TakeBody(w)
             n == Least(w.rem, Len(w.rx))
             x == SubSeq(w.rx, n + 1, Len(w.rx))
             r == w.rem - n
  <2>2. w.rx \in Seq(Fine) /\ w.rem \in Nat /\ Len(w.rx) \in Nat
    BY <1>1, CoreAssumption DEF LateInv, WebsType, Body
  <2>3. n \in Nat /\ (r # 0 => n = Len(w.rx))
    BY <2>2 DEF Least
  <2>4. x \in Seq(Fine)
    <3> HIDE DEF n
    <3>1. QED BY <2>2, <2>3
  <2>5. r # 0 => x = << >>
    <3> HIDE DEF n
    <3>1. r # 0 => x = SubSeq(w.rx, Len(w.rx) + 1, Len(w.rx))
      BY <2>3
    <3> HIDE DEF r, x
    <3>2. SubSeq(w.rx, Len(w.rx) + 1, Len(w.rx)) = << >>
      BY <2>2
    <3>3. QED BY <3>1, <3>2
  <2>6. b = [w EXCEPT !.rx = x, !.rem = r]
    BY DEF TakeBody
  <2> HIDE DEF n, x, r
  <2>7. /\ b \in WebsType /\ b.rx = x /\ b.rem = r /\ b.net = w.net
        /\ b.fin = w.fin /\ b.late = w.late /\ b.doc = w.doc
        /\ b.closed = w.closed
    BY <1>1, <2>6, TakeBodyType DEF WebsType
  <2> HIDE DEF b
  <2>8. /\ v.rx = x /\ v.net = w.net /\ v.fin = w.fin /\ v.late = w.late
        /\ v.doc = w.doc /\ v.closed = w.closed
        /\ v.state = CONTENT => t = s \/ x = << >>
    BY <1>6, <2>5, <2>7 DEF AtEnd, BodyDone, WebsType, b
  <2>9. t \notin {"pumpLost", "lost"}
    BY <1>2, <2>1
  <2>10. s # "tail"
    BY <1>1 DEF PumpSites
  <2>11. QED BY <1>6, <2>1, <2>4, <2>8, <2>9, <2>10 DEF LateInv, Clean
<1>7. CASE MoveREADY(w, s, j, v, t, k)
  <2>1. ~w.closed /\ s # "pumpLost" /\ ~w.fin /\ j = "none" /\ ~w.writer
    BY <1>1, <1>3, <1>7, StatesDiffer DEF LateInv, PumpSites, MoveREADY, Sound
  <2> DEFINE r == Running(w)
             q == Writing(r)
  <2>2. Clean(r) /\ ~r.fin /\ (\A n \in Nat : Clean(ServeAction(w, n)))
        /\ (\A n \in Document : Clean(ServeFile(w, n)))
    BY <1>1, <2>1, ServeClean DEF LateInv
  <2>3. r \in WebsType /\ r.state = RUNNING
        /\ r.rx = w.rx /\ r.net = w.net /\ r.writer = w.writer
    BY <1>1, RunningType DEF Running, WebsType
  <2>4. q.state = RUNNING /\ q.rx = w.rx /\ q.net = w.net
    BY <2>3 DEF Writing, WebsType
  <2> HIDE DEF q
  <2>5. "error" \notin Handlers
    BY DEF AllServed
  <2>6. \/ k = j /\ Clean(v) /\ (Kept(v, r) \/ Kept(v, q))
        \/ k = "started" /\ v = r
    <3>1. \A n \in Nat : Kept(ServeAction(w, n), r)
      BY <1>1, ServeActionKept
    <3>2. \A n \in Document : Kept(ServeFile(w, n), r) \/ Kept(ServeFile(w, n), q)
      BY <1>1, ServeFileKept DEF q
    <3>3. QED BY <1>7, <2>2, <2>5, <3>1, <3>2 DEF MoveREADY
  <2> HIDE DEF r
  <2>7. v.state \in {RUNNING, COMPLETE} /\ v.rx = w.rx /\ v.net = w.net
        /\ Clean(v)
    BY <2>2, <2>3, <2>4, <2>6 DEF Kept
  <2>8. k # "none" => ~v.fin /\ ~v.writer
    BY <2>1, <2>2, <2>3, <2>6
  <2>9. t \notin {"pumpLost", "lost"}
    BY <1>2, <2>1
  <2>10. QED BY <2>7, <2>8, <2>9, StatesDiffer DEF LateInv
<1>8. CASE MoveCOMPLETE(w, s, j, v, t, k)
  <2>1. w.state = COMPLETE /\ k = j /\ v = Complete(w)
    BY <1>8 DEF MoveCOMPLETE
  <2>2. CASE w.ka /\ w.rem = 0
    <3>1. v = ReuseConn(w)
      BY <2>1, <2>2 DEF Complete
    <3>2. /\ v.rx = w.rx /\ v.net = w.net /\ ~v.fin /\ ~v.late
          /\ v.state = BEGIN
      BY <1>1, <3>1, ReuseConnMakes
    <3>3. j = "none" /\ s # "pumpLost"
      BY <1>1, <2>1, <2>2 DEF LateInv, Sound, Fit
    <3>4. QED BY <1>2, <2>1, <3>2, <3>3, StatesDiffer DEF LateInv, Clean
  <2>3. CASE ~(w.ka /\ w.rem = 0)
    <3>1. v = CloseConn(w)
      BY <2>1, <2>3 DEF Complete
    <3>2. /\ v.rx = << >> /\ v.net = << >> /\ v.fin = w.fin /\ v.late = w.late
          /\ v.doc = w.doc /\ v.closed /\ v.writer = w.writer /\ v.live = w.live
      BY <1>1, <3>1, CloseConnMakes
    <3>3. v.rx \in Seq(Fine) /\ v.net \in Seq(Fine)
      BY <3>2
    <3>4. QED BY <2>1, <3>2, <3>3 DEF LateInv, Clean
  <2>4. QED BY <2>2, <2>3
<1>9. QED
  <2>1. "put" \notin Faults /\ "upload" \notin Faults
    BY DEF AllServed
  <2>2. CASE MoveBEGIN(w, s, j, v, t, k)
    BY <1>4, <1>5, <2>2, StatesDiffer DEF MoveBEGIN
  <2>3. CASE MoveCONTENT(w, s, j, v, t, k)
    BY <1>4, <1>6, <2>1, <2>3 DEF MoveCONTENT
  <2>4. CASE w.state = RUNNING /\ v = w /\ t = ReturnOf[s] /\ k = j
    BY <1>4, <2>4, StatesDiffer
  <2>5. QED BY <1>7, <1>8, <2>2, <2>3, <2>4 DEF MovePump

\* readEvent and writeEvent keep it.
LEMMA LateEvent ==
  ASSUME AllServed, NEW w, NEW s, NEW j, NEW v, NEW t, NEW k,
         Fit(w, s, j), Fit(v, t, k), MoveEvent(w, s, j, v, t, k),
         LateInv(w, s, j)
  PROVE  LateInv(v, t, k)
<1>1. /\ w \in WebsType /\ v \in WebsType /\ Sound(w) /\ k = j
      /\ s # "select" => w.live
  BY DEF Fit, MoveEvent
<1>2. CASE s = "read" /\ v = ReadSocket(w) /\ t \in {"pumpRead", "tail"}
           /\ (t = "tail" => w.state = BEGIN)
  <2>1. w.rx \o w.net \in Seq(Fine) /\ << >> \in Seq(Fine)
    BY DEF LateInv
  <2>2. /\ v.rx \in Seq(Fine) /\ v.net \in Seq(Fine)
        /\ v.fin = w.fin /\ v.late = w.late /\ v.doc = w.doc
        /\ v.closed = w.closed /\ v.state = w.state /\ v.live = w.live
        /\ v.writer = w.writer
    BY <1>1, <1>2, <2>1 DEF ReadSocket, WebsType, LateInv
  <2>3. QED BY <1>1, <1>2, <2>2, StatesDiffer DEF LateInv, Clean
<1>3. CASE v = CloseConn(w) /\ t = "write" /\ s # "select"
  <2>1. /\ v.rx = << >> /\ v.net = << >> /\ v.fin = w.fin /\ v.late = w.late
        /\ v.doc = w.doc /\ v.closed /\ v.writer = w.writer /\ v.live = w.live
    BY <1>1, <1>3, CloseConnMakes
  <2>2. v.rx \in Seq(Fine) /\ v.net \in Seq(Fine)
    BY <2>1
  <2>3. QED BY <1>1, <1>3, <2>1, <2>2 DEF LateInv, Clean
<1>4. CASE s = "tail" /\ ~w.closed /\ w.state = CONTENT
           /\ v = Error(w, FALSE) /\ t = "pumpLost"
  <2>1. ~w.fin /\ w.rx = << >> /\ j = "none"
    BY <1>1, <1>4, StatesDiffer DEF LateInv
  <2>2. Clean(v) /\ Kept(v, w)
    BY <1>1, <1>4, <2>1, ErrorClean, ErrorKept DEF LateInv
  <2>3. QED BY <1>1, <1>4, <2>1, <2>2 DEF LateInv, Kept
<1>5. CASE /\ s = "tail" /\ t = "write"
           /\ \E m : v = [w EXCEPT !.mask = m]
  <2>1. /\ v.rx = w.rx /\ v.net = w.net /\ v.fin = w.fin /\ v.late = w.late
        /\ v.doc = w.doc /\ v.closed = w.closed /\ v.state = w.state
        /\ v.live = w.live /\ v.writer = w.writer
    BY <1>1, <1>5 DEF WebsType
  <2>2. QED BY <1>1, <1>5, <2>1 DEF LateInv, Clean
<1>6. CASE v = w /\ s \in {"tail", "write", "end"} /\ t \in {"write", "end", "select"}
  BY <1>1, <1>6 DEF LateInv
<1>7. CASE s = "write" /\ v = WriteEvent(w) /\ t \in {"pumpWrite", "end"}
  <2>1. Kept(v, w) /\ Clean(v)
    BY <1>1, <1>7, WriteEventKept, WriteEventClean DEF LateInv
  <2>2. v.fin => w.fin \/ w.writer
    BY <1>1, <1>7, WriteEventMakes
  <2>3. w.writer => w.closed \/ w.state \in {RUNNING, COMPLETE}
    BY <1>1 DEF Sound
  <2>4. v.state \in {w.state, COMPLETE}
    BY <2>1 DEF Kept
  <2>5. v.state = CONTENT => w.state = CONTENT
    BY <2>4, StatesDiffer
  <2>6. /\ v.closed = w.closed /\ v.live = w.live /\ v.writer = w.writer
        /\ v.rx = w.rx /\ v.net = w.net
    BY <2>1 DEF Kept
  <2>7. /\ v.fin /\ ~v.closed => v.state \in {RUNNING, COMPLETE}
        /\ k # "none" /\ v.live =>
             ~v.fin /\ ~v.writer /\ (v.closed \/ v.state \in {RUNNING, COMPLETE})
    BY <1>1, <1>7, <2>2, <2>3, <2>4, <2>6 DEF LateInv
  <2>8. QED BY <1>7, <2>1, <2>6, <2>7 DEF LateInv
<1>8. CASE s = "end" /\ w.closed /\ v = NoWebs /\ t = "select"
  <2>1. << >> \in Seq(Fine)
    OBVIOUS
  <2>2. QED BY <1>8, <2>1 DEF LateInv, Clean, NoWebs
<1>9. CASE s = "tail"
  <2>1. \/ v = w /\ t = "write"
        \/ v = CloseConn(w) /\ t = "write"
        \/ ~w.closed /\ w.state = CONTENT /\ v = Error(w, FALSE)
           /\ t = "pumpLost"
        \/ t = "write" /\ \E m : v = [w EXCEPT !.mask = m]
    BY <1>9 DEF MoveEvent
  <2>2. CASE v = w /\ t = "write"
    BY <1>6, <1>9, <2>2
  <2>3. CASE v = CloseConn(w) /\ t = "write"
    BY <1>3, <1>9, <2>3
  <2>4. CASE t = "write" /\ \E m : v = [w EXCEPT !.mask = m]
    BY <1>5, <1>9, <2>4
  <2>5. QED BY <1>4, <1>9, <2>1, <2>2, <2>3, <2>4
<1>10. CASE s = "write"
  <2>1. \/ v = w /\ t = "end"
        \/ v = WriteEvent(w) /\ t \in {"pumpWrite", "end"}
    BY <1>10 DEF MoveEvent
  <2>2. CASE v = w /\ t = "end"
    BY <1>6, <1>10, <2>2
  <2>3. QED BY <1>7, <1>10, <2>1, <2>2
<1>11. CASE s = "read"
  <2>1. v = ReadSocket(w) /\ t \in {"pumpRead", "tail"}
        /\ (t = "tail" => w.state = BEGIN)
    BY <1>11 DEF MoveEvent
  <2>2. QED BY <1>2, <1>11, <2>1
<1>12. CASE s = "end"
  <2>1. t = "select" /\ v = IF w.closed THEN NoWebs ELSE w
    BY <1>12 DEF MoveEvent
  <2>2. CASE w.closed
    BY <1>8, <1>12, <2>1, <2>2
  <2>3. CASE ~w.closed
    BY <1>6, <1>12, <2>1, <2>3
  <2>4. QED BY <2>2, <2>3
<1>13. CASE s = "lost"
  <2>1. v = CloseConn(w) /\ t = "write"
    BY <1>13 DEF MoveEvent
  <2>2. QED BY <1>3, <1>13, <2>1
<1>14. s \in {"read", "tail", "lost", "write", "end"}
  BY DEF MoveEvent
<1>15. QED BY <1>9, <1>10, <1>11, <1>12, <1>13, <1>14

\* A move keeps it.
LEMMA LateMove ==
  ASSUME AllServed, NEW w, NEW s, NEW j, NEW v, NEW t, NEW k,
         Fit(w, s, j), Fit(v, t, k), Move(w, s, j, v, t, k), LateInv(w, s, j)
  PROVE  LateInv(v, t, k)
<1>1. /\ w \in WebsType /\ v \in WebsType /\ Sound(w)
      /\ s = "select" /\ w.closed => j = "none"
  BY DEF Fit
<1>2. CASE v = w /\ t = s /\ k = j
  BY <1>2
<1>3. CASE MoveBegin(w, s, j, v, t, k)
  <2>1. << >> \in Seq(Fine)
    OBVIOUS
  <2>2. k = j /\ s = "select" /\ t \notin {"tail", "pumpLost", "lost"}
    BY <1>3 DEF MoveBegin
  <2>3. CASE \/ v = NoWebs
             \/ v \in {Accepting(w), AcceptFailed(w)} /\ j = "none"
    <3>1. /\ v.rx = << >> /\ v.net = << >> /\ ~v.fin /\ ~v.late
          /\ v.state = BEGIN /\ ~v.writer
      BY <1>1, <2>3, FreshMakes
    <3>2. j # "none" => v = NoWebs
      BY <2>3
    <3>3. ~NoWebs.live
      BY DEF NoWebs
    <3>4. QED BY <2>1, <2>2, <3>1, <3>2, <3>3, StatesDiffer DEF LateInv, Clean
  <2>4. CASE \/ v = [w EXCEPT !.resv = FALSE]
             \/ \E x : v = [w EXCEPT !.timer = x]
    <3>1. /\ v.rx = w.rx /\ v.net = w.net /\ v.fin = w.fin /\ v.late = w.late
          /\ v.doc = w.doc /\ v.closed = w.closed /\ v.state = w.state
          /\ v.live = w.live /\ v.writer = w.writer
      BY <1>1, <2>4, BeginMakes
    <3>2. QED BY <2>2, <3>1 DEF LateInv, Clean
  <2>5. QED BY <1>3, <2>3, <2>4 DEF MoveBegin
<1>4. CASE MovePoll(w, s, j, v, t, k)
  <2>1. CASE ~w.live /\ v = w /\ k = "none" /\ t = s
    BY <2>1 DEF LateInv
  <2>2. CASE w.live /\ Kept(v, w)
    <3>1. ~w.closed /\ ~w.fin /\ w.state \in {RUNNING, COMPLETE}
          /\ ~w.writer /\ s = "select"
      BY <1>1, <1>4, <2>2 DEF MovePoll, LateInv
    <3>2. PICK g \in Gathers(w) :
            g \in WebsType /\ Kept(g, w) /\ Polled(g, j, v, t, k)
      BY <1>4, <2>2, PollMakes
    <3>3. Clean(g) /\ ~g.fin
      BY <1>1, <3>1, <3>2, BlocksClean DEF LateInv, Gathers
    <3>4. Clean(Done(g)) /\ Clean(Error(g, FALSE))
      BY <3>2, <3>3, DoneClean, ErrorClean
    <3>5. Clean(v) /\ (k # "none" => ~v.fin)
      BY <3>2, <3>3, <3>4 DEF Polled
    <3>6. t \in {"select", "pumpCgi"}
      BY <3>2 DEF Polled
    <3>7. QED BY <2>2, <3>1, <3>5, <3>6, StatesDiffer DEF LateInv, Kept
  <2>3. QED BY <1>4, <2>1, <2>2, PollMakes
<1>5. CASE MoveEvent(w, s, j, v, t, k)
  BY <1>5, LateEvent
<1>6. CASE MovePump(w, s, j, v, t, k)
  BY <1>6, LatePump
<1>7. CASE MoveOutside(w, s, j, v, t, k)
  <2>1. /\ v.rx = w.rx /\ v.fin = w.fin /\ v.late = w.late
        /\ v.doc = w.doc /\ v.closed = w.closed /\ v.state = w.state
        /\ v.live = w.live /\ v.writer = w.writer /\ t = s /\ k = j
    BY <1>1, <1>7, OutsideMakes
  <2>2. v.net \in Seq(Fine)
    <3>1. \A p \in Sends : p \in Fine
      BY ServerAssumption DEF AllServed, Fine
    <3>2. << >> \in Seq(Fine) /\ w.net \in Seq(Fine)
      BY DEF LateInv
    <3>3. \A p \in Sends : Append(w.net, p) \in Seq(Fine)
      BY <3>1, <3>2
    <3>4. \/ v.net = w.net \/ v.net = << >>
          \/ \E p \in Sends : v.net = Append(w.net, p)
      BY <1>1, <1>7, ClientMakes
    <3>5. QED BY <3>2, <3>3, <3>4
  <2>3. QED BY <2>1, <2>2 DEF LateInv, Clean
<1>8. QED BY <1>2, <1>3, <1>4, <1>5, <1>6, <1>7 DEF Move

\* In a server that answers every request through its handler, nothing is
\* queued behind a response that websDone has ended: neither by a handler,
\* nor by the background writer, nor by a CGI program polled too late.
THEOREM NothingLate ==
  ASSUME AllServed
  PROVE  Spec => []NoLateBytes
<1> DEFINE Inv == LifeInv /\ \A c \in Conns : LateInv(conn[c], Place(c), job[c])
<1>1. Init => Inv
  <2>1. << >> \in Seq(Fine)
    OBVIOUS
  <2>2. ASSUME Init, NEW c \in Conns
        PROVE  LateInv(conn[c], Place(c), job[c])
    <3>1. conn[c] = NoWebs /\ job[c] = "none" /\ Place(c) = "select"
      BY <2>2 DEF Init, Place
    <3>2. /\ NoWebs.rx = << >> /\ NoWebs.net = << >> /\ ~NoWebs.fin
          /\ ~NoWebs.late
      BY DEF NoWebs
    <3>3. QED BY <2>1, <3>1, <3>2 DEF LateInv, Clean
  <2>3. QED BY <2>2, LifeInit
<1>2. Inv /\ [Next]_vars => Inv'
  <2> SUFFICES ASSUME Inv, [Next]_vars PROVE Inv'
    OBVIOUS
  <2>1. LifeInv'
    BY LifeStep
  <2>2. ASSUME NEW c \in Conns
        PROVE  LateInv(conn'[c], (Place(c))', job'[c])
    <3>1. /\ Fit(conn[c], Place(c), job[c])
          /\ Fit(conn'[c], (Place(c))', job'[c])
          /\ Move(conn[c], Place(c), job[c], conn'[c], (Place(c))', job'[c])
      BY StepMove
    <3>2. LateInv(conn[c], Place(c), job[c])
      OBVIOUS
    <3>3. QED BY <3>1, <3>2, LateMove
  <2>3. QED BY <2>1, <2>2 DEF LateInv, Clean, Place
<1>3. Inv => NoLateBytes
  BY DEF NoLateBytes, LateInv, Clean
<1> HIDE DEF Inv
<1>4. QED BY <1>1, <1>2, <1>3, PTL DEF Spec

(***************************************************************************)
(* A connection is reused only for a response that was delivered, when no  *)
(* reply is routed on to a handler (as an error reply of the routing code  *)
(* or a refused upload is) and no client closes its sending side (the      *)
(* socket then counts as ended and the output that is left is dropped).    *)
(* An ended response then keeps its connection only while its request      *)
(* runs or is complete, and a CGI program only works for an unended one.   *)
(***************************************************************************)
RepliesEnd ==
  /\ "error" \notin Handlers
  /\ Faults \cap {"shut", "upload"} = {}

\* What makes a response whole, if its connection is to be kept.
Whole(w) ==
  /\ w.writer \/ w.fin => w.hdr
  /\ w.state = COMPLETE /\ w.ka => w.out = 0
  /\ w.fin /\ w.ka => w.doc = 0

\* More can be written of it: it is not ended, or it costs the connection.
Unended(w) == w.fin => ~w.ka

IntactInv(w, s, j) ==
  /\ Whole(w)
  /\ ~w.cut /\ ~w.shut /\ (w.sockEof => w.rst)
  /\ ~w.live => w.state = BEGIN
  /\ ~w.closed => \/ w.state \in {RUNNING, COMPLETE}
                  \/ Unended(w)
  /\ w.state = BEGIN /\ ~w.closed /\ w.fin => w.rx # << >> /\ Head(w.rx) = "huge"
  /\ j # "none" /\ w.live =>
       /\ w.closed \/ w.state \in {RUNNING, COMPLETE}
       /\ Unended(w) /\ ~w.writer
       /\ j = "output" => w.hdr

\* websWriteHeaders and blocks.
LEMMA HeadersWhole ==
  ASSUME NEW w \in WebsType, Whole(w), Unended(w)
  PROVE  LET h == WriteHeaders(w)
         IN h \in WebsType /\ Whole(h) /\ Unended(h) /\ h.hdr
<1> DEFINE h == WriteHeaders(w)
<1>1. h \in WebsType /\ h.hdr /\ Unended(h) /\ (h.ka => w.ka)
  BY WriteHeadersKept, WriteHeadersMakes DEF Kept, Unended
<1>2. h.fin = w.fin /\ (h.ka => w.ka)
  BY WriteHeadersKept, WriteHeadersMakes DEF Kept
<1>3. h.state = COMPLETE /\ h.ka => h.out = 0
  <2>1. CASE w.state = COMPLETE
    <3>1. h = [w EXCEPT !.hdr = TRUE]
      BY <2>1, WriteHeadersMakes
    <3> HIDE DEF h
    <3>2. h.state = w.state /\ h.ka = w.ka /\ h.out = w.out
      BY <3>1 DEF WebsType
    <3>3. QED BY <3>2 DEF Whole
  <2>2. CASE w.state # COMPLETE
    <3>1. h.ka /\ ~w.fin => h.state = w.state
      BY WriteHeadersMakes
    <3>2. h.ka => ~w.fin
      BY <1>1 DEF Unended
    <3>3. QED BY <2>2, <3>1, <3>2
  <2>3. QED BY <2>1, <2>2
<1> HIDE DEF h
<1>4. QED BY <1>1, <1>2, <1>3 DEF Whole, Unended, h

LEMMA BlockWhole ==
  ASSUME NEW w \in WebsType, Whole(w), Unended(w)
  PROVE  LET b == WriteBlock(w)
         IN b \in WebsType /\ Whole(b) /\ Unended(b) /\ b.hdr = w.hdr
<1> DEFINE b == WriteBlock(w)
<1>1. /\ b \in WebsType /\ b.hdr = w.hdr /\ b.fin = w.fin /\ (b.ka => w.ka)
      /\ b.writer = w.writer
      /\ b.ka /\ ~w.fin => b.state = w.state
      /\ w.state = COMPLETE => b = w
  BY WriteBlockKept, WriteBlockMakes DEF Kept
<1> HIDE DEF b
<1>2. QED BY <1>1 DEF Whole, Unended, b

LEMMA BlocksWhole ==
  ASSUME NEW w \in WebsType, Whole(w), Unended(w)
  PROVE  \A g \in Gathers(w) : g \in WebsType /\ Whole(g) /\ Unended(g)
<1> DEFINE h == WriteHeaders(w)
           b == WriteBlock(h)
<1>1. h \in WebsType /\ Whole(h) /\ Unended(h)
  BY HeadersWhole
<1> HIDE DEF h
<1>2. b \in WebsType /\ Whole(b) /\ Unended(b)
  BY <1>1, BlockWhole
<1> HIDE DEF b
<1>3. WriteBlock(b) \in WebsType /\ Whole(WriteBlock(b)) /\ Unended(WriteBlock(b))
  BY <1>2, BlockWhole
<1>4. QED BY <1>1, <1>2, <1>3 DEF h, b, Gathers

\* websDone of a response with headers, and websError.
LEMMA DoneWhole ==
  ASSUME NEW w \in WebsType, Whole(w), w.hdr
  PROVE  Whole(Done(w))
<1> DEFINE v == Done(w)
<1>1. v.hdr /\ (v.ka => w.ka)
  BY DoneMakes, DoneKept DEF Kept
<1>2. CASE w.fin
  BY <1>2, DoneMakes
<1>3. CASE ~w.fin
  <2>1. v.doc = 0 /\ (v.state = COMPLETE /\ v.ka
                      /\ (w.state = COMPLETE => w.out = 0) => v.out = 0)
    BY <1>3, DoneMakes
  <2> HIDE DEF v
  <2>2. QED BY <1>1, <2>1 DEF Whole, v
<1>4. QED BY <1>2, <1>3

LEMMA ErrorWhole ==
  ASSUME NEW w \in WebsType, Whole(w), Unended(w), NEW close \in BOOLEAN
  PROVE  Whole(Error(w, close))
<1> DEFINE e == [w EXCEPT !.ka = @ /\ ~close /\ w.rem = 0]
           h == WriteHeaders(e)
           b == WriteBlock(h)
<1>1. e \in WebsType /\ Whole(e) /\ Unended(e)
  BY ZenonT(60) DEF WebsType, Whole, Unended
<1>2. Error(w, close) = Done(b)
  BY DEF Error, Response
<1> HIDE DEF e
<1>3. h \in WebsType /\ Whole(h) /\ Unended(h) /\ h.hdr
  BY <1>1, HeadersWhole
<1> HIDE DEF h
<1>4. b \in WebsType /\ Whole(b) /\ b.hdr
  BY <1>3, BlockWhole
<1> HIDE DEF b
<1>5. QED BY <1>2, <1>4, DoneWhole

\* websFlush, fileWriteEvent and writeEvent.
LEMMA FlushWhole ==
  ASSUME NEW w \in WebsType, Whole(w)
  PROVE  Flush(w) \in WebsType /\ Whole(Flush(w)) /\ Flush(w).hdr = w.hdr
<1> DEFINE v == Flush(w)
<1>1. /\ v \in WebsType /\ v.writer = w.writer /\ (v.ka => w.ka)
      /\ v.fin = w.fin /\ v.doc = w.doc /\ v.hdr = w.hdr
      /\ v.ka => /\ v.out = w.out - Least(w.out, w.room)
                 /\ v.state = IF v.out = 0 /\ w.fin THEN COMPLETE ELSE w.state
  BY FlushKept, FlushMakes DEF Kept
<1>2. w.out = 0 => w.out - Least(w.out, w.room) = 0
  BY CoreAssumption DEF WebsType, Room, Least
<1> HIDE DEF v
<1>3. QED BY <1>1, <1>2 DEF Whole, v

LEMMA FileWriteWhole ==
  ASSUME NEW w \in WebsType, Whole(w), w.hdr
  PROVE  Whole(FileWrite(w))
<1> DEFINE v == FileWrite(w)
<1>1. /\ v.hdr /\ (v.ka => w.ka)
      /\ w.fin \/ ~v.fin => v.state = w.state /\ v.out = w.out /\ v.ka = w.ka
      /\ (w.fin => w.doc = 0) => (v.fin => v.doc = 0)
      /\ v.fin /\ ~w.fin =>
           (v.state = COMPLETE /\ v.ka /\ (w.state = COMPLETE => w.out = 0)
            => v.out = 0)
  BY FileWriteKept, FileWriteMakes DEF Kept
<1> HIDE DEF v
<1>2. QED BY <1>1 DEF Whole, v

LEMMA WriteEventWhole ==
  ASSUME NEW w \in WebsType, Whole(w)
  PROVE  Whole(WriteEvent(w))
<1> DEFINE f == IF w.out > 0 THEN Flush(w) ELSE w
<1>1. f \in WebsType /\ Whole(f)
  BY FlushWhole
<1>2. WriteEvent(w) = IF f.out = 0 /\ f.writer THEN FileWrite(f) ELSE f
  BY DEF WriteEvent
<1> HIDE DEF f
<1>3. f.writer => f.hdr
  BY <1>1 DEF Whole
<1>4. QED BY <1>1, <1>2, <1>3, FileWriteWhole

\* The handlers.
LEMMA ServeWhole ==
  ASSUME NEW w \in WebsType, Whole(w), Unended(w), w.state = READY
  PROVE  /\ Whole(Running(w)) /\ Unended(Running(w))
         /\ \A n \in Nat : Whole(ServeAction(w, n))
         /\ \A n \in Document : Whole(ServeFile(w, n))
<1> DEFINE r == Running(w)
           h == WriteHeaders(r)
           b1 == WriteBlock(h)
           b2 == WriteBlock(b1)
<1>1. r \in WebsType /\ Whole(r) /\ Unended(r)
  BY RunningType, StatesDiffer DEF Running, WebsType, Whole, Unended
<1> HIDE DEF r
<1>2. h \in WebsType /\ Whole(h) /\ Unended(h) /\ h.hdr
  BY <1>1, HeadersWhole
<1> HIDE DEF h
<1>3. b1 \in WebsType /\ Whole(b1) /\ Unended(b1) /\ b1.hdr
  BY <1>2, BlockWhole
<1> HIDE DEF b1
<1>4. b2 \in WebsType /\ Whole(b2) /\ Unended(b2) /\ b2.hdr
  BY <1>3, BlockWhole
<1> HIDE DEF b2
<1>5. ASSUME NEW n \in Nat PROVE Whole(ServeAction(w, n))
  <2> DEFINE b == CASE n = 0 -> h [] n = 1 -> b1 [] OTHER -> b2
  <2>1. ServeAction(w, n) = Done(b)
    BY DEF ServeAction, r, h, b1, b2
  <2>2. b \in WebsType /\ Whole(b) /\ b.hdr
    BY <1>2, <1>3, <1>4
  <2> HIDE DEF b
  <2>3. QED BY <2>1, <2>2, DoneWhole
<1>6. ASSUME NEW n \in Document PROVE Whole(ServeFile(w, n))
  <2> DEFINE d == [h EXCEPT !.doc = n]
             s == Writing(d)
             f == IF Flushed(s) THEN FileWrite(Flush(s)) ELSE Flush(s)
             m == IF f.state # COMPLETE THEN f.mask \cup {"W"} ELSE f.mask
             v == [f EXCEPT !.mask = m]
  <2>1. ServeFile(w, n) = IF n = 0 THEN Done(h) ELSE v
    BY DEF ServeFile, SetBackgroundWriter, Writing, r, h
  <2>2. s \in WebsType /\ Whole(s) /\ s.hdr
    BY <1>2 DEF WebsType, Whole, Writing, Unended
  <2> HIDE DEF s
  <2>3. Flush(s) \in WebsType /\ Whole(Flush(s)) /\ Flush(s).hdr
    BY <2>2, FlushWhole
  <2>4. FileWrite(Flush(s)) \in WebsType /\ Whole(FileWrite(Flush(s)))
    BY <2>3, FileWriteKept, FileWriteWhole DEF Kept
  <2>5. f \in WebsType /\ Whole(f)
    BY <2>3, <2>4
  <2> HIDE DEF f, m
  <2>6. Whole(v)
    BY <2>5 DEF WebsType, Whole
  <2> HIDE DEF v
  <2>7. QED BY <1>2, <2>1, <2>6, DoneWhole
<1>7. QED BY <1>1, <1>5, <1>6 DEF r

\* What no output routine disturbs.
LEMMA KeptIntact ==
  ASSUME NEW w, NEW s, NEW j, NEW v, Kept(v, w), Fit(w, s, j),
         IntactInv(w, s, j)
  PROVE  /\ ~v.cut /\ ~v.shut /\ (v.sockEof => v.rst)
         /\ w.live => v.live
         /\ v.closed = w.closed /\ v.rx = w.rx /\ v.writer = w.writer
         /\ v.state \in {w.state, COMPLETE}
<1>1. w.open => ~w.closed
  BY DEF Fit, Sound, Timed
<1>2. QED BY <1>1 DEF Kept, IntactInv

\* A turn of websPump keeps the invariant.
LEMMA IntactPump ==
  ASSUME RepliesEnd, NEW w, NEW s, NEW j, NEW v, NEW t, NEW k,
         Fit(w, s, j), Fit(v, t, k), MovePump(w, s, j, v, t, k),
         IntactInv(w, s, j)
  PROVE  IntactInv(v, t, k)
<1>1. /\ w \in WebsType /\ v \in WebsType /\ Sound(w) /\ w.live
      /\ s \in PumpSites
  BY DEF Fit, MovePump, PumpSites
<1>2. /\ Whole(w) /\ ~w.cut /\ ~w.shut /\ (w.sockEof => w.rst)
      /\ j # "none" /\ ~w.closed => w.state \in {RUNNING, COMPLETE}
      /\ j # "none" => Unended(w) /\ ~w.writer /\ (j = "output" => w.hdr)
  BY <1>1 DEF IntactInv
<1>3. w.closed => w.rx = << >> /\ w.state \in {BEGIN, COMPLETE}
  BY <1>1 DEF Sound
<1>4. CASE v = w /\ k = j
  BY <1>4 DEF IntactInv
<1>5. CASE w.state = BEGIN /\ ~ParseWaits(w) /\ v = ParseIncoming(w) /\ k = j
  <2>1. ~w.closed /\ j = "none" /\ w.rx # << >> /\ Unended(w)
    BY <1>2, <1>3, <1>5, StatesDiffer DEF ParseWaits, HeaderReady, IntactInv
  <2>2. CASE ~HeaderReady(w.rx)
    <3>1. v = Error(w, TRUE) /\ Head(w.rx) = "huge"
      BY <1>5, <2>1, <2>2 DEF ParseIncoming, ParseWaits
    <3>2. Kept(v, w) /\ Whole(v) /\ ~v.ka
      BY <1>1, <1>2, <2>1, <3>1, ErrorKept, ErrorWhole
    <3>3. /\ ~v.cut /\ ~v.shut /\ (v.sockEof => v.rst) /\ v.live
          /\ v.closed = w.closed /\ v.rx = w.rx /\ v.state \in {BEGIN, COMPLETE}
      BY <1>1, <1>5, <3>2, KeptIntact
    <3>4. QED BY <1>5, <2>1, <3>1, <3>2, <3>3, StatesDiffer DEF IntactInv, Unended
  <2> DEFINE a == AfterHeader(w.rx)
             x == [w EXCEPT !.rx = a]
  <2>3. CASE HeaderReady(w.rx)
    <3>1. Head(w.rx) # "huge"
      BY <2>3 DEF HeaderReady, Headers
    <3>2. ~w.fin
      BY <1>5, <2>1, <3>1 DEF IntactInv
    <3>3. a \in Seq(Pieces)
      BY <1>1, <2>3, HeaderType DEF WebsType
    <3> HIDE DEF a
    <3>4. /\ x \in WebsType /\ x.writer = w.writer /\ x.fin = w.fin
          /\ x.hdr = w.hdr /\ x.state = w.state /\ x.ka = w.ka
          /\ x.out = w.out /\ x.doc = w.doc /\ x.cut = w.cut
          /\ x.shut = w.shut /\ x.sockEof = w.sockEof /\ x.rst = w.rst
          /\ x.live = w.live /\ x.closed = w.closed /\ x.open = w.open
      BY <1>1, <3>3 DEF WebsType
    <3> HIDE DEF x
    <3>5. CASE v = Refused(w)
      <4> DEFINE e == Error(x, TRUE)
      <4>1. v = IF e.state = COMPLETE THEN e ELSE [e EXCEPT !.state = READY]
        BY <3>5 DEF Refused, x, a
      <4>2. Whole(x) /\ Unended(x)
        BY <1>2, <3>2, <3>4 DEF Whole, Unended
      <4>a. x \in WebsType
        BY <3>4
      <4>b. Kept(e, x) /\ ~e.ka
        BY <4>a, ErrorKept
      <4>c. Whole(e)
        BY <4>2, <4>a, ErrorWhole
      <4>3. Kept(e, x) /\ Whole(e) /\ ~e.ka /\ e \in WebsType
        BY <4>b, <4>c DEF Kept
      <4>4. w.open => ~w.closed
        BY <1>1 DEF Sound, Timed
      <4>5. /\ e.cut = FALSE /\ e.shut = FALSE /\ e.sockEof = w.sockEof
            /\ e.rst = w.rst /\ e.live = w.live /\ e.closed = w.closed
        BY <1>2, <3>4, <4>3, <4>4 DEF Kept, WebsType
      <4> HIDE DEF e
      <4>6. /\ v.cut = FALSE /\ v.shut = FALSE /\ v.sockEof = w.sockEof
            /\ v.rst = w.rst /\ v.live = w.live /\ v.closed = w.closed
            /\ ~v.ka /\ v.state \in {READY, COMPLETE} /\ v.writer = e.writer
            /\ v.fin = e.fin /\ v.hdr = e.hdr
        BY <4>1, <4>3, <4>5 DEF WebsType
      <4>7. Whole(v)
        BY <4>3, <4>6 DEF Whole
      <4>8. QED BY <1>1, <1>2, <1>5, <2>1, <4>6, <4>7, StatesDiffer
                DEF IntactInv, Unended
    <3>6. CASE v = Accepted(w, HeaderOf(w.rx))
      <4>1. /\ v.writer = w.writer /\ v.fin = w.fin /\ v.hdr = w.hdr
            /\ v.out = w.out /\ v.doc = w.doc /\ v.cut = w.cut
            /\ v.shut = w.shut /\ v.sockEof = w.sockEof /\ v.rst = w.rst
            /\ v.live = w.live /\ v.closed = w.closed
            /\ v.state \in {CONTENT, READY}
        <5> DEFINE kind == HeaderOf(w.rx)
                   kk == kind # "close"
                   rm == IF kind = "post" THEN PostLen ELSE 0
                   st == IF kind = "post" THEN CONTENT ELSE READY
        <5>1. v = [w EXCEPT !.rx = AfterHeader(w.rx), !.ka = kk, !.rem = rm,
                            !.state = st]
          BY <3>6 DEF Accepted
        <5>2. st \in {CONTENT, READY}
          OBVIOUS
        <5> HIDE DEF kk, rm, st, a
        <5>3. w \in WebsType
          BY <1>1
        <5>4. /\ v.writer = w.writer /\ v.fin = w.fin /\ v.hdr = w.hdr
              /\ v.out = w.out /\ v.doc = w.doc /\ v.cut = w.cut
          BY <5>1, <5>3 DEF WebsType
        <5>5. /\ v.shut = w.shut /\ v.sockEof = w.sockEof /\ v.rst = w.rst
              /\ v.live = w.live /\ v.closed = w.closed
          BY <5>1, <5>3 DEF WebsType
        <5>6. v.state = st
          BY <5>1, <5>3 DEF WebsType
        <5>7. QED BY <5>2, <5>4, <5>5, <5>6
      <4>2. Whole(v)
        BY <1>2, <3>2, <4>1, StatesDiffer DEF Whole
      <4>3. QED BY <1>1, <1>2, <1>5, <2>1, <3>2, <4>1, <4>2, StatesDiffer
                DEF IntactInv, Unended
    <3>7. QED BY <1>5, <2>3, <3>5, <3>6 DEF ParseIncoming
  <2>4. QED BY <2>2, <2>3
<1> DEFINE b == TakeBody(w)
<1>6. ASSUME w.state = CONTENT
      PROVE  /\ b \in WebsType /\ b.writer = w.writer /\ b.fin = w.fin
             /\ b.hdr = w.hdr /\ b.state = w.state /\ b.ka = w.ka
             /\ b.out = w.out /\ b.doc = w.doc /\ b.cut = w.cut
             /\ b.shut = w.shut /\ b.sockEof = w.sockEof /\ b.rst = w.rst
             /\ b.live = w.live /\ b.closed = w.closed /\ b.open = w.open
             /\ Whole(b) /\ Unended(b) /\ ~w.closed /\ j = "none"
  <2>1. /\ b \in WebsType /\ b.writer = w.writer /\ b.fin = w.fin
        /\ b.hdr = w.hdr /\ b.state = w.state /\ b.ka = w.ka
        /\ b.out = w.out /\ b.doc = w.doc /\ b.cut = w.cut
        /\ b.shut = w.shut /\ b.sockEof = w.sockEof /\ b.rst = w.rst
        /\ b.live = w.live /\ b.closed = w.closed /\ b.open = w.open
    BY <1>1, TakeBodyType DEF TakeBody, WebsType
  <2>2. ~w.closed /\ j = "none" /\ Unended(w)
    BY <1>2, <1>3, <1>6, StatesDiffer DEF IntactInv
  <2> HIDE DEF b
  <2>3. QED BY <1>2, <2>1, <2>2 DEF Whole, Unended
<1>7. CASE w.state = CONTENT /\ v = AtEnd(b) /\ k = j
  <2>1. /\ v.writer = b.writer /\ v.fin = b.fin /\ v.hdr = b.hdr
        /\ v.out = b.out /\ v.doc = b.doc /\ v.cut = b.cut
        /\ v.shut = b.shut /\ v.sockEof = b.sockEof /\ v.rst = b.rst
        /\ v.live = b.live /\ v.closed = b.closed /\ v.ka = b.ka
        /\ v.state \in {CONTENT, READY}
    <3> HIDE DEF b
    <3>1. QED BY <1>6, <1>7 DEF AtEnd, BodyDone, WebsType
  <2> HIDE DEF b
  <2>2. Whole(v) /\ Unended(v)
    BY <1>6, <1>7, <2>1, StatesDiffer DEF Whole, Unended
  <2>3. QED BY <1>1, <1>2, <1>6, <1>7, <2>1, <2>2, StatesDiffer DEF IntactInv
<1>8. CASE w.state = CONTENT /\ v = Error(b, TRUE) /\ k = j
  <2> HIDE DEF b
  <2>1. Kept(v, b) /\ Whole(v) /\ ~v.ka
    BY <1>6, <1>8, ErrorKept, ErrorWhole
  <2>2. w.open => ~w.closed
    BY <1>1 DEF Sound, Timed
  <2>3. /\ ~v.cut /\ ~v.shut /\ (v.sockEof => v.rst) /\ v.live
        /\ v.state \in {CONTENT, COMPLETE}
    BY <1>1, <1>2, <1>6, <1>8, <2>1, <2>2 DEF Kept
  <2>4. QED BY <1>6, <1>8, <2>1, <2>3, StatesDiffer DEF IntactInv, Unended
<1>9. CASE MoveREADY(w, s, j, v, t, k)
  <2>1. ~w.closed /\ Unended(w) /\ ~w.writer /\ j = "none" /\ w.state = READY
    BY <1>1, <1>2, <1>3, <1>9, StatesDiffer DEF MoveREADY, IntactInv, Sound
  <2> DEFINE r == Running(w)
             q == Writing(r)
  <2>2. /\ Whole(r) /\ Unended(r)
        /\ \A n \in Nat : Whole(ServeAction(w, n))
        /\ \A n \in Document : Whole(ServeFile(w, n))
    BY <1>1, <1>2, <2>1, ServeWhole
  <2>3. /\ r.state = RUNNING /\ r.cut = w.cut /\ r.shut = w.shut
        /\ r.sockEof = w.sockEof /\ r.rst = w.rst /\ r.live = w.live
        /\ r.closed = w.closed /\ r.writer = w.writer /\ r.open = w.open
    BY <1>1 DEF Running, WebsType
  <2>4. /\ q.state = RUNNING /\ q.cut = w.cut /\ q.shut = w.shut
        /\ q.sockEof = w.sockEof /\ q.rst = w.rst /\ q.live = w.live
        /\ q.closed = w.closed /\ q.open = w.open
    <3>1. r \in WebsType
      BY <1>1, RunningType
    <3> HIDE DEF r
    <3>2. QED BY <2>3, <3>1 DEF Writing, WebsType
  <2>5. \/ k = j /\ Whole(v) /\ (Kept(v, r) \/ Kept(v, q))
        \/ k = "started" /\ v = r
    <3>1. \A n \in Nat : Kept(ServeAction(w, n), r)
      BY <1>1, ServeActionKept
    <3>2. \A n \in Document : Kept(ServeFile(w, n), r) \/ Kept(ServeFile(w, n), q)
      BY <1>1, ServeFileKept
    <3>3. "error" \notin Handlers
      BY DEF RepliesEnd
    <3> HIDE DEF r, q
    <3>4. QED BY <1>9, <2>2, <3>1, <3>2, <3>3 DEF MoveREADY, r
  <2>6. w.open => ~w.closed
    BY <1>1 DEF Sound, Timed
  <2> HIDE DEF r, q
  <2>7. /\ ~v.cut /\ ~v.shut /\ (v.sockEof => v.rst) /\ v.live
        /\ v.state \in {RUNNING, COMPLETE} /\ Whole(v)
    BY <1>1, <1>2, <2>2, <2>3, <2>4, <2>5, <2>6 DEF Kept
  <2>8. k # "none" => Unended(v) /\ ~v.writer /\ k # "output"
    BY <2>1, <2>2, <2>3, <2>5
  <2>9. QED BY <2>7, <2>8, StatesDiffer DEF IntactInv
<1>10. CASE MoveCOMPLETE(w, s, j, v, t, k)
  <2>1. w.state = COMPLETE /\ k = j /\ v = Complete(w)
    BY <1>10 DEF MoveCOMPLETE
  <2>2. CASE w.ka /\ w.rem = 0
    <3>1. v = ReuseConn(w)
      BY <2>1, <2>2 DEF Complete
    <3>2. /\ v.state = BEGIN /\ ~v.fin /\ ~v.writer /\ ~v.cut /\ v.doc = 0
          /\ v.shut = w.shut /\ v.rst = w.rst /\ v.sockEof = w.sockEof
      BY <1>1, <3>1, ReuseConnMakes
    <3>3. j = "none"
      BY <1>1, <1>2, <2>1, <2>2 DEF Sound, Unended
    <3>4. QED BY <1>2, <2>1, <3>2, <3>3, StatesDiffer
              DEF IntactInv, Whole, Unended
  <2>3. CASE ~(w.ka /\ w.rem = 0)
    <3>1. v = CloseConn(w)
      BY <2>1, <2>3 DEF Complete
    <3>2. /\ v.fin = w.fin /\ v.ka = w.ka /\ v.cut = w.cut /\ v.doc = w.doc
          /\ v.hdr = w.hdr /\ v.out = w.out /\ v.writer = w.writer
          /\ v.state = BEGIN /\ v.closed /\ ~v.shut /\ ~v.sockEof
      BY <1>1, <3>1, CloseConnMakes
    <3>3. QED BY <1>2, <2>1, <3>2, StatesDiffer DEF IntactInv, Whole, Unended
  <2>4. QED BY <2>2, <2>3
<1>11. "upload" \notin Faults
  BY DEF RepliesEnd
<1>12. CASE MoveBEGIN(w, s, j, v, t, k)
  BY <1>4, <1>5, <1>12 DEF MoveBEGIN
<1>13. CASE MoveCONTENT(w, s, j, v, t, k)
  BY <1>4, <1>7, <1>8, <1>11, <1>13 DEF MoveCONTENT
<1>14. QED BY <1>4, <1>9, <1>10, <1>12, <1>13 DEF MovePump

\* What is read goes behind what is there.
LEMMA HeadStays ==
  ASSUME NEW S, NEW a \in Seq(S), NEW b \in Seq(S), a # << >>
  PROVE  a \o b # << >> /\ Head(a \o b) = Head(a)
<1>1. Len(a) \in Nat /\ Len(a) > 0 /\ Len(b) \in Nat
  OBVIOUS
<1>2. Len(a \o b) > 0 /\ (a \o b)[1] = a[1]
  BY <1>1
<1>3. QED BY <1>2

\* readEvent and writeEvent keep it.
LEMMA IntactEvent ==
  ASSUME RepliesEnd, NEW w, NEW s, NEW j, NEW v, NEW t, NEW k,
         Fit(w, s, j), Fit(v, t, k), MoveEvent(w, s, j, v, t, k),
         IntactInv(w, s, j)
  PROVE  IntactInv(v, t, k)
<1>1. /\ w \in WebsType /\ v \in WebsType /\ Sound(w) /\ k = j /\ w.live
      /\ s = "read" => ~w.closed
  BY DEF Fit, MoveEvent
<1>2. /\ Whole(w) /\ ~w.cut /\ ~w.shut /\ (w.sockEof => w.rst)
      /\ j # "none" => Unended(w) /\ ~w.writer /\ (j = "output" => w.hdr)
      /\ j # "none" => w.closed \/ w.state \in {RUNNING, COMPLETE}
  BY <1>1 DEF IntactInv
<1>3. CASE v = ReadSocket(w)
  <2>1. /\ v.writer = w.writer /\ v.fin = w.fin /\ v.hdr = w.hdr
        /\ v.state = w.state /\ v.ka = w.ka /\ v.out = w.out
        /\ v.doc = w.doc /\ v.cut = w.cut /\ v.shut = w.shut
        /\ v.rst = w.rst /\ v.live = w.live /\ v.closed = w.closed
    BY <1>1, <1>3 DEF ReadSocket, WebsType
  <2>2. v.sockEof => v.rst
    <3>1. CASE ReadsEof(w)
      BY <1>2, <2>1, <3>1 DEF ReadsEof
    <3>2. CASE ~ReadsEof(w)
      <4>1. v.sockEof = w.sockEof
        BY <1>1, <1>3, <3>2 DEF ReadSocket, WebsType
      <4>2. QED BY <1>2, <2>1, <4>1
    <3>3. QED BY <3>1, <3>2
  <2>3. w.rx # << >> => v.rx # << >> /\ Head(v.rx) = Head(w.rx)
    <3>1. v.rx = w.rx \/ v.rx = w.rx \o w.net
      BY <1>1, <1>3 DEF ReadSocket, WebsType
    <3>2. w.rx \in Seq(Pieces) /\ w.net \in Seq(Pieces)
      BY <1>1 DEF WebsType
    <3>3. QED BY <3>1, <3>2, HeadStays
  <2>4. Whole(v)
    BY <1>2, <2>1 DEF Whole
  <2>5. QED BY <1>1, <2>1, <2>2, <2>3, <2>4 DEF IntactInv, Unended
<1>4. CASE v = CloseConn(w)
  <2>1. /\ v.fin = w.fin /\ v.ka = w.ka /\ v.cut = w.cut /\ v.doc = w.doc
        /\ v.hdr = w.hdr /\ v.out = w.out /\ v.writer = w.writer
        /\ v.state = BEGIN /\ v.closed /\ ~v.shut /\ ~v.sockEof
    BY <1>1, <1>4, CloseConnMakes
  <2>2. QED BY <1>1, <1>2, <2>1, StatesDiffer DEF IntactInv, Whole, Unended
<1>5. CASE ~w.closed /\ w.state = CONTENT /\ v = Error(w, FALSE)
  <2>1. Unended(w) /\ j = "none" /\ (w.rem # 0 \/ ~w.ka)
    BY <1>1, <1>2, <1>5, StatesDiffer DEF IntactInv, Sound
  <2>a. Kept(v, w) /\ (w.rem # 0 => ~v.ka)
    BY <1>1, <1>5, ErrorKept
  <2>2. Kept(v, w) /\ (w.rem # 0 => ~v.ka) /\ (v.ka => w.ka)
    BY <2>a DEF Kept
  <2>3. Whole(v)
    BY <1>1, <1>2, <1>5, <2>1, ErrorWhole
  <2>4. /\ ~v.cut /\ ~v.shut /\ (v.sockEof => v.rst) /\ v.live
        /\ v.state \in {CONTENT, COMPLETE}
    BY <1>1, <1>5, <2>2, KeptIntact
  <2>5. QED BY <1>1, <2>1, <2>2, <2>3, <2>4, StatesDiffer
            DEF IntactInv, Unended
<1>6. CASE \E m : v = [w EXCEPT !.mask = m]
  <2>1. /\ v.writer = w.writer /\ v.fin = w.fin /\ v.hdr = w.hdr
        /\ v.state = w.state /\ v.ka = w.ka /\ v.out = w.out
        /\ v.doc = w.doc /\ v.cut = w.cut /\ v.shut = w.shut
        /\ v.rst = w.rst /\ v.live = w.live /\ v.closed = w.closed
        /\ v.sockEof = w.sockEof /\ v.rx = w.rx
    BY <1>1, <1>6 DEF WebsType
  <2>2. QED BY <1>1, <2>1 DEF IntactInv, Whole, Unended
<1>7. CASE v = w
  BY <1>1, <1>7 DEF IntactInv
<1>8. CASE v = WriteEvent(w)
  <2>1. Kept(v, w) /\ Whole(v)
    BY <1>1, <1>2, <1>8, WriteEventKept, WriteEventWhole
  <2>2. /\ ~v.cut /\ ~v.shut /\ (v.sockEof => v.rst) /\ v.live
        /\ v.closed = w.closed /\ v.rx = w.rx /\ v.writer = w.writer
        /\ v.state \in {w.state, COMPLETE}
        /\ (v.ka => w.ka) /\ (w.hdr => v.hdr)
    BY <1>1, <2>1, KeptIntact DEF Kept
  <2>3. v.fin => w.fin \/ w.writer
    BY <1>1, <1>8, WriteEventMakes
  <2>4. w.writer => w.closed \/ w.state \in {RUNNING, COMPLETE}
    BY <1>1 DEF Sound
  <2>5. ~v.closed => v.state \in {RUNNING, COMPLETE} \/ Unended(v)
    BY <2>2, <2>3, <2>4 DEF IntactInv, Unended
  <2>6. v.state = BEGIN /\ ~v.closed /\ v.fin =>
          w.state = BEGIN /\ ~w.closed /\ w.fin
    BY <2>2, <2>3, <2>4, StatesDiffer
  <2>7. k # "none" /\ v.live =>
          /\ v.closed \/ v.state \in {RUNNING, COMPLETE}
          /\ Unended(v) /\ ~v.writer
          /\ k = "output" => v.hdr
    BY <1>1, <1>2, <2>2, <2>3 DEF Unended
  <2>8. QED BY <2>1, <2>2, <2>5, <2>6, <2>7 DEF IntactInv
<1>9. CASE s = "end" /\ v = NoWebs
  <2>1. /\ v.rx = << >> /\ v.state = BEGIN /\ ~v.fin /\ ~v.cut /\ ~v.writer
        /\ ~v.shut /\ ~v.sockEof /\ ~v.ka
    BY <1>1, <1>9, FreshMakes
  <2>2. ~v.live
    BY <1>9 DEF NoWebs
  <2>3. QED BY <2>1, <2>2 DEF IntactInv, Whole, Unended
<1>10. CASE s = "tail"
  <2>1. \/ v = w \/ v = CloseConn(w)
        \/ ~w.closed /\ w.state = CONTENT /\ v = Error(w, FALSE)
        \/ \E m : v = [w EXCEPT !.mask = m]
    BY <1>10 DEF MoveEvent
  <2>2. QED BY <1>4, <1>5, <1>6, <1>7, <2>1
<1>11. CASE s = "write"
  <2>1. v = w \/ v = WriteEvent(w)
    BY <1>11 DEF MoveEvent
  <2>2. QED BY <1>7, <1>8, <2>1
<1>12. CASE s = "end"
  <2>1. v = w \/ v = NoWebs
    BY <1>12 DEF MoveEvent
  <2>2. QED BY <1>7, <1>9, <1>12, <2>1
<1>13. s = "read" => v = ReadSocket(w)
  BY DEF MoveEvent
<1>14. s = "lost" => v = CloseConn(w)
  BY DEF MoveEvent
<1>15. s \in {"read", "tail", "lost", "write", "end"}
  BY DEF MoveEvent
<1>16. QED BY <1>3, <1>4, <1>10, <1>11, <1>12, <1>13, <1>14, <1>15

\* A move keeps it.
LEMMA IntactMove ==
  ASSUME RepliesEnd, NEW w, NEW s, NEW j, NEW v, NEW t, NEW k,
         Fit(w, s, j), Fit(v, t, k), Move(w, s, j, v, t, k),
         IntactInv(w, s, j)
  PROVE  IntactInv(v, t, k)
<1>1. w \in WebsType /\ v \in WebsType /\ Sound(w)
  BY DEF Fit
<1>2. CASE v = w /\ t = s /\ k = j
  BY <1>2
<1>3. CASE MoveBegin(w, s, j, v, t, k)
  <2>1. k = j
    BY <1>3 DEF MoveBegin
  <2>2. CASE \/ v = NoWebs
             \/ v \in {Accepting(w), AcceptFailed(w)} /\ j = "none"
    <3>1. /\ v.rx = << >> /\ v.state = BEGIN /\ ~v.fin /\ ~v.cut
          /\ ~v.writer /\ ~v.shut /\ ~v.sockEof /\ ~v.ka
      BY <1>1, <2>2, FreshMakes
    <3>2. j # "none" => ~v.live
      BY <2>2 DEF NoWebs
    <3>3. QED BY <2>1, <3>1, <3>2 DEF IntactInv, Whole, Unended
  <2>3. CASE \/ v = [w EXCEPT !.resv = FALSE]
             \/ \E x : v = [w EXCEPT !.timer = x]
    <3>1. /\ v.writer = w.writer /\ v.fin = w.fin /\ v.hdr = w.hdr
          /\ v.state = w.state /\ v.ka = w.ka /\ v.out = w.out
          /\ v.doc = w.doc /\ v.cut = w.cut /\ v.shut = w.shut
          /\ v.rst = w.rst /\ v.live = w.live /\ v.closed = w.closed
          /\ v.sockEof = w.sockEof /\ v.rx = w.rx
      BY <1>1, <2>3, BeginMakes
    <3>2. QED BY <2>1, <3>1 DEF IntactInv, Whole, Unended
  <2>4. QED BY <1>3, <2>2, <2>3 DEF MoveBegin
<1>4. CASE MovePoll(w, s, j, v, t, k)
  <2>1. CASE ~w.live /\ v = w /\ k = "none" /\ t = s
    BY <2>1 DEF IntactInv
  <2>2. CASE w.live /\ Kept(v, w)
    <3>1. /\ ~w.closed /\ Unended(w) /\ Whole(w) /\ ~w.writer
          /\ w.state \in {RUNNING, COMPLETE} /\ (j = "output" => w.hdr)
      BY <1>1, <1>4, <2>2, PollMakes DEF IntactInv
    <3>2. PICK g \in Gathers(w) :
            g \in WebsType /\ Kept(g, w) /\ Polled(g, j, v, t, k)
      BY <1>4, <2>2, PollMakes
    <3>3. Whole(g) /\ Unended(g)
      BY <1>1, <3>1, <3>2, BlocksWhole
    <3>4. g.hdr => Whole(Done(g))
      BY <3>2, <3>3, DoneWhole
    <3>5. Whole(Error(g, FALSE))
      BY <3>2, <3>3, ErrorWhole
    <3>6. j = "output" => g.hdr
      BY <3>1, <3>2 DEF Kept
    <3>7. Whole(v) /\ (k # "none" => Unended(v)) /\ (k = "output" => v.hdr)
      BY <3>2, <3>3, <3>4, <3>5, <3>6 DEF Polled
    <3>8. /\ ~v.cut /\ ~v.shut /\ (v.sockEof => v.rst) /\ v.live
          /\ ~v.closed /\ ~v.writer /\ v.state \in {RUNNING, COMPLETE}
      BY <2>2, <3>1, KeptIntact
    <3>9. QED BY <3>7, <3>8, StatesDiffer DEF IntactInv
  <2>3. QED BY <1>4, <2>1, <2>2, PollMakes
<1>5. CASE MoveEvent(w, s, j, v, t, k)
  BY <1>5, IntactEvent
<1>6. CASE MovePump(w, s, j, v, t, k)
  BY <1>6, IntactPump
<1>7. CASE MoveOutside(w, s, j, v, t, k)
  <2>1. /\ v.writer = w.writer /\ v.fin = w.fin /\ v.hdr = w.hdr
        /\ v.state = w.state /\ v.ka = w.ka /\ v.out = w.out
        /\ v.doc = w.doc /\ v.cut = w.cut /\ v.live = w.live
        /\ v.closed = w.closed /\ v.sockEof = w.sockEof /\ v.rx = w.rx
        /\ k = j
    BY <1>1, <1>7, OutsideMakes
  <2>2. "shut" \notin Faults
    BY DEF RepliesEnd
  <2>3. v.shut = w.shut /\ (w.rst => v.rst)
    BY <1>1, <1>7, <2>2, ClientMakes
  <2>4. QED BY <2>1, <2>3 DEF IntactInv, Whole, Unended
<1>8. QED BY <1>2, <1>3, <1>4, <1>5, <1>6, <1>7 DEF Move

\* The only way from a complete request to the next one is reuseConn.
LEMMA Reused ==
  ASSUME NEW w, NEW s, NEW j, NEW v, NEW t, NEW k,
         Fit(w, s, j), Move(w, s, j, v, t, k), w.live,
         w.state = COMPLETE, v.state = BEGIN, v.open
  PROVE  w.ka /\ w.rem = 0 /\ v = ReuseConn(w)
<1>1. w \in WebsType /\ BEGIN # COMPLETE
  BY StatesDiffer DEF Fit
<1>2. ~(v = w)
  BY <1>1
<1>3. ~NoWebs.open
  BY DEF NoWebs
<1>4. ~MoveBegin(w, s, j, v, t, k)
  <2>1. ~(\/ v = [w EXCEPT !.resv = FALSE] \/ \E x : v = [w EXCEPT !.timer = x])
    BY <1>1, BeginMakes
  <2>2. QED BY <1>3, <2>1 DEF MoveBegin
<1>5. ~Kept(v, w)
  BY <1>1 DEF Kept
<1>6. ~MovePoll(w, s, j, v, t, k)
  BY <1>5, PollMakes
<1>7. ~CloseConn(w).open
  BY <1>1, CloseConnMakes
<1>8. ~MoveEvent(w, s, j, v, t, k)
  <2>1. v # ReadSocket(w)
    BY <1>1 DEF ReadSocket, WebsType
  <2>2. ~(\E m : v = [w EXCEPT !.mask = m])
    BY <1>1 DEF WebsType
  <2>3. v # WriteEvent(w)
    BY <1>1, <1>5, WriteEventKept
  <2>4. s = "tail" /\ ~w.closed /\ w.state = CONTENT => FALSE
    BY StatesDiffer
  <2>5. QED BY <1>2, <1>3, <1>7, <2>1, <2>2, <2>3, <2>4 DEF MoveEvent
<1>9. ~MoveOutside(w, s, j, v, t, k)
  BY <1>1, OutsideMakes
<1>10. MoveCOMPLETE(w, s, j, v, t, k)
  <2>1. MovePump(w, s, j, v, t, k)
    BY <1>2, <1>4, <1>6, <1>8, <1>9 DEF Move
  <2>2. QED BY <2>1, StatesDiffer
            DEF MovePump, MoveBEGIN, MoveCONTENT, MoveREADY
<1>11. QED BY <1>7, <1>10 DEF MoveCOMPLETE, Complete

\* A connection is kept for the next request only when the response is
\* complete, in a server whose replies end what they reply to, with clients
\* that do not close their sending side.
THEOREM ReuseComplete ==
  ASSUME RepliesEnd
  PROVE  Spec => ReuseDelivers
<1> DEFINE Inv == LifeInv /\ \A c \in Conns : IntactInv(conn[c], Place(c), job[c])
           Delivers == \A c \in Conns :
             conn[c].state = COMPLETE /\ conn'[c].state = BEGIN /\ conn'[c].open
             => /\ conn[c].fin /\ conn[c].hdr /\ ~conn[c].cut
                /\ conn[c].out = 0 /\ conn[c].doc = 0 /\ conn[c].rem = 0
<1>1. Init => Inv
  <2>1. ASSUME Init, NEW c \in Conns
        PROVE  IntactInv(conn[c], Place(c), job[c])
    <3>1. conn[c] = NoWebs /\ job[c] = "none" /\ Place(c) = "select"
      BY <2>1 DEF Init, Place
    <3>2. /\ NoWebs.state = BEGIN /\ ~NoWebs.fin /\ ~NoWebs.cut
          /\ ~NoWebs.writer /\ ~NoWebs.shut /\ ~NoWebs.sockEof /\ ~NoWebs.ka
      BY DEF NoWebs
    <3>3. QED BY <3>1, <3>2 DEF IntactInv, Whole, Unended
  <2>2. QED BY <2>1, LifeInit
<1>2. Inv /\ [Next]_vars => Inv' /\ Delivers
  <2> SUFFICES ASSUME Inv, [Next]_vars PROVE Inv' /\ Delivers
    OBVIOUS
  <2>1. LifeInv'
    BY LifeStep
  <2>2. ASSUME NEW c \in Conns
        PROVE  /\ Fit(conn[c], Place(c), job[c])
               /\ Fit(conn'[c], (Place(c))', job'[c])
               /\ Move(conn[c], Place(c), job[c], conn'[c], (Place(c))', job'[c])
               /\ IntactInv(conn[c], Place(c), job[c])
    BY StepMove
  <2>3. ASSUME NEW c \in Conns
        PROVE  IntactInv(conn'[c], (Place(c))', job'[c])
    BY <2>2, IntactMove
  <2>4. ASSUME NEW c \in Conns, conn[c].state = COMPLETE,
               conn'[c].state = BEGIN, conn'[c].open
        PROVE  /\ conn[c].fin /\ conn[c].hdr /\ ~conn[c].cut
               /\ conn[c].out = 0 /\ conn[c].doc = 0 /\ conn[c].rem = 0
    <3>1. conn[c].live
      BY <2>2, <2>4, StatesDiffer DEF IntactInv
    <3>2. conn[c].ka /\ conn[c].rem = 0
      BY <2>2, <2>4, <3>1, Reused
    <3>3. conn[c].fin
      BY <2>2, <2>4, <3>2 DEF Fit, Sound
    <3>4. QED BY <2>2, <2>4, <3>2, <3>3 DEF IntactInv, Whole
  <2>5. Delivers
    BY <2>4
  <2>6. QED BY <2>1, <2>3, <2>5 DEF IntactInv, Whole, Unended, Place
<1>3. Delivers => [Delivers]_vars
  OBVIOUS
<1> HIDE DEF Inv
<1>4. Spec => [][Delivers]_vars
  BY <1>1, <1>2, PTL DEF Spec
<1>5. QED BY <1>4 DEF ReuseDelivers

(***************************************************************************)
(* Nothing is parked.  An ended response that is not complete waits for    *)
(* room, whatever the routine that ended it.                               *)
(***************************************************************************)
Ends(w) == w.fin /\ w.state # COMPLETE => "W" \in w.mask /\ w.out > 0

\* websWriteHeaders and blocks.
LEMMA HeadersEnds ==
  ASSUME NEW w \in WebsType, Ends(w)
  PROVE  WriteHeaders(w) \in WebsType /\ Ends(WriteHeaders(w))
<1> DEFINE v == WriteHeaders(w)
<1>1. v \in WebsType
  BY WriteHeadersKept DEF Kept
<1>2. v.fin = w.fin /\ v.mask = w.mask /\ v.state \in {w.state, COMPLETE}
  BY WriteHeadersKept, WriteHeadersMakes DEF Kept
<1>3. CASE w.hdr
  <2>1. v = w
    BY <1>3 DEF WriteHeaders
  <2>2. QED BY <1>1, <2>1
<1>4. CASE ~w.hdr
  <2>1. v.state # COMPLETE => v.out > 0
    BY <1>4, WriteHeadersMakes
  <2> HIDE DEF v
  <2>2. QED BY <1>1, <1>2, <2>1 DEF Ends, v
<1>5. QED BY <1>3, <1>4

LEMMA BlockEnds ==
  ASSUME NEW w \in WebsType, Ends(w)
  PROVE  WriteBlock(w) \in WebsType /\ Ends(WriteBlock(w))
<1> DEFINE v == WriteBlock(w)
<1>1. v \in WebsType
  BY WriteBlockKept DEF Kept
<1>2. v.fin = w.fin /\ v.mask = w.mask /\ v.state \in {w.state, COMPLETE}
  BY WriteBlockKept, WriteBlockMakes DEF Kept
<1>3. v.state # COMPLETE => v.out > 0
  BY WriteBlockMakes
<1> HIDE DEF v
<1>4. QED BY <1>1, <1>2, <1>3 DEF Ends, v

LEMMA BlocksEnds ==
  ASSUME NEW w \in WebsType, Ends(w)
  PROVE  \A g \in Gathers(w) : g \in WebsType /\ Ends(g)
<1> DEFINE h == WriteHeaders(w)
           b == WriteBlock(h)
<1>1. h \in WebsType /\ Ends(h)
  BY HeadersEnds
<1> HIDE DEF h
<1>2. b \in WebsType /\ Ends(b)
  BY <1>1, BlockEnds
<1> HIDE DEF b
<1>3. WriteBlock(b) \in WebsType /\ Ends(WriteBlock(b))
  BY <1>2, BlockEnds
<1>4. QED BY <1>1, <1>2, <1>3 DEF h, b, Gathers

\* websFlush, websDone, websError, fileWriteEvent and writeEvent.
LEMMA FlushEnds ==
  ASSUME NEW w \in WebsType, Ends(w)
  PROVE  Flush(w) \in WebsType /\ Ends(Flush(w))
<1> DEFINE v == Flush(w)
<1>1. v \in WebsType
  BY FlushKept DEF Kept
<1>2. v.fin = w.fin /\ v.mask = w.mask /\ v.state \in {w.state, COMPLETE}
  BY FlushKept, FlushMakes DEF Kept
<1>3. v.state # COMPLETE =>
        v.state = IF v.out = 0 /\ w.fin THEN COMPLETE ELSE w.state
  BY FlushMakes
<1> HIDE DEF v
<1>4. v.out \in Nat
  BY <1>1, CoreAssumption DEF WebsType, Queued
<1>5. QED BY <1>1, <1>2, <1>3, <1>4 DEF Ends, v

LEMMA DoneEnds ==
  ASSUME NEW w \in WebsType, Ends(w)
  PROVE  Ends(Done(w))
<1>1. CASE w.fin
  BY <1>1, DoneMakes
<1>2. CASE ~w.fin
  BY <1>2, DoneMakes DEF Ends
<1>3. QED BY <1>1, <1>2

LEMMA ErrorEnds ==
  ASSUME NEW w \in WebsType, Ends(w), NEW close \in BOOLEAN
  PROVE  Ends(Error(w, close))
<1> DEFINE e == [w EXCEPT !.ka = @ /\ ~close /\ w.rem = 0]
<1>1. e \in WebsType /\ Ends(e)
  BY ZenonT(60) DEF WebsType, Ends
<1>2. Error(w, close) = Done(WriteBlock(WriteHeaders(e)))
  BY DEF Error, Response
<1> HIDE DEF e
<1>3. QED BY <1>1, <1>2, BlocksEnds, DoneEnds DEF Gathers

LEMMA FileWriteEnds ==
  ASSUME NEW w \in WebsType, Ends(w)
  PROVE  Ends(FileWrite(w))
<1> DEFINE v == FileWrite(w)
<1>1. /\ w.mask \subseteq v.mask
      /\ w.fin => v.state = w.state /\ v.out = w.out
      /\ v.fin /\ ~w.fin => (v.state # COMPLETE => "W" \in v.mask /\ v.out > 0)
  BY FileWriteKept, FileWriteMakes DEF Kept
<1> HIDE DEF v
<1>2. QED BY <1>1 DEF Ends, v

LEMMA WriteEventEnds ==
  ASSUME NEW w \in WebsType, Ends(w)
  PROVE  Ends(WriteEvent(w))
<1> DEFINE f == IF w.out > 0 THEN Flush(w) ELSE w
<1>1. f \in WebsType /\ Ends(f)
  BY FlushEnds
<1>2. WriteEvent(w) = IF f.out = 0 /\ f.writer THEN FileWrite(f) ELSE f
  BY DEF WriteEvent
<1> HIDE DEF f
<1>3. QED BY <1>1, <1>2, FileWriteEnds

\* The handlers.
LEMMA ServeEnds ==
  ASSUME NEW w \in WebsType, Ends(w), w.state = READY
  PROVE  /\ Ends(Running(w))
         /\ \A n \in Nat : Ends(ServeAction(w, n))
         /\ \A n \in Document : Ends(ServeFile(w, n))
<1> DEFINE r == Running(w)
           h == WriteHeaders(r)
           b1 == WriteBlock(h)
           b2 == WriteBlock(b1)
<1>1. r \in WebsType /\ Ends(r)
  BY RunningType, StatesDiffer DEF Running, WebsType, Ends
<1> HIDE DEF r
<1>2. h \in WebsType /\ Ends(h)
  BY <1>1, HeadersEnds
<1> HIDE DEF h
<1>3. b1 \in WebsType /\ Ends(b1)
  BY <1>2, BlockEnds
<1> HIDE DEF b1
<1>4. b2 \in WebsType /\ Ends(b2)
  BY <1>3, BlockEnds
<1> HIDE DEF b2
<1>5. ASSUME NEW n \in Nat PROVE Ends(ServeAction(w, n))
  <2> DEFINE b == CASE n = 0 -> h [] n = 1 -> b1 [] OTHER -> b2
  <2>1. ServeAction(w, n) = Done(b)
    BY DEF ServeAction, r, h, b1, b2
  <2>2. b \in WebsType /\ Ends(b)
    BY <1>2, <1>3, <1>4
  <2> HIDE DEF b
  <2>3. QED BY <2>1, <2>2, DoneEnds
<1>6. ASSUME NEW n \in Document PROVE Ends(ServeFile(w, n))
  <2> DEFINE d == [h EXCEPT !.doc = n]
             s == Writing(d)
             f == IF Flushed(s) THEN FileWrite(Flush(s)) ELSE Flush(s)
             m == IF f.state # COMPLETE THEN f.mask \cup {"W"} ELSE f.mask
             v == [f EXCEPT !.mask = m]
  <2>1. ServeFile(w, n) = IF n = 0 THEN Done(h) ELSE v
    BY DEF ServeFile, SetBackgroundWriter, Writing, r, h
  <2>2. s \in WebsType /\ Ends(s)
    BY <1>2 DEF WebsType, Ends, Writing
  <2> HIDE DEF s
  <2>3. Flush(s) \in WebsType /\ Ends(Flush(s))
    BY <2>2, FlushEnds
  <2>4. FileWrite(Flush(s)) \in WebsType /\ Ends(FileWrite(Flush(s)))
    BY <2>3, FileWriteKept, FileWriteEnds DEF Kept
  <2>5. f \in WebsType /\ Ends(f) /\ f.mask \subseteq m
    BY <2>3, <2>4
  <2> HIDE DEF f, m
  <2>6. Ends(v)
    BY <2>5 DEF WebsType, Ends
  <2>7. QED BY <1>2, <2>1, <2>6, DoneEnds
<1>7. QED BY <1>1, <1>5, <1>6 DEF r

\* What a handler does not end it leaves to the background writer, which
\* waits for room.
LEMMA ServeParks ==
  ASSUME NEW w \in WebsType
  PROVE  /\ \A n \in Nat : ServeAction(w, n).fin
         /\ \A n \in Document :
              LET v == ServeFile(w, n)
              IN v.state = RUNNING /\ ~v.fin => v.writer /\ "W" \in v.mask
<1> DEFINE r == Running(w)
           h == WriteHeaders(r)
<1>1. r \in WebsType
  BY RunningType
<1> HIDE DEF r
<1>2. /\ h \in WebsType /\ WriteBlock(h) \in WebsType
      /\ WriteBlock(WriteBlock(h)) \in WebsType
  BY <1>1, WriteHeadersKept, BlocksKept DEF Kept
<1> HIDE DEF h
<1>3. ASSUME NEW n \in Nat PROVE ServeAction(w, n).fin
  <2> DEFINE b == CASE n = 0 -> h
                    [] n = 1 -> WriteBlock(h)
                    [] OTHER -> WriteBlock(WriteBlock(h))
  <2>1. ServeAction(w, n) = Done(b)
    BY DEF ServeAction, r, h
  <2>2. b \in WebsType
    BY <1>2
  <2> HIDE DEF b
  <2>3. QED BY <2>1, <2>2, DoneMakes
<1>4. ASSUME NEW n \in Document
      PROVE  LET v == ServeFile(w, n)
             IN v.state = RUNNING /\ ~v.fin => v.writer /\ "W" \in v.mask
  <2> DEFINE d == [h EXCEPT !.doc = n]
             s == Writing(d)
             f == IF Flushed(s) THEN FileWrite(Flush(s)) ELSE Flush(s)
             m == IF f.state # COMPLETE THEN f.mask \cup {"W"} ELSE f.mask
             v == [f EXCEPT !.mask = m]
  <2>1. ServeFile(w, n) = IF n = 0 THEN Done(h) ELSE v
    BY DEF ServeFile, SetBackgroundWriter, Writing, r, h
  <2>2. s \in WebsType /\ s.writer
    BY <1>2 DEF WebsType, Writing
  <2> HIDE DEF s
  <2>3. Flush(s) \in WebsType /\ Flush(s).writer
    BY <2>2, FlushKept DEF Kept
  <2>4. FileWrite(Flush(s)) \in WebsType /\ FileWrite(Flush(s)).writer
    BY <2>3, FileWriteKept DEF Kept
  <2>5. f \in WebsType /\ f.writer /\ (f.state # COMPLETE => "W" \in m)
    BY <2>3, <2>4
  <2> HIDE DEF f, m
  <2>6. v.mask = m /\ v.state = f.state /\ v.writer
    BY <2>5 DEF WebsType
  <2> HIDE DEF v
  <2>7. Done(h).fin
    BY <1>2, DoneMakes
  <2>8. QED BY <2>1, <2>5, <2>6, <2>7, StatesDiffer
<1>5. QED BY <1>3, <1>4

(***************************************************************************)
(* What a connection waits for, in the places where a handler may return.  *)
(***************************************************************************)
ParkInv(w, s, j) ==
  w.open =>
  /\ w.state \in {BEGIN, CONTENT}
     /\ s \notin {"read", "pumpRead", "tail", "pumpLost", "lost"} =>
       "R" \in w.mask
  /\ w.state = CONTENT /\ s \notin {"read", "pumpRead", "pumpWrite", "pumpCgi"} =>
       w.rx = << >>
  /\ w.state = READY => s \in PumpSites
  /\ w.state = BEGIN /\ s \notin PumpSites => ParseWaits(w)
  /\ w.state = RUNNING /\ ~w.fin /\ j = "none" => w.writer /\ "W" \in w.mask
  /\ s \in {"pumpLost", "lost"} => w.state \in {CONTENT, COMPLETE}

\* An ended response is complete, or on its way to be.
EndInv(w, s, j) ==
  w.open =>
  /\ Ends(w)
  /\ j = "none" /\ w.state = COMPLETE => s \in PumpSites

\* What ends a response before its body is read is a lost connection.
EndsInTime(w, s) ==
  w.open /\ w.fin /\ w.state = CONTENT => s \in {"pumpLost", "lost"}

\* Without CGI programs only an error ends a response before its handler.
CalmInv(w, s, j) ==
  /\ j = "none"
  /\ EndsInTime(w, s)
  /\ w.open /\ w.fin /\ w.state = BEGIN => w.rx # << >> /\ Head(w.rx) = "huge"

\* An output routine, at one place.
LEMMA KeptParks ==
  ASSUME NEW w, NEW s, NEW j, NEW v, NEW k, Kept(v, w), ParkInv(w, s, j),
         k = "none" => j = "none" \/ v.fin
  PROVE  ParkInv(v, s, k)
<1>1. /\ v.state \in {w.state, COMPLETE} /\ v.rx = w.rx /\ v.open = w.open
      /\ w.mask \subseteq v.mask /\ v.writer = w.writer /\ (w.fin => v.fin)
  BY DEF Kept
<1>2. ParseWaits(w) => ParseWaits(v)
  BY <1>1 DEF ParseWaits
<1>3. QED BY <1>1, <1>2, StatesDiffer DEF ParkInv

\* What filterChunkData leaves: the piece of body it did not need.
LEMMA TakeBodyMakes ==
  ASSUME NEW w \in WebsType
  PROVE  LET b == TakeBody(w)
         IN /\ b \in WebsType /\ (b.rem # 0 => b.rx = << >>)
            /\ b.open = w.open /\ b.mask = w.mask /\ b.fin = w.fin
            /\ b.state = w.state /\ b.writer = w.writer /\ b.out = w.out
            /\ b.closed = w.closed /\ b.live = w.live
<1> DEFINE n == Least(w.rem, Len(w.rx))
           x == SubSeq(w.rx, n + 1, Len(w.rx))
           r == w.rem - n
           b == TakeBody(w)
<1>1. w.rx \in Seq(Pieces) /\ w.rem \in Nat /\ Len(w.rx) \in Nat
  BY CoreAssumption DEF WebsType, Body
<1>2. n \in Nat /\ (r # 0 => n = Len(w.rx))
  BY <1>1 DEF Least
<1>3. r # 0 => x = << >>
  <2> HIDE DEF n
  <2>1. r # 0 => x = SubSeq(w.rx, Len(w.rx) + 1, Len(w.rx))
    BY <1>2
  <2> HIDE DEF r, x
  <2>2. SubSeq(w.rx, Len(w.rx) + 1, Len(w.rx)) = << >>
    BY <1>1
  <2>3. QED BY <2>1, <2>2
<1>4. b = [w EXCEPT !.rx = x, !.rem = r]
  BY DEF TakeBody
<1>5. b \in WebsType
  BY TakeBodyType
<1> HIDE DEF n, x, r, b
<1>6. /\ b.rx = x /\ b.rem = r /\ b.open = w.open /\ b.mask = w.mask
      /\ b.fin = w.fin /\ b.state = w.state /\ b.writer = w.writer
      /\ b.out = w.out /\ b.closed = w.closed /\ b.live = w.live
  BY <1>4 DEF WebsType
<1>7. QED BY <1>3, <1>5, <1>6 DEF b

\* parseIncoming drops no interest and ends in no later state.
LEMMA ParseMakes ==
  ASSUME NEW w \in WebsType, w.state = BEGIN
  PROVE  LET v == ParseIncoming(w)
         IN /\ v.state \in {BEGIN, CONTENT, READY, COMPLETE}
            /\ w.mask \subseteq v.mask
            /\ v.open = w.open /\ (w.fin => v.fin)
            /\ Ends(w) => Ends(v)
            /\ v.fin /\ v.state = CONTENT => w.fin /\ HeaderReady(w.rx)
            /\ v.fin /\ v.state = BEGIN => ~HeaderReady(w.rx) /\ v.rx = w.rx
<1> DEFINE a == AfterHeader(w.rx)
           x == [w EXCEPT !.rx = a]
<1>1. CASE ~HeaderReady(w.rx)
  <2> DEFINE v == Error(w, TRUE)
  <2>1. Kept(v, w) /\ (Ends(w) => Ends(v))
    BY ErrorKept, ErrorEnds
  <2>2. ParseIncoming(w) = v
    BY <1>1 DEF ParseIncoming
  <2> HIDE DEF v
  <2>3. QED BY <1>1, <2>1, <2>2, StatesDiffer DEF Kept
<1>2. CASE HeaderReady(w.rx) /\ HeaderOf(w.rx) = "bad"
  <2>1. a \in Seq(Pieces)
    BY <1>2, HeaderType DEF WebsType
  <2> DEFINE e == Error(x, TRUE)
             v == IF e.state = COMPLETE THEN e ELSE [e EXCEPT !.state = READY]
  <2>2. ParseIncoming(w) = v
    BY <1>2, StatesDiffer DEF ParseIncoming, Refused
  <2> HIDE DEF a
  <2>3. /\ x \in WebsType /\ x.mask = w.mask /\ x.open = w.open
        /\ x.fin = w.fin /\ x.state = w.state /\ x.out = w.out
    BY <2>1 DEF WebsType
  <2> HIDE DEF x
  <2>4. Kept(e, x)
    BY <2>3, ErrorKept
  <2>5. Ends(w) => Ends(e)
    BY <2>3, ErrorEnds DEF Ends
  <2> HIDE DEF e
  <2>6. /\ v.mask = e.mask /\ v.open = e.open /\ v.fin = e.fin
        /\ v.out = e.out /\ v.state \in {READY, COMPLETE}
        /\ v.state = COMPLETE <=> e.state = COMPLETE
    BY <2>4, StatesDiffer DEF Kept, WebsType
  <2> HIDE DEF v
  <2>7. QED BY <2>2, <2>3, <2>4, <2>5, <2>6, StatesDiffer DEF Kept, Ends
<1>3. CASE HeaderReady(w.rx) /\ HeaderOf(w.rx) # "bad"
  <2> DEFINE kind == HeaderOf(w.rx)
             kk == kind # "close"
             rm == IF kind = "post" THEN PostLen ELSE 0
             st == IF kind = "post" THEN CONTENT ELSE READY
             v == [w EXCEPT !.rx = a, !.ka = kk, !.rem = rm, !.state = st]
  <2>1. ParseIncoming(w) = v
    BY <1>3 DEF ParseIncoming, Accepted
  <2>2. st \in {CONTENT, READY}
    OBVIOUS
  <2> HIDE DEF kk, rm, st, a
  <2>3. /\ v.mask = w.mask /\ v.open = w.open /\ v.fin = w.fin
        /\ v.out = w.out /\ v.state = st
    BY DEF WebsType
  <2> HIDE DEF v
  <2>4. QED BY <1>3, <2>1, <2>2, <2>3, StatesDiffer DEF Ends
<1>4. QED BY <1>1, <1>2, <1>3

\* A turn of websPump leaves nothing where it returns.
LEMMA ParkPump ==
  ASSUME "put" \notin Faults, NEW w, NEW s, NEW j, NEW v, NEW t, NEW k,
         Fit(w, s, j), Fit(v, t, k), MovePump(w, s, j, v, t, k),
         ParkInv(w, s, j)
  PROVE  ParkInv(v, t, k)
<1>1. /\ w \in WebsType /\ v \in WebsType /\ Sound(w) /\ w.live
      /\ s \in PumpSites /\ (w.open => ~w.closed)
      /\ s \in {"pumpLost", "lost"} => ~w.ka
  BY DEF Fit, MovePump, PumpSites, Sound, Timed
<1>2. /\ t \in {s, ReturnOf[s]} /\ (t \in {"pumpLost", "lost"} <=> s = "pumpLost")
  BY PumpPlace
<1>3. /\ s \in {"pumpRead", "pumpLost", "pumpWrite", "pumpCgi"}
      /\ t = s \/ <<s, t>> \in {<<"pumpRead", "tail">>, <<"pumpLost", "lost">>,
                                <<"pumpWrite", "end">>, <<"pumpCgi", "select">>}
  BY <1>1, <1>2 DEF PumpSites, ReturnOf
<1>4. CASE ~v.open
  BY <1>4 DEF ParkInv
<1>5. CASE /\ v = w /\ k = j /\ w.state \in {BEGIN, CONTENT, RUNNING}
           /\ w.state = BEGIN => ParseWaits(w)
           /\ w.state = CONTENT => w.rx = << >>
  BY <1>3, <1>5, StatesDiffer DEF ParkInv
<1>6. CASE w.state = BEGIN /\ v = ParseIncoming(w) /\ t = s /\ k = j
  <2>1. /\ v.state \in {BEGIN, CONTENT, READY, COMPLETE}
        /\ w.mask \subseteq v.mask /\ v.open = w.open
    BY <1>1, <1>6, ParseMakes
  <2>2. w.open => s # "pumpLost"
    BY <1>3, <1>6, StatesDiffer DEF ParkInv
  <2>3. QED BY <1>1, <1>3, <1>6, <2>1, <2>2, StatesDiffer DEF ParkInv
<1> DEFINE b == TakeBody(w)
<1>7. CASE /\ w.state = CONTENT /\ w.rx # << >> /\ k = j
           /\ \E u : /\ Kept(u, b) /\ v = AtEnd(u)
                     /\ t = IF u.rem = 0 THEN s ELSE ReturnOf[s]
  <2>1. /\ b \in WebsType /\ (b.rem # 0 => b.rx = << >>)
        /\ b.open = w.open /\ b.mask = w.mask /\ b.state = w.state
    BY <1>1, TakeBodyMakes
  <2> HIDE DEF b
  <2>2. PICK u : /\ Kept(u, b) /\ v = AtEnd(u)
                 /\ t = IF u.rem = 0 THEN s ELSE ReturnOf[s]
    BY <1>7
  <2>3. /\ u \in WebsType /\ u.rem = b.rem /\ u.rx = b.rx /\ u.open = w.open
        /\ w.mask \subseteq u.mask /\ u.state \in {CONTENT, COMPLETE}
    BY <1>7, <2>1, <2>2 DEF Kept
  <2>4. w.open => s # "pumpLost"
    BY <1>3, <1>7 DEF ParkInv
  <2>5. CASE u.rem = 0
    <3>1. v.state = READY /\ v.open = w.open
      BY <2>2, <2>3, <2>5 DEF AtEnd, BodyDone, WebsType
    <3>2. QED BY <1>1, <2>2, <2>4, <2>5, <3>1, StatesDiffer DEF ParkInv, PumpSites
  <2>6. CASE u.rem # 0
    <3>1. v = u /\ v.rx = << >>
      BY <2>1, <2>2, <2>3, <2>6 DEF AtEnd
    <3>2. QED BY <1>2, <1>3, <1>7, <2>3, <2>4, <3>1, StatesDiffer DEF ParkInv
  <2>7. QED BY <2>5, <2>6
<1>8. CASE MoveREADY(w, s, j, v, t, k)
  <2>1. w.open => s # "pumpLost"
    BY <1>3, <1>8, StatesDiffer DEF ParkInv, MoveREADY
  <2>2. w.state = READY /\ t = IF v.state = RUNNING THEN ReturnOf[s] ELSE s
    BY <1>8 DEF MoveREADY
  <2>3. CASE v = Error(w, FALSE)
    <3>1. v.state \in {READY, COMPLETE} /\ v.open = w.open
      BY <1>1, <2>2, <2>3, ErrorKept DEF Kept
    <3>2. QED BY <1>1, <2>1, <2>2, <3>1, StatesDiffer DEF ParkInv, PumpSites
  <2> DEFINE r == Running(w)
             q == Writing(r)
  <2>4. r.state = RUNNING /\ r.open = w.open
    BY <1>1 DEF Running, WebsType
  <2>5. q.state = RUNNING /\ q.open = w.open
    <3>1. r \in WebsType
      BY <1>1, RunningType
    <3> HIDE DEF r
    <3>2. QED BY <2>4, <3>1 DEF Writing, WebsType
  <2> HIDE DEF q
  <2>6. CASE \E n \in Nat : v = ServeAction(w, n)
    <3>1. PICK n \in Nat : v = ServeAction(w, n)
      BY <2>6
    <3>2. Kept(v, r)
      BY <1>1, <3>1, ServeActionKept
    <3>3. v.fin
      BY <1>1, <3>1, ServeParks
    <3> HIDE DEF r
    <3>4. v.state \in {RUNNING, COMPLETE} /\ v.open = w.open
      BY <2>4, <3>2 DEF Kept
    <3>5. QED BY <1>1, <1>3, <2>1, <2>2, <3>3, <3>4, StatesDiffer
              DEF ParkInv, PumpSites
  <2>7. CASE \E n \in Document : v = ServeFile(w, n)
    <3>1. PICK n \in Document : v = ServeFile(w, n)
      BY <2>7
    <3>2. Kept(v, r) \/ Kept(v, q)
      BY <1>1, <3>1, ServeFileKept DEF q
    <3>3. v.state = RUNNING /\ ~v.fin => v.writer /\ "W" \in v.mask
      BY <1>1, <3>1, ServeParks
    <3> HIDE DEF r
    <3>4. v.state \in {RUNNING, COMPLETE} /\ v.open = w.open
      BY <2>4, <2>5, <3>2 DEF Kept
    <3>5. QED BY <1>1, <1>3, <2>1, <2>2, <3>3, <3>4, StatesDiffer
              DEF ParkInv, PumpSites
  <2>8. CASE v = r /\ k = "started"
    BY <1>1, <1>2, <2>1, <2>2, <2>4, <2>8, StatesDiffer DEF ParkInv, PumpSites
  <2>9. QED BY <1>8, <2>3, <2>6, <2>7, <2>8 DEF MoveREADY
<1>9. CASE MoveCOMPLETE(w, s, j, v, t, k)
  <2>1. w.state = COMPLETE /\ k = j /\ v = Complete(w)
        /\ t = IF v.rx # << >> THEN s ELSE ReturnOf[s]
    BY <1>9 DEF MoveCOMPLETE
  <2>2. CASE w.ka /\ w.rem = 0
    <3>1. v = ReuseConn(w)
      BY <2>1, <2>2 DEF Complete
    <3>2. v.state = BEGIN /\ v.mask = {"R"}
      BY <1>1, <3>1, ReuseConnMakes
    <3>3. v.rx = << >> => ParseWaits(v)
      BY DEF ParseWaits, HeaderReady
    <3>4. QED BY <1>1, <1>2, <2>1, <2>2, <3>2, <3>3, StatesDiffer
              DEF ParkInv
  <2>3. CASE ~(w.ka /\ w.rem = 0)
    <3>1. v = CloseConn(w)
      BY <2>1, <2>3 DEF Complete
    <3>2. QED BY <1>1, <1>4, <3>1, CloseConnMakes
  <2>4. QED BY <2>2, <2>3
<1>10. CASE MoveBEGIN(w, s, j, v, t, k)
  BY <1>5, <1>6, <1>10, StatesDiffer DEF MoveBEGIN
<1>11. CASE MoveCONTENT(w, s, j, v, t, k)
  <2>1. b \in WebsType
    BY <1>1, TakeBodyType
  <2> HIDE DEF b
  <2>2. Kept(b, b) /\ Kept(Error(b, FALSE), b)
    BY <2>1, KeptRefl, ErrorKept
  <2>3. \/ w.rx = << >> /\ v = w
        \/ /\ w.rx # << >>
           /\ \E u \in {b, Error(b, FALSE)} :
                /\ v = AtEnd(u)
                /\ t = IF u.rem = 0 THEN s ELSE ReturnOf[s]
    BY <1>11 DEF MoveCONTENT, b
  <2>4. w.state = CONTENT /\ k = j
    BY <1>11 DEF MoveCONTENT
  <2>5. QED BY <1>5, <1>7, <2>2, <2>3, <2>4, StatesDiffer
<1>12. QED BY <1>5, <1>8, <1>9, <1>10, <1>11, StatesDiffer DEF MovePump

\* readEvent and writeEvent keep it.
LEMMA ParkEvent ==
  ASSUME NEW w, NEW s, NEW j, NEW v, NEW t, NEW k,
         Fit(w, s, j), Fit(v, t, k), MoveEvent(w, s, j, v, t, k),
         ParkInv(w, s, j)
  PROVE  ParkInv(v, t, k)
<1>1. /\ w \in WebsType /\ v \in WebsType /\ Sound(w) /\ k = j
      /\ w.open => ~w.closed
  BY DEF Fit, MoveEvent, Sound, Timed
<1>2. CASE ~v.open
  BY <1>2 DEF ParkInv
<1>3. CASE s = "read"
  <2>1. /\ v = ReadSocket(w)
        /\ \/ t = "pumpRead"
           \/ t = "tail" /\ w.state = BEGIN /\ (ReadsEof(w) \/ w.net = << >>)
    BY <1>3 DEF MoveEvent
  <2>2. /\ v.state = w.state /\ v.open = w.open /\ v.fin = w.fin
        /\ v.writer = w.writer /\ v.mask = w.mask
    BY <1>1, <2>1 DEF ReadSocket, WebsType
  <2>3. w.open => w.state # READY
    BY <1>3 DEF ParkInv, PumpSites
  <2>4. CASE t = "pumpRead"
    BY <1>1, <1>3, <2>2, <2>3, <2>4 DEF ParkInv, PumpSites
  <2>5. CASE t = "tail" /\ w.state = BEGIN /\ (ReadsEof(w) \/ w.net = << >>)
    <3>1. v.rx = w.rx
      <4>1. CASE ReadsEof(w)
        BY <1>1, <2>1, <4>1 DEF ReadSocket, WebsType
      <4>2. CASE ~ReadsEof(w) /\ w.net = << >>
        <5>1. w.rx \in Seq(Pieces) /\ v.rx = w.rx \o << >>
          BY <1>1, <2>1, <4>2 DEF ReadSocket, WebsType
        <5>2. QED BY <5>1
      <4>3. QED BY <2>5, <4>1, <4>2
    <3>2. w.open => ParseWaits(w)
      BY <1>3, <2>5 DEF ParkInv, PumpSites
    <3>3. ParseWaits(w) => ParseWaits(v)
      BY <3>1 DEF ParseWaits
    <3>4. QED BY <1>1, <1>3, <2>2, <2>5, <3>2, <3>3, StatesDiffer
              DEF ParkInv
  <2>6. QED BY <2>1, <2>4, <2>5
<1>4. CASE v = CloseConn(w)
  BY <1>1, <1>2, <1>4, CloseConnMakes
<1>5. CASE s = "tail"
  <2>1. CASE v = w /\ t = "write" /\ (w.closed \/ w.state >= READY)
    <3>1. w.closed \/ w.state \notin {BEGIN, CONTENT}
      BY <2>1 DEF BEGIN, CONTENT, READY
    <3>2. QED BY <1>1, <1>5, <2>1, <3>1 DEF ParkInv, PumpSites
  <2>2. CASE ~w.closed /\ w.state = CONTENT /\ v = Error(w, FALSE)
             /\ t = "pumpLost"
    <3>1. Kept(v, w) /\ v.fin
      BY <1>1, <2>2, ErrorKept
    <3>2. /\ v.state \in {CONTENT, COMPLETE} /\ v.rx = w.rx /\ v.open = w.open
          /\ w.mask \subseteq v.mask
      BY <2>2, <3>1 DEF Kept
    <3>3. QED BY <1>1, <1>5, <2>2, <3>1, <3>2, StatesDiffer
              DEF ParkInv, PumpSites
  <2>3. CASE /\ ~w.closed /\ t = "write"
             /\ v = [w EXCEPT !.mask = IF w.state < READY THEN @ \cup {"R"}
                                                          ELSE @]
    <3>1. /\ v.state = w.state /\ v.open = w.open /\ v.fin = w.fin
          /\ v.writer = w.writer /\ v.rx = w.rx
          /\ v.mask = IF w.state < READY THEN w.mask \cup {"R"} ELSE w.mask
      BY <1>1, <2>3 DEF WebsType
    <3>2. w.state \in {BEGIN, CONTENT} => w.state < READY
      BY DEF BEGIN, CONTENT, READY
    <3>3. ParseWaits(w) => ParseWaits(v)
      BY <3>1 DEF ParseWaits
    <3>4. QED BY <1>1, <1>5, <2>3, <3>1, <3>2, <3>3 DEF ParkInv, PumpSites
  <2>4. \/ v = w /\ t = "write" /\ (w.closed \/ w.state >= READY)
        \/ v = CloseConn(w)
        \/ ~w.closed /\ w.state = CONTENT /\ v = Error(w, FALSE)
           /\ t = "pumpLost"
        \/ /\ ~w.closed /\ t = "write"
           /\ v = [w EXCEPT !.mask = IF w.state < READY THEN @ \cup {"R"}
                                                        ELSE @]
    BY <1>5 DEF MoveEvent
  <2>5. QED BY <1>4, <2>1, <2>2, <2>3, <2>4
<1>6. CASE s = "write"
  <2>1. Kept(v, w) /\ t \in {"end", "pumpWrite"}
    BY <1>1, <1>6, KeptRefl, WriteEventKept DEF MoveEvent
  <2>2. ParkInv(v, s, k)
    BY <1>1, <1>6, <2>1, KeptParks
  <2>3. QED BY <1>6, <2>1, <2>2 DEF ParkInv, PumpSites
<1>7. CASE s = "end"
  <2>1. t = "select" /\ (v = w \/ v = NoWebs)
    BY <1>7 DEF MoveEvent
  <2>2. ~NoWebs.open
    BY DEF NoWebs
  <2>3. QED BY <1>1, <1>2, <1>7, <2>1, <2>2 DEF ParkInv, PumpSites
<1>8. s = "lost" => v = CloseConn(w)
  BY DEF MoveEvent
<1>9. s \in {"read", "tail", "lost", "write", "end"}
  BY DEF MoveEvent
<1>10. QED BY <1>3, <1>4, <1>5, <1>6, <1>7, <1>8, <1>9

\* A move keeps it.
LEMMA ParkMove ==
  ASSUME "put" \notin Faults, NEW w, NEW s, NEW j, NEW v, NEW t, NEW k,
         Fit(w, s, j), Fit(v, t, k), Move(w, s, j, v, t, k), ParkInv(w, s, j)
  PROVE  ParkInv(v, t, k)
<1>1. w \in WebsType /\ v \in WebsType /\ Sound(w) /\ (w.open => w.live)
  BY DEF Fit, Sound, Timed
<1>2. CASE v = w /\ t = s /\ k = j
  BY <1>2
<1>3. CASE MoveBegin(w, s, j, v, t, k)
  <2>1. k = j /\ s = "select" /\ t \in {"select", "read", "write"}
    BY <1>3 DEF MoveBegin
  <2>2. CASE v = NoWebs \/ v = AcceptFailed(w)
    <3>1. ~NoWebs.open /\ ~AcceptFailed(w).open
      BY DEF NoWebs, AcceptFailed
    <3>2. QED BY <2>2, <3>1 DEF ParkInv
  <2>3. CASE v = Accepting(w) /\ t = "read"
    <3>1. v.rx = << >> /\ v.state = BEGIN
      BY <1>1, <2>3, FreshMakes
    <3>2. ParseWaits(v)
      BY <3>1 DEF ParseWaits, HeaderReady
    <3>3. QED BY <2>3, <3>1, <3>2, StatesDiffer DEF ParkInv
  <2>4. CASE \/ v = [w EXCEPT !.resv = FALSE]
             \/ \E x : v = [w EXCEPT !.timer = x]
    <3>1. /\ v.state = w.state /\ v.open = w.open /\ v.fin = w.fin
          /\ v.writer = w.writer /\ v.mask = w.mask /\ v.rx = w.rx
      BY <1>1, <2>4, BeginMakes
    <3>2. ParseWaits(w) => ParseWaits(v)
      BY <3>1 DEF ParseWaits
    <3>3. QED BY <2>1, <3>1, <3>2 DEF ParkInv, PumpSites
  <2>5. QED BY <1>3, <2>2, <2>3, <2>4 DEF MoveBegin
<1>4. CASE MovePoll(w, s, j, v, t, k)
  <2>1. CASE ~w.live /\ v = w /\ k = "none" /\ t = s
    BY <1>1, <2>1 DEF ParkInv
  <2>2. CASE w.live /\ Kept(v, w)
    <3>1. PICK g \in Gathers(w) :
            g \in WebsType /\ Kept(g, w) /\ Polled(g, j, v, t, k)
      BY <1>4, <2>2, PollMakes
    <3>2. t \in {"select", "pumpCgi"} /\ (k = "none" => v.fin)
      <4>1. Done(g).fin /\ Error(g, FALSE).fin
        BY <3>1, DoneMakes, ErrorKept
      <4>2. QED BY <3>1, <4>1 DEF Polled
    <3>3. s = "select" /\ ParkInv(v, s, k)
      BY <1>1, <1>4, <2>2, <3>2, PollMakes, KeptParks
    <3>4. QED BY <3>2, <3>3 DEF ParkInv, PumpSites
  <2>3. QED BY <1>4, <2>1, <2>2, PollMakes
<1>5. CASE MoveEvent(w, s, j, v, t, k)
  BY <1>5, ParkEvent
<1>6. CASE MovePump(w, s, j, v, t, k)
  BY <1>6, ParkPump
<1>7. CASE MoveOutside(w, s, j, v, t, k)
  <2>1. /\ v.state = w.state /\ v.open = w.open /\ v.fin = w.fin
        /\ v.writer = w.writer /\ v.mask = w.mask /\ v.rx = w.rx
        /\ t = s /\ k = j
    BY <1>1, <1>7, OutsideMakes
  <2>2. ParseWaits(w) => ParseWaits(v)
    BY <2>1 DEF ParseWaits
  <2>3. QED BY <2>1, <2>2 DEF ParkInv
<1>8. QED BY <1>2, <1>3, <1>4, <1>5, <1>6, <1>7 DEF Move

\* A turn of websPump completes what it ends before it returns.
LEMMA EndPump ==
  ASSUME Faults \cap {"put", "upload"} = {},
         NEW w, NEW s, NEW j, NEW v, NEW t, NEW k,
         Fit(w, s, j), MovePump(w, s, j, v, t, k),
         ParkInv(w, s, j), EndsInTime(w, s), EndInv(w, s, j)
  PROVE  EndInv(v, t, k)
<1>1. w \in WebsType /\ s \in PumpSites
  BY DEF Fit, MovePump
<1>2. CASE ~v.open
  BY <1>2 DEF EndInv
<1>3. CASE /\ v = w /\ k = j /\ w.state # COMPLETE
  BY <1>3 DEF EndInv
<1>4. CASE w.state = BEGIN /\ v = ParseIncoming(w) /\ t = s
  BY <1>1, <1>4, ParseMakes DEF EndInv
<1>5. CASE w.state = CONTENT /\ w.rx # << >> /\ v = AtEnd(TakeBody(w))
  <2> DEFINE b == TakeBody(w)
  <2>1. /\ b \in WebsType /\ b.open = w.open /\ b.state = w.state
        /\ b.fin = w.fin
    BY <1>1, TakeBodyMakes
  <2> HIDE DEF b
  <2>2. /\ v.open = w.open /\ v.fin = w.fin /\ v.state \in {CONTENT, READY}
    BY <1>5, <2>1 DEF AtEnd, BodyDone, WebsType, b
  <2>3. w.open => ~w.fin
    BY <1>1, <1>5 DEF ParkInv, EndsInTime
  <2>4. QED BY <2>2, <2>3, StatesDiffer DEF EndInv, Ends
<1>6. CASE MoveREADY(w, s, j, v, t, k)
  <2>1. /\ w.state = READY /\ t = IF v.state = RUNNING THEN ReturnOf[s] ELSE s
        /\ \/ v = Error(w, FALSE) \/ v = Running(w)
           \/ \E n \in Nat : v = ServeAction(w, n)
           \/ \E n \in Document : v = ServeFile(w, n)
    BY <1>6 DEF MoveREADY
  <2>2. Ends(w) => Ends(v)
    BY <1>1, <2>1, ErrorEnds, ServeEnds
  <2>3. v.open = w.open
    <3>1. Error(w, FALSE).open = w.open /\ Running(w).open = w.open
      BY <1>1, ErrorKept DEF Kept, Running, WebsType
    <3>2. Writing(Running(w)).open = w.open
      BY <1>1, <3>1, RunningType DEF Writing, WebsType
    <3>3. \A n \in Nat : ServeAction(w, n).open = w.open
      BY <1>1, <3>1, ServeActionKept DEF Kept
    <3>4. \A n \in Document : ServeFile(w, n).open = w.open
      BY <1>1, <3>1, <3>2, ServeFileKept DEF Kept
    <3>5. QED BY <2>1, <3>1, <3>3, <3>4
  <2>4. v.state = COMPLETE => t \in PumpSites
    BY <1>1, <2>1, StatesDiffer
  <2>5. QED BY <2>2, <2>3, <2>4 DEF EndInv
<1>7. CASE MoveCOMPLETE(w, s, j, v, t, k)
  <2>1. v = ReuseConn(w) \/ v = CloseConn(w)
    BY <1>7 DEF MoveCOMPLETE, Complete
  <2>2. CASE v = ReuseConn(w)
    BY <1>1, <2>2, ReuseConnMakes, StatesDiffer DEF EndInv, Ends
  <2>3. QED BY <1>1, <1>2, <2>1, <2>2, CloseConnMakes
<1>8. "put" \notin Faults /\ "upload" \notin Faults
  OBVIOUS
<1>9. CASE MoveBEGIN(w, s, j, v, t, k)
  BY <1>3, <1>4, <1>9, StatesDiffer DEF MoveBEGIN
<1>10. CASE MoveCONTENT(w, s, j, v, t, k)
  BY <1>3, <1>5, <1>8, <1>10, StatesDiffer DEF MoveCONTENT
<1>11. QED BY <1>3, <1>6, <1>7, <1>9, <1>10, StatesDiffer DEF MovePump

\* A move keeps it.
LEMMA EndMove ==
  ASSUME Faults \cap {"put", "upload"} = {},
         NEW w, NEW s, NEW j, NEW v, NEW t, NEW k,
         Fit(w, s, j), Move(w, s, j, v, t, k),
         ParkInv(w, s, j), EndsInTime(w, s), EndInv(w, s, j)
  PROVE  EndInv(v, t, k)
<1>1. w \in WebsType /\ (w.open => w.live)
  BY DEF Fit, Sound, Timed
<1>2. CASE v = w /\ t = s /\ k = j
  BY <1>2
<1>3. CASE ~v.open
  BY <1>3 DEF EndInv
<1>4. CASE /\ v.state = w.state /\ v.open = w.open /\ v.fin = w.fin
           /\ w.mask \subseteq v.mask /\ v.out = w.out /\ k = j
           /\ t = s \/ s \notin PumpSites
  BY <1>4 DEF EndInv, Ends
<1>5. CASE MoveBegin(w, s, j, v, t, k)
  <2>1. k = j /\ s \notin PumpSites
    BY <1>5 DEF MoveBegin, PumpSites
  <2>2. ~NoWebs.open /\ ~AcceptFailed(w).open
    BY DEF NoWebs, AcceptFailed
  <2>3. CASE v = Accepting(w)
    BY <1>1, <2>3, FreshMakes, StatesDiffer DEF EndInv, Ends
  <2>4. CASE \/ v = [w EXCEPT !.resv = FALSE]
             \/ \E x : v = [w EXCEPT !.timer = x]
    BY <1>1, <1>4, <2>1, <2>4, BeginMakes
  <2>5. QED BY <1>3, <1>5, <2>2, <2>3, <2>4 DEF MoveBegin
<1>6. CASE MovePoll(w, s, j, v, t, k)
  <2>1. CASE ~w.live /\ v = w /\ k = "none" /\ t = s
    BY <1>1, <1>3, <2>1
  <2>2. CASE w.live /\ Kept(v, w)
    <3>1. PICK g \in Gathers(w) :
            g \in WebsType /\ Kept(g, w) /\ Polled(g, j, v, t, k)
      BY <1>6, <2>2, PollMakes
    <3>2. Ends(w) => Ends(g)
      BY <1>1, <3>1, BlocksEnds
    <3>3. Ends(g) => Ends(Done(g)) /\ Ends(Error(g, FALSE))
      BY <3>1, DoneEnds, ErrorEnds
    <3>4. Ends(w) => Ends(v)
      BY <3>1, <3>2, <3>3 DEF Polled
    <3>5. k = "none" => t \in PumpSites
      BY <3>1 DEF Polled, PumpSites
    <3>6. v.open = w.open
      BY <2>2 DEF Kept
    <3>7. QED BY <3>4, <3>5, <3>6 DEF EndInv
  <2>3. QED BY <1>6, <2>1, <2>2, PollMakes
<1>7. CASE MoveEvent(w, s, j, v, t, k)
  <2>1. k = j
    BY <1>7 DEF MoveEvent
  <2>2. CASE s = "read"
    <3>1. v = ReadSocket(w)
      BY <1>7, <2>2 DEF MoveEvent
    <3>2. /\ v.state = w.state /\ v.open = w.open /\ v.fin = w.fin
          /\ v.mask = w.mask /\ v.out = w.out
      BY <1>1, <3>1 DEF ReadSocket, WebsType
    <3>3. QED BY <1>4, <2>1, <2>2, <3>2 DEF PumpSites
  <2>3. CASE v = CloseConn(w)
    BY <1>1, <1>3, <2>3, CloseConnMakes
  <2>4. CASE s = "tail"
    <3>1. CASE v = Error(w, FALSE) /\ t = "pumpLost"
      <4>1. (Ends(w) => Ends(v)) /\ v.open = w.open
        BY <1>1, <3>1, ErrorEnds, ErrorKept DEF Kept
      <4>2. QED BY <3>1, <4>1 DEF EndInv, PumpSites
    <3>2. CASE v = w
      BY <1>4, <2>1, <2>4, <3>2 DEF PumpSites
    <3>3. CASE v = [w EXCEPT !.mask = IF w.state < READY THEN @ \cup {"R"}
                                                         ELSE @]
      <4>1. /\ v.state = w.state /\ v.open = w.open /\ v.fin = w.fin
            /\ w.mask \subseteq v.mask /\ v.out = w.out
        BY <1>1, <3>3 DEF WebsType
      <4>2. QED BY <1>4, <2>1, <2>4, <4>1 DEF PumpSites
    <3>4. QED BY <1>7, <2>3, <2>4, <3>1, <3>2, <3>3 DEF MoveEvent
  <2>5. CASE s = "write"
    <3>1. CASE v = w
      BY <1>4, <2>1, <2>5, <3>1 DEF PumpSites
    <3>2. CASE v = WriteEvent(w)
               /\ t = IF v.state # RUNNING THEN "pumpWrite" ELSE "end"
      <4>1. (Ends(w) => Ends(v)) /\ v.open = w.open
        BY <1>1, <3>2, WriteEventEnds, WriteEventKept DEF Kept
      <4>2. QED BY <3>2, <4>1, StatesDiffer DEF EndInv, PumpSites
    <3>3. QED BY <1>7, <2>5, <3>1, <3>2 DEF MoveEvent
  <2>6. CASE s = "end"
    <3>1. v = w \/ v = NoWebs
      BY <1>7, <2>6 DEF MoveEvent
    <3>2. ~NoWebs.open
      BY DEF NoWebs
    <3>3. QED BY <1>3, <1>4, <2>1, <2>6, <3>1, <3>2 DEF PumpSites
  <2>7. s = "lost" => v = CloseConn(w)
    BY <1>7 DEF MoveEvent
  <2>8. s \in {"read", "tail", "lost", "write", "end"}
    BY <1>7 DEF MoveEvent
  <2>9. QED BY <2>2, <2>3, <2>4, <2>5, <2>6, <2>7, <2>8
<1>8. CASE MovePump(w, s, j, v, t, k)
  BY <1>8, EndPump
<1>9. CASE MoveOutside(w, s, j, v, t, k)
  BY <1>1, <1>4, <1>9, OutsideMakes
<1>10. QED BY <1>2, <1>5, <1>6, <1>7, <1>8, <1>9 DEF Move

\* Without CGI programs, a move keeps responses from ending early.
LEMMA CalmMove ==
  ASSUME Faults \cap {"put", "upload"} = {}, "cgi" \notin Handlers,
         NEW w, NEW s, NEW j, NEW v, NEW t, NEW k,
         Fit(w, s, j), Move(w, s, j, v, t, k),
         ParkInv(w, s, j), CalmInv(w, s, j)
  PROVE  CalmInv(v, t, k)
<1>1. /\ w \in WebsType /\ (w.open => w.live /\ ~w.closed) /\ j = "none"
      /\ w.writer => w.closed \/ w.state \in {RUNNING, COMPLETE}
  BY DEF Fit, Sound, Timed, CalmInv
<1>2. CASE v = w /\ t = s /\ k = j
  BY <1>2
<1>3. CASE k = j /\ (v.open => ~v.fin \/ v.state \notin {BEGIN, CONTENT})
  BY <1>1, <1>3 DEF CalmInv, EndsInTime
<1>4. CASE /\ k = j /\ v.state = w.state /\ v.open = w.open
           /\ v.fin = w.fin
           /\ w.rx # << >> => v.rx # << >> /\ Head(v.rx) = Head(w.rx)
           /\ t = s \/ s \notin {"pumpLost", "lost"} \/ t = "lost"
  BY <1>1, <1>4 DEF CalmInv, EndsInTime
<1>5. CASE k = j /\ ~v.open
  BY <1>3, <1>5
<1>6. CASE MoveBegin(w, s, j, v, t, k)
  <2>1. k = j /\ s = "select"
    BY <1>6 DEF MoveBegin
  <2>2. CASE v \in {NoWebs, Accepting(w), AcceptFailed(w)}
    BY <1>1, <1>3, <2>1, <2>2, FreshMakes
  <2>3. CASE \/ v = [w EXCEPT !.resv = FALSE]
             \/ \E x : v = [w EXCEPT !.timer = x]
    BY <1>1, <1>4, <2>1, <2>3, BeginMakes
  <2>4. QED BY <1>6, <2>2, <2>3 DEF MoveBegin
<1>7. ~MovePoll(w, s, j, v, t, k)
  BY <1>1 DEF MovePoll
<1>8. CASE MoveEvent(w, s, j, v, t, k)
  <2>1. k = j
    BY <1>8 DEF MoveEvent
  <2>2. CASE s = "read"
    <3>1. v = ReadSocket(w)
      BY <1>8, <2>2 DEF MoveEvent
    <3>2. /\ v.state = w.state /\ v.open = w.open /\ v.fin = w.fin
          /\ v.rx = w.rx \/ v.rx = w.rx \o w.net
      BY <1>1, <3>1 DEF ReadSocket, WebsType
    <3>3. w.rx \in Seq(Pieces) /\ w.net \in Seq(Pieces)
      BY <1>1 DEF WebsType
    <3>4. w.rx # << >> => v.rx # << >> /\ Head(v.rx) = Head(w.rx)
      BY <3>2, <3>3, HeadStays
    <3>5. QED BY <1>4, <2>1, <2>2, <3>2, <3>4
  <2>3. CASE v = CloseConn(w)
    BY <1>1, <1>5, <2>1, <2>3, CloseConnMakes
  <2>4. CASE s = "tail"
    <3>1. CASE w.state = CONTENT /\ v = Error(w, FALSE) /\ t = "pumpLost"
      <4>1. v.state \in {CONTENT, COMPLETE}
        BY <1>1, <3>1, ErrorKept DEF Kept
      <4>2. QED BY <1>1, <2>1, <3>1, <4>1, StatesDiffer DEF CalmInv, EndsInTime
    <3>2. CASE v = w
      BY <1>4, <2>1, <2>4, <3>2
    <3>3. CASE v = [w EXCEPT !.mask = IF w.state < READY THEN @ \cup {"R"}
                                                         ELSE @]
      <4>1. /\ v.state = w.state /\ v.open = w.open /\ v.fin = w.fin
            /\ v.rx = w.rx
        BY <1>1, <3>3 DEF WebsType
      <4>2. QED BY <1>4, <2>1, <2>4, <4>1
    <3>4. QED BY <1>8, <2>3, <2>4, <3>1, <3>2, <3>3 DEF MoveEvent
  <2>5. CASE s = "write"
    <3>1. CASE v = w
      BY <1>4, <2>1, <2>5, <3>1
    <3>2. CASE v = WriteEvent(w)
      <4>1. /\ v.state \in {w.state, COMPLETE} /\ v.open = w.open
            /\ v.rx = w.rx /\ (w.fin => v.fin)
        BY <1>1, <3>2, WriteEventKept DEF Kept
      <4>2. v.fin => w.fin \/ w.writer
        BY <1>1, <3>2, WriteEventMakes
      <4>3. v.open /\ v.fin /\ v.state \in {BEGIN, CONTENT} =>
              v.fin = w.fin /\ v.state = w.state
        BY <1>1, <4>1, <4>2, StatesDiffer
      <4>4. QED BY <1>3, <1>4, <2>1, <2>5, <4>1, <4>3
    <3>3. QED BY <1>8, <2>5, <3>1, <3>2 DEF MoveEvent
  <2>6. CASE s = "end"
    <3>1. v = w \/ v = NoWebs
      BY <1>8, <2>6 DEF MoveEvent
    <3>2. ~NoWebs.open
      BY DEF NoWebs
    <3>3. QED BY <1>4, <1>5, <2>1, <2>6, <3>1, <3>2
  <2>7. s = "lost" => v = CloseConn(w)
    BY <1>8 DEF MoveEvent
  <2>8. s \in {"read", "tail", "lost", "write", "end"}
    BY <1>8 DEF MoveEvent
  <2>9. QED BY <2>2, <2>3, <2>4, <2>5, <2>6, <2>7, <2>8
<1>9. CASE MovePump(w, s, j, v, t, k)
  <2>1. /\ t \in {s, ReturnOf[s]} /\ (t \in {"pumpLost", "lost"} <=> s = "pumpLost")
        /\ s \in PumpSites
    BY <1>9, PumpPlace
  <2>2. s = "pumpLost" => t = s \/ t = "lost"
    BY <2>1
  <2>3. CASE v = w /\ k = j
    BY <1>4, <2>1, <2>2, <2>3 DEF PumpSites
  <2>4. CASE /\ w.state = BEGIN /\ ~ParseWaits(w) /\ v = ParseIncoming(w)
             /\ t = s /\ k = j
    <3>1. /\ v.state \in {BEGIN, CONTENT, READY, COMPLETE}
          /\ v.open = w.open
          /\ v.fin /\ v.state = CONTENT => w.fin /\ HeaderReady(w.rx)
          /\ v.fin /\ v.state = BEGIN => ~HeaderReady(w.rx) /\ v.rx = w.rx
      BY <1>1, <2>4, ParseMakes
    <3>2. w.rx # << >> /\ Head(w.rx) = "huge" => ~HeaderReady(w.rx)
      BY DEF HeaderReady, Headers
    <3>3. v.open /\ v.fin => v.state # CONTENT
      BY <1>1, <2>4, <3>1, <3>2 DEF CalmInv
    <3>4. v.fin /\ v.state = BEGIN => v.rx # << >> /\ Head(v.rx) = "huge"
      BY <2>4, <3>1 DEF ParseWaits
    <3>5. QED BY <1>1, <2>4, <3>3, <3>4 DEF CalmInv, EndsInTime
  <2>5. CASE /\ w.state = CONTENT /\ w.rx # << >> /\ k = j
             /\ v = AtEnd(TakeBody(w))
    <3> DEFINE b == TakeBody(w)
    <3>1. /\ b \in WebsType /\ b.open = w.open /\ b.state = w.state
          /\ b.fin = w.fin
      BY <1>1, TakeBodyMakes
    <3> HIDE DEF b
    <3>2. /\ v.open = w.open /\ v.fin = w.fin
      BY <2>5, <3>1 DEF AtEnd, BodyDone, WebsType, b
    <3>3. w.open => ~w.fin
      BY <2>1, <2>5 DEF ParkInv, CalmInv, EndsInTime, PumpSites
    <3>4. QED BY <1>3, <2>5, <3>2, <3>3
  <2>6. CASE MoveREADY(w, s, j, v, t, k)
    <3>1. /\ w.state = READY /\ k = j
          /\ \/ v = Error(w, FALSE)
             \/ \E n \in Nat : v = ServeAction(w, n)
             \/ \E n \in Document : v = ServeFile(w, n)
      BY <2>6 DEF MoveREADY
    <3> DEFINE r == Running(w)
               q == Writing(r)
    <3>2. r \in WebsType /\ r.state = RUNNING
      BY <1>1, RunningType
    <3>3. q.state = RUNNING
      <4> HIDE DEF r
      <4>1. QED BY <3>2 DEF Writing, WebsType
    <3>4. Error(w, FALSE).state \in {READY, COMPLETE}
      BY <1>1, <3>1, ErrorKept DEF Kept
    <3>5. /\ \A n \in Nat : Kept(ServeAction(w, n), r)
          /\ \A n \in Document : Kept(ServeFile(w, n), r) \/ Kept(ServeFile(w, n), q)
      BY <1>1, ServeActionKept, ServeFileKept
    <3> HIDE DEF r, q
    <3>6. v.state \in {READY, RUNNING, COMPLETE}
      BY <3>1, <3>2, <3>3, <3>4, <3>5 DEF Kept
    <3>7. QED BY <1>3, <3>1, <3>6, StatesDiffer
  <2>7. CASE MoveCOMPLETE(w, s, j, v, t, k)
    <3>1. k = j /\ (v = ReuseConn(w) \/ v = CloseConn(w))
      BY <2>7 DEF MoveCOMPLETE, Complete
    <3>2. ~ReuseConn(w).fin /\ ~CloseConn(w).open
      BY <1>1, ReuseConnMakes, CloseConnMakes
    <3>3. QED BY <1>3, <3>1, <3>2
  <2>8. "put" \notin Faults /\ "upload" \notin Faults
    OBVIOUS
  <2>9. CASE MoveBEGIN(w, s, j, v, t, k)
    BY <2>3, <2>4, <2>9 DEF MoveBEGIN
  <2>10. CASE MoveCONTENT(w, s, j, v, t, k)
    BY <2>3, <2>5, <2>8, <2>10 DEF MoveCONTENT
  <2>11. QED BY <1>9, <2>3, <2>6, <2>7, <2>9, <2>10 DEF MovePump
<1>10. CASE MoveOutside(w, s, j, v, t, k)
  BY <1>1, <1>4, <1>10, OutsideMakes
<1>11. QED BY <1>2, <1>6, <1>7, <1>8, <1>9, <1>10 DEF Move

(***************************************************************************)
(* NothingParked.  The consumer of a body that fails in websProcessPutData *)
(* leaves what arrived of it in rxbuf, so "put" is excluded.  An error     *)
(* reply that is routed on to a CGI program leaves a program that works    *)
(* for the next request of its connection, so programs go with servers in  *)
(* which nothing is refused, or with the weaker promise of BodyFaults.     *)
(***************************************************************************)
Tidy(w, s, j) ==
  "upload" \notin Faults =>
    /\ EndInv(w, s, j)
    /\ IF "cgi" \in Handlers THEN LateInv(w, s, j) ELSE CalmInv(w, s, j)

\* In select, every open connection waits for what can move it on, in a
\* server that runs no CGI programs, or refuses no request, or whose upload
\* filter may fail (NothingParked then promises less).
THEOREM NothingIsParked ==
  ASSUME "put" \notin Faults,
         "upload" \in Faults \/ "cgi" \notin Handlers \/ AllServed
  PROVE  Spec => []NothingParked
<1> DEFINE One(w, s, j) == ParkInv(w, s, j) /\ Tidy(w, s, j)
           Inv == LifeInv /\ \A c \in Conns : One(conn[c], Place(c), job[c])
<1>1. Init => Inv
  <2>1. << >> \in Seq(Fine)
    OBVIOUS
  <2>2. ASSUME Init, NEW c \in Conns
        PROVE  One(conn[c], Place(c), job[c])
    <3>1. conn[c] = NoWebs /\ job[c] = "none" /\ Place(c) = "select"
      BY <2>2 DEF Init, Place
    <3>2. /\ NoWebs.rx = << >> /\ NoWebs.net = << >> /\ ~NoWebs.fin
          /\ ~NoWebs.late /\ ~NoWebs.open
      BY DEF NoWebs
    <3>3. QED BY <2>1, <3>1, <3>2
              DEF ParkInv, Tidy, EndInv, CalmInv, EndsInTime, LateInv, Clean
  <2>3. QED BY <2>2, LifeInit
<1>2. Inv /\ [Next]_vars => Inv'
  <2> SUFFICES ASSUME Inv, [Next]_vars PROVE Inv'
    OBVIOUS
  <2>1. LifeInv'
    BY LifeStep
  <2>2. ASSUME NEW c \in Conns
        PROVE  One(conn'[c], (Place(c))', job'[c])
    <3> DEFINE w == conn[c]
               s == Place(c)
               j == job[c]
               v == conn'[c]
               t == (Place(c))'
               k == job'[c]
    <3>1. Fit(w, s, j) /\ Fit(v, t, k) /\ Move(w, s, j, v, t, k)
      BY StepMove
    <3>2. ParkInv(w, s, j) /\ Tidy(w, s, j)
      OBVIOUS
    <3> HIDE DEF w, s, j, v, t, k
    <3>3. ParkInv(v, t, k)
      BY <3>1, <3>2, ParkMove
    <3>4. ASSUME "upload" \notin Faults, "cgi" \notin Handlers
          PROVE  EndInv(v, t, k) /\ CalmInv(v, t, k)
      <4>1. EndInv(w, s, j) /\ CalmInv(w, s, j) /\ EndsInTime(w, s)
        BY <3>2, <3>4 DEF Tidy, CalmInv
      <4>2. Faults \cap {"put", "upload"} = {}
        BY <3>4
      <4>3. QED BY <3>1, <3>2, <3>4, <4>1, <4>2, EndMove, CalmMove
    <3>5. ASSUME "upload" \notin Faults, "cgi" \in Handlers
          PROVE  EndInv(v, t, k) /\ LateInv(v, t, k)
      <4>1. AllServed /\ EndInv(w, s, j) /\ LateInv(w, s, j)
        BY <3>2, <3>5 DEF Tidy
      <4>2. Faults \cap {"put", "upload"} = {}
        BY <3>5
      <4>3. EndsInTime(w, s)
        BY <3>1, <4>1, StatesDiffer DEF LateInv, EndsInTime, Fit, Sound, Timed
      <4>4. QED BY <3>1, <3>2, <4>1, <4>2, <4>3, EndMove, LateMove
    <3>6. Tidy(v, t, k)
      BY <3>4, <3>5 DEF Tidy
    <3>7. QED BY <3>3, <3>6 DEF v, t, k
  <2>3. QED BY <2>1, <2>2 DEF ParkInv, Tidy, EndInv, CalmInv, EndsInTime,
                              LateInv, Clean, Ends, Place
<1>3. Inv => NothingParked
  <2> SUFFICES ASSUME Inv, At("select"), NEW c \in Conns, conn[c].open
               PROVE  LET w == conn[c]
                      IN /\ w.state = BEGIN => "R" \in w.mask /\ ParseWaits(w)
                         /\ w.state = CONTENT => "R" \in w.mask /\ w.rx = << >>
                         /\ w.state # READY
                         /\ job[c] = "none" =>
                              /\ w.state = COMPLETE => BodyFaults
                              /\ w.state = RUNNING /\ ~(w.fin /\ BodyFaults) =>
                                   "W" \in w.mask
                                   /\ IF w.fin THEN w.out > 0 ELSE w.writer
    BY DEF NothingParked
  <2>1. Place(c) = "select" /\ "select" \notin PumpSites
    BY DEF Place, At, PumpSites
  <2>2. ~BodyFaults => "upload" \notin Faults
    BY DEF BodyFaults
  <2> DEFINE w == conn[c]
  <2>3. ParkInv(w, "select", job[c]) /\ Tidy(w, "select", job[c])
    BY <2>1
  <2> HIDE DEF w, Inv
  <2>4. w.open
    BY DEF w
  <2>5. /\ w.state = BEGIN => "R" \in w.mask /\ ParseWaits(w)
        /\ w.state = CONTENT => "R" \in w.mask /\ w.rx = << >>
        /\ w.state # READY
        /\ w.state = RUNNING /\ ~w.fin /\ job[c] = "none" =>
             w.writer /\ "W" \in w.mask
    BY <2>1, <2>3, <2>4 DEF ParkInv
  <2>6. ~BodyFaults =>
          /\ job[c] = "none" => w.state # COMPLETE
          /\ w.fin /\ w.state = RUNNING => "W" \in w.mask /\ w.out > 0
    BY <2>1, <2>2, <2>3, <2>4, StatesDiffer DEF Tidy, EndInv, Ends
  <2>7. QED BY <2>5, <2>6 DEF w
<1> HIDE DEF Inv
<1>4. QED BY <1>1, <1>2, <1>3, PTL DEF Spec

(***************************************************************************)
(* The server and the client agree where a request ends.  What is in rxbuf *)
(* and on its way, in this order, is what a client may send after          *)
(* rxRemaining pieces of body are still owed, and leads to what it may     *)
(* send next.  A consumer that stops the pump at the last piece of a body  *)
(* ("put") is left out: it leaves the connection reading a body of which   *)
(* nothing is to come, and the next header is taken for it.                *)
(***************************************************************************)

\* What CanSend allows after a, and what it owes then.
Allowed(a, p) ==
  CASE p = "data"             -> a > 0
    [] p \in {"frag", "huge"} -> a = 0
    [] OTHER                  -> a \in {0, -1}

Then(a, p) ==
  CASE p = "data" -> a - 1
    [] p = "frag" -> -1
    [] p = "huge" -> -2
    [] p = "post" -> PostLen
    [] OTHER      -> 0

\* The pieces s lead from a to e, by the amounts o owed in between.
Leads(o, s, a, e) ==
  /\ o \in [0 .. Len(s) -> Owed]
  /\ o[0] = a /\ o[Len(s)] = e
  /\ \A i \in 1 .. Len(s) : Allowed(o[i - 1], s[i]) /\ o[i] = Then(o[i - 1], s[i])

Legal(s, a, e) == \E o : Leads(o, s, a, e)

\* The client's side.
LEMMA SentOwes ==
  ASSUME NEW w \in WebsType, NEW p \in Pieces, CanSend(w, p)
  PROVE  /\ Allowed(w.owe, p) /\ Sent(w, p).owe = Then(w.owe, p)
         /\ Then(w.owe, p) \in Owed /\ ~w.rst
<1>1. Allowed(w.owe, p) /\ ~w.rst
  BY DEF CanSend, Allowed
<1>2. w.owe \in Owed
  BY DEF WebsType
<1>3. Then(w.owe, p) \in Owed
  BY <1>1, <1>2, CoreAssumption DEF Allowed, Then, Owed, Pieces, Headers
<1> DEFINE n == Append(w.net, p)
           x == Then(w.owe, p)
<1>4. Sent(w, p) = [w EXCEPT !.net = n, !.owe = x]
  BY DEF Sent, Then
<1> HIDE DEF n, x
<1>5. Sent(w, p).owe = x
  BY <1>4 DEF WebsType
<1>6. QED BY <1>1, <1>3, <1>5 DEF x

\* Nothing.
LEMMA LegalNil == ASSUME NEW a \in Owed PROVE Legal(<< >>, a, a)
<1> DEFINE o == [i \in 0 .. 0 |-> a]
<1>1. Len(<< >>) = 0
  OBVIOUS
<1>2. o \in [0 .. 0 -> Owed] /\ o[0] = a
  OBVIOUS
<1> HIDE DEF o
<1>3. Leads(o, << >>, a, a)
  BY <1>1, <1>2 DEF Leads
<1>4. QED BY <1>3 DEF Legal

\* One more piece.
LEMMA LegalAppend ==
  ASSUME NEW s \in Seq(Pieces), NEW a, NEW e, NEW p \in Pieces,
         Legal(s, a, e), Allowed(e, p), Then(e, p) \in Owed
  PROVE  Legal(Append(s, p), a, Then(e, p))
<1> DEFINE n == Len(s)
           z == Then(e, p)
           u == Append(s, p)
<1>1. PICK o : Leads(o, s, a, e)
  BY DEF Legal
<1> DEFINE q == [i \in 0 .. n + 1 |-> IF i = n + 1 THEN z ELSE o[i]]
<1>2. /\ n \in Nat /\ Len(u) = n + 1 /\ u[n + 1] = p
      /\ \A i \in 1 .. n : u[i] = s[i]
  OBVIOUS
<1>3. /\ o \in [0 .. n -> Owed] /\ o[0] = a /\ o[n] = e
      /\ \A i \in 1 .. n : Allowed(o[i - 1], s[i]) /\ o[i] = Then(o[i - 1], s[i])
  BY <1>1 DEF Leads
<1>4. z \in Owed
  OBVIOUS
<1>5. Allowed(e, p)
  OBVIOUS
<1>6. z = Then(e, p)
  OBVIOUS
<1> HIDE DEF n, z, u
<1>7. q \in [0 .. n + 1 -> Owed] /\ q[0] = a /\ q[n + 1] = z
      /\ \A i \in 0 .. n : q[i] = o[i]
  BY <1>2, <1>3, <1>4
<1> HIDE DEF q
<1>8. ASSUME NEW i \in 1 .. n + 1
      PROVE  Allowed(q[i - 1], u[i]) /\ q[i] = Then(q[i - 1], u[i])
  <2>1. CASE i \in 1 .. n
    <3>1. i - 1 \in 0 .. n /\ i \in 0 .. n
      BY <1>2, <2>1
    <3>2. q[i - 1] = o[i - 1] /\ q[i] = o[i] /\ u[i] = s[i]
      BY <1>2, <1>7, <2>1, <3>1
    <3>3. QED BY <1>3, <2>1, <3>2
  <2>2. CASE i = n + 1
    <3>1. i - 1 = n /\ n \in 0 .. n
      BY <1>2, <2>2
    <3>2. q[i - 1] = e /\ q[i] = z /\ u[i] = p
      BY <1>2, <1>3, <1>7, <2>2, <3>1
    <3>3. QED BY <1>5, <1>6, <3>2
  <2>3. QED BY <1>2, <2>1, <2>2
<1>9. Leads(q, u, a, z)
  BY <1>2, <1>7, <1>8 DEF Leads
<1>10. QED BY <1>9 DEF Legal, u, z

\* Without what is still on its way.
LEMMA LegalPrefix ==
  ASSUME NEW r \in Seq(Pieces), NEW t \in Seq(Pieces), NEW a, NEW e,
         Legal(r \o t, a, e)
  PROVE  \E f \in Owed : Legal(r, a, f)
<1> DEFINE n == Len(r)
           m == Len(t)
           s == r \o t
<1>1. PICK o : Leads(o, s, a, e)
  BY DEF Legal
<1> DEFINE q == [i \in 0 .. n |-> o[i]]
<1>2. /\ n \in Nat /\ m \in Nat /\ Len(s) = n + m
      /\ \A i \in 1 .. n : s[i] = r[i]
  OBVIOUS
<1> HIDE DEF s, m
<1>3. /\ o \in [0 .. n + m -> Owed] /\ o[0] = a
      /\ \A i \in 1 .. n : Allowed(o[i - 1], s[i]) /\ o[i] = Then(o[i - 1], s[i])
  BY <1>1, <1>2 DEF Leads
<1>4. 0 .. n \subseteq 0 .. n + m /\ 0 \in 0 .. n /\ n \in 0 .. n
  BY <1>2
<1>5. q \in [0 .. n -> Owed] /\ q[0] = a /\ q[n] \in Owed
      /\ \A i \in 0 .. n : q[i] = o[i]
  BY <1>3, <1>4
<1>6. \A i \in 1 .. n : i \in 0 .. n /\ i - 1 \in 0 .. n
  BY <1>2
<1> HIDE DEF q
<1>7. \A i \in 1 .. n : Allowed(q[i - 1], r[i]) /\ q[i] = Then(q[i - 1], r[i])
  BY <1>2, <1>3, <1>5, <1>6
<1>8. Leads(q, r, a, q[n])
  BY <1>5, <1>7 DEF Leads
<1>9. QED BY <1>5, <1>8 DEF Legal

\* Without its first piece.
LEMMA LegalTail ==
  ASSUME NEW s \in Seq(Pieces), NEW a, NEW e, Legal(s, a, e), s # << >>
  PROVE  Allowed(a, Head(s)) /\ Legal(Tail(s), Then(a, Head(s)), e)
<1> DEFINE n == Len(s) - 1
           u == Tail(s)
           b == Then(a, Head(s))
<1>1. PICK o : Leads(o, s, a, e)
  BY DEF Legal
<1> DEFINE q == [i \in 0 .. n |-> o[i + 1]]
<1>2. /\ n \in Nat /\ Len(s) = n + 1 /\ Len(u) = n /\ Head(s) = s[1]
      /\ \A i \in 1 .. n : u[i] = s[i + 1]
  OBVIOUS
<1>3. b = Then(a, s[1])
  BY <1>2
<1> HIDE DEF n, u, b
<1>4. /\ o \in [0 .. n + 1 -> Owed] /\ o[0] = a /\ o[n + 1] = e
      /\ \A i \in 1 .. n + 1 :
           Allowed(o[i - 1], s[i]) /\ o[i] = Then(o[i - 1], s[i])
  BY <1>1, <1>2 DEF Leads
<1>5. 1 \in 1 .. n + 1 /\ 1 - 1 = 0
  BY <1>2
<1>6. Allowed(a, s[1]) /\ o[1] = b
  BY <1>3, <1>4, <1>5
<1>7. /\ q \in [0 .. n -> Owed] /\ q[0] = o[1] /\ q[n] = e
      /\ \A i \in 0 .. n : q[i] = o[i + 1]
  BY <1>2, <1>4
<1> HIDE DEF q
<1>8. ASSUME NEW i \in 1 .. n
      PROVE  Allowed(q[i - 1], u[i]) /\ q[i] = Then(q[i - 1], u[i])
  <2>1. /\ i - 1 \in 0 .. n /\ i \in 0 .. n /\ i + 1 \in 1 .. n + 1
        /\ (i - 1) + 1 = (i + 1) - 1
    BY <1>2
  <2>2. q[i - 1] = o[(i + 1) - 1] /\ q[i] = o[i + 1] /\ u[i] = s[i + 1]
    BY <1>2, <1>7, <2>1
  <2>3. QED BY <1>4, <2>1, <2>2
<1>9. Leads(q, u, b, e)
  BY <1>2, <1>6, <1>7, <1>8 DEF Leads
<1>10. QED BY <1>2, <1>6, <1>9 DEF Legal, u, b

\* The least of a set of numbers.
LEMMA SmallestOf ==
  ASSUME NEW T \in SUBSET Nat, T # {}
  PROVE  \E x \in T : \A y \in T : x <= y
<1>1. PICK x \in T : \A y \in T : ~(<<y, x>> \in OpToRel(<, Nat))
  BY NatLessThanWellFounded, WFMin
<1>2. \A y \in T : ~(y < x)
  BY <1>1, Zenon DEF OpToRel
<1>3. QED BY <1>2

\* Without n pieces of body, of a that are owed.
LEMMA LegalBody ==
  ASSUME NEW s \in Seq(Pieces), NEW a \in Nat, NEW e, Legal(s, a, e),
         NEW n \in Nat, n <= a, n <= Len(s)
  PROVE  Legal(SubSeq(s, n + 1, Len(s)), a - n, e)
<1> DEFINE m == Len(s)
           u == SubSeq(s, n + 1, m)
<1>1. PICK o : Leads(o, s, a, e)
  BY DEF Legal
<1>2. m \in Nat /\ n <= m
  OBVIOUS
<1>3. Len(u) = m - n /\ \A i \in 1 .. m - n : u[i] = s[n + i]
  OBVIOUS
<1> HIDE DEF m, u
<1>4. /\ o \in [0 .. m -> Owed] /\ o[0] = a /\ o[m] = e
      /\ \A i \in 1 .. m : Allowed(o[i - 1], s[i]) /\ o[i] = Then(o[i - 1], s[i])
  BY <1>1 DEF Leads, m
<1>5. \A i \in 0 .. n : o[i] = a - i
  <2> DEFINE Off(i) == i <= n /\ o[i] # a - i
             S == {i \in Nat : Off(i)}
  <2>1a. S \in SUBSET Nat
    OBVIOUS
  <2> SUFFICES ASSUME S # {} PROVE FALSE
    BY <1>2
  <2>1. PICK i \in S : \A k \in S : i <= k
    BY <2>1a, SmallestOf
  <2>2. i \in Nat /\ i # 0 /\ i <= n
    BY <1>4, <2>1
  <2>3. i - 1 \in Nat /\ i - 1 <= n /\ i \in 1 .. m
    BY <1>2, <2>2
  <2>4. o[i - 1] = a - (i - 1)
    BY <2>1, <2>2, <2>3
  <2>5. o[i - 1] > 0
    BY <2>2, <2>4
  <2>6. Allowed(o[i - 1], s[i]) /\ o[i] = Then(o[i - 1], s[i])
    BY <1>4, <2>3
  <2>7. s[i] = "data"
    BY <2>5, <2>6 DEF Allowed
  <2>8. o[i] = o[i - 1] - 1
    BY <2>6, <2>7 DEF Then
  <2>9. o[i] = a - i
    BY <2>2, <2>4, <2>8
  <2>10. QED BY <2>1, <2>9
<1> DEFINE q == [i \in 0 .. m - n |-> o[n + i]]
<1>6. m - n \in Nat /\ n \in 0 .. n /\ \A i \in 0 .. m - n : n + i \in 0 .. m
  BY <1>2
<1>7. /\ q \in [0 .. m - n -> Owed] /\ q[0] = o[n] /\ q[m - n] = e
      /\ \A i \in 0 .. m - n : q[i] = o[n + i]
  BY <1>2, <1>4, <1>6
<1> HIDE DEF q
<1>8. q[0] = a - n
  BY <1>5, <1>6, <1>7
<1>9. ASSUME NEW i \in 1 .. m - n
      PROVE  Allowed(q[i - 1], u[i]) /\ q[i] = Then(q[i - 1], u[i])
  <2>1. /\ i - 1 \in 0 .. m - n /\ i \in 0 .. m - n /\ n + i \in 1 .. m
        /\ n + (i - 1) = (n + i) - 1
    BY <1>2
  <2>2. q[i - 1] = o[(n + i) - 1] /\ q[i] = o[n + i] /\ u[i] = s[n + i]
    BY <1>3, <1>7, <2>1
  <2>3. QED BY <1>4, <2>1, <2>2
<1>10. Leads(q, u, a - n, e)
  BY <1>3, <1>7, <1>8, <1>9 DEF Leads
<1>11. QED BY <1>10 DEF Legal, u, m

\* Two sequences of the same elements.
LEMMA SameSeq ==
  ASSUME NEW S, NEW s \in Seq(S), NEW t \in Seq(S), Len(s) = Len(t),
         \A i \in 1 .. Len(s) : s[i] = t[i]
  PROVE  s = t
OBVIOUS

LEMMA CatIs ==
  ASSUME NEW S, NEW s \in Seq(S), NEW t \in Seq(S)
  PROVE  /\ s \o t \in Seq(S) /\ Len(s \o t) = Len(s) + Len(t)
         /\ \A i \in 1 .. Len(s) + Len(t) :
              (s \o t)[i] = IF i <= Len(s) THEN s[i] ELSE t[i - Len(s)]
<1>1. s \o t \in Seq(S) /\ Len(s \o t) = Len(s) + Len(t)
  OBVIOUS
<1>2. ASSUME NEW i \in 1 .. Len(s) + Len(t)
      PROVE  (s \o t)[i] = IF i <= Len(s) THEN s[i] ELSE t[i - Len(s)]
  OBVIOUS
<1>3. QED BY <1>1, <1>2

\* Two buffers that follow one another, the first cut short or the second
\* made longer.
LEMMA CatForms ==
  ASSUME NEW r \in Seq(Pieces), NEW t \in Seq(Pieces)
  PROVE  /\ r \o t \in Seq(Pieces)
         /\ (r \o t) \o << >> = r \o t
         /\ \A p \in Pieces : r \o Append(t, p) = Append(r \o t, p)
         /\ r # << >> => /\ r \o t # << >> /\ Head(r \o t) = Head(r)
                        /\ Tail(r) \in Seq(Pieces)
                        /\ Tail(r) \o t = Tail(r \o t)
         /\ \A n \in 0 .. Len(r) :
              SubSeq(r, n + 1, Len(r)) \o t = SubSeq(r \o t, n + 1, Len(r \o t))
<1>1. r \o t \in Seq(Pieces) /\ (r \o t) \o << >> = r \o t
  OBVIOUS
<1>2. ASSUME NEW p \in Pieces
      PROVE  r \o Append(t, p) = Append(r \o t, p)
  <2> DEFINE x == r \o Append(t, p)
             y == Append(r \o t, p)
  <2>1. x \in Seq(Pieces) /\ y \in Seq(Pieces) /\ Len(x) = Len(y)
    OBVIOUS
  <2>2. \A i \in 1 .. Len(x) : x[i] = y[i]
    OBVIOUS
  <2> HIDE DEF x, y
  <2>3. x = y
    BY <2>1, <2>2, SameSeq
  <2>4. QED BY <2>3 DEF x, y
<1>3. ASSUME r # << >>
      PROVE  /\ r \o t # << >> /\ Head(r \o t) = Head(r)
             /\ Tail(r) \in Seq(Pieces)
             /\ Tail(r) \o t = Tail(r \o t)
  <2>1. r \o t # << >> /\ Head(r \o t) = Head(r) /\ Tail(r) \in Seq(Pieces)
    BY <1>3
  <2> DEFINE x == Tail(r) \o t
             y == Tail(r \o t)
  <2>2. x \in Seq(Pieces) /\ y \in Seq(Pieces) /\ Len(x) = Len(y)
    BY <1>3, <2>1
  <2>3. \A i \in 1 .. Len(x) : x[i] = y[i]
    BY <1>3, <2>1
  <2> HIDE DEF x, y
  <2>4. x = y
    BY <2>2, <2>3, SameSeq
  <2>5. QED BY <2>1, <2>4 DEF x, y
<1>4. ASSUME NEW n \in 0 .. Len(r)
      PROVE  SubSeq(r, n + 1, Len(r)) \o t = SubSeq(r \o t, n + 1, Len(r \o t))
  <2> DEFINE a == SubSeq(r, n + 1, Len(r))
             x == a \o t
             y == SubSeq(r \o t, n + 1, Len(r \o t))
  <2>1. /\ a \in Seq(Pieces) /\ Len(a) = Len(r) - n
        /\ \A i \in 1 .. Len(r) - n : a[i] = r[n + i]
    OBVIOUS
  <2>2. /\ y \in Seq(Pieces) /\ Len(y) = Len(r) + Len(t) - n
        /\ \A i \in 1 .. Len(r) + Len(t) - n :
             y[i] = IF n + i <= Len(r) THEN r[n + i] ELSE t[n + i - Len(r)]
    OBVIOUS
  <2> HIDE DEF a, y
  <2>3. /\ x \in Seq(Pieces) /\ Len(x) = Len(r) + Len(t) - n
        /\ \A i \in 1 .. Len(r) + Len(t) - n :
             x[i] = IF i <= Len(r) - n THEN a[i] ELSE t[i - (Len(r) - n)]
    <3>1. Len(a) \in Nat /\ Len(t) \in Nat
      BY <2>1
    <3>2. /\ x \in Seq(Pieces) /\ Len(x) = Len(a) + Len(t)
          /\ \A i \in 1 .. Len(a) + Len(t) :
               x[i] = IF i <= Len(a) THEN a[i] ELSE t[i - Len(a)]
      BY <2>1, CatIs
    <3> HIDE DEF x
    <3>3. Len(a) + Len(t) = Len(r) + Len(t) - n
      BY <2>1, <3>1
    <3>4. QED BY <2>1, <3>2, <3>3
  <2> HIDE DEF x
  <2>4. \A i \in 1 .. Len(x) : x[i] = y[i]
    BY <2>1, <2>2, <2>3
  <2>5. x = y
    BY <2>2, <2>3, <2>4, SameSeq
  <2>6. QED BY <2>5 DEF x, y, a
<1>5. QED BY <1>1, <1>2, <1>3, <1>4

\* The first piece in rxbuf, and what it leaves.
LEMMA LegalCat ==
  ASSUME NEW r \in Seq(Pieces), NEW t \in Seq(Pieces), r # << >>,
         NEW a, NEW e, Legal(r \o t, a, e)
  PROVE  /\ Head(r) \in Pieces /\ Tail(r) \in Seq(Pieces)
         /\ Allowed(a, Head(r))
         /\ Legal(Tail(r) \o t, Then(a, Head(r)), e)
<1> DEFINE s == r \o t
<1>1. /\ s \in Seq(Pieces) /\ s # << >> /\ Head(s) = Head(r)
      /\ Tail(r) \in Seq(Pieces) /\ Tail(r) \o t = Tail(s)
  BY CatForms
<1>2. Head(r) \in Pieces /\ Legal(s, a, e)
  OBVIOUS
<1> HIDE DEF s
<1>3. Allowed(a, Head(s)) /\ Legal(Tail(s), Then(a, Head(s)), e)
  BY <1>1, <1>2, LegalTail
<1>4. QED BY <1>1, <1>2, <1>3

\* A complete header at the start of rxbuf, and what it leaves.
LEMMA HeaderDrops ==
  ASSUME NEW r \in Seq(Pieces), NEW t \in Seq(Pieces), NEW e,
         HeaderReady(r), Legal(r \o t, 0, e)
  PROVE  /\ HeaderOf(r) \in Headers /\ AfterHeader(r) \in Seq(Pieces)
         /\ Legal(AfterHeader(r) \o t,
                  IF HeaderOf(r) = "post" THEN PostLen ELSE 0, e)
<1>1. r # << >>
  BY DEF HeaderReady
<1> DEFINE u == Tail(r)
           p == Head(r)
<1>2. /\ Allowed(0, p) /\ Legal(u \o t, Then(0, p), e)
      /\ u \in Seq(Pieces) /\ p \in Pieces
  BY <1>1, LegalCat
<1>3. CASE p # "frag"
  <2>1. p \in Headers /\ HeaderOf(r) = p /\ AfterHeader(r) = u
    BY <1>3 DEF HeaderReady, HeaderOf, AfterHeader
  <2> HIDE DEF p, u
  <2>2. Then(0, p) = IF p = "post" THEN PostLen ELSE 0
    BY <2>1 DEF Then, Headers
  <2>3. QED BY <1>2, <2>1, <2>2
<1>4. CASE p = "frag"
  <2> DEFINE q == Head(u)
  <2>1. Len(r) > 1
    BY <1>4 DEF HeaderReady, Headers
  <2>2. u # << >> /\ q = r[2]
    <3>1. u \in Seq(Pieces) /\ Len(u) = Len(r) - 1 /\ Len(r) \in Nat
      BY <1>1
    <3>2. u[1] = r[2]
      BY <1>1, <2>1
    <3> HIDE DEF u
    <3>3. u # << >>
      BY <2>1, <3>1
    <3>4. QED BY <3>1, <3>2, <3>3
  <2>3. HeaderOf(r) = q /\ AfterHeader(r) = Tail(u)
    BY <1>4, <2>2 DEF HeaderOf, AfterHeader
  <2>4. Then(0, p) = -1
    BY <1>4 DEF Then
  <2> HIDE DEF u, p
  <2>5. /\ Allowed(-1, q) /\ Legal(Tail(u) \o t, Then(-1, q), e)
        /\ Tail(u) \in Seq(Pieces) /\ q \in Pieces
    <3>1. Legal(u \o t, -1, e) /\ u \in Seq(Pieces)
      BY <1>2, <2>4
    <3>2. QED BY <2>2, <3>1, LegalCat
  <2> HIDE DEF q
  <2>6. q \in Headers
    BY <2>5 DEF Allowed, Pieces
  <2>7. Then(-1, q) = IF q = "post" THEN PostLen ELSE 0
    BY <2>6 DEF Then, Headers
  <2>8. QED BY <2>3, <2>5, <2>6, <2>7
<1>5. QED BY <1>3, <1>4

\* The stream of a connection, and the state it is read in.
BoundInv(w) ==
  /\ ~w.open => w.rx = << >> /\ w.net = << >>
  /\ w.open => /\ w.state = BEGIN => w.rem = 0
               /\ w.state = CONTENT => w.rem # 0
               /\ \E e \in Owed : /\ Legal(w.rx \o w.net, w.rem, e)
                                  /\ w.rst \/ e = w.owe

\* What leaves the stream alone.
LEMMA SameBound ==
  ASSUME NEW w, NEW v, BoundInv(w), v.open = w.open, v.rx = w.rx,
         v.net = w.net, v.owe = w.owe, v.rst = w.rst, v.rem = w.rem,
         v.state = w.state \/ v.state \notin {BEGIN, CONTENT}
  PROVE  BoundInv(v)
BY DEF BoundInv

LEMMA KeptBound ==
  ASSUME NEW w, NEW v, BoundInv(w), Kept(v, w)
  PROVE  BoundInv(v)
<1>1. v.state = w.state \/ v.state \notin {BEGIN, CONTENT}
  BY StatesDiffer DEF Kept
<1>2. /\ v.open = w.open /\ v.rx = w.rx /\ v.net = w.net /\ v.owe = w.owe
      /\ v.rst = w.rst /\ v.rem = w.rem
  BY DEF Kept
<1>3. QED BY <1>1, <1>2, SameBound

\* A connection without a socket.
LEMMA ClosedBound ==
  ASSUME NEW v, ~v.open, v.rx = << >>, v.net = << >>
  PROVE  BoundInv(v)
BY DEF BoundInv

LEMMA FreshBound ==
  ASSUME NEW w \in WebsType, NEW v \in {NoWebs, Accepting(w), AcceptFailed(w)}
  PROVE  BoundInv(v)
<1>1. v.rx = << >> /\ v.net = << >> /\ v.state = BEGIN /\ v.rem = 0 /\ v.owe = 0
  BY FreshMakes
<1>2. 0 \in Owed /\ << >> \o << >> = << >>
  BY CoreAssumption DEF Owed
<1>3. Legal(<< >>, 0, 0)
  BY <1>2, LegalNil
<1> HIDE DEF Legal
<1>4. QED BY <1>1, <1>2, <1>3, StatesDiffer DEF BoundInv

\* parseIncoming.
LEMMA ParseBound ==
  ASSUME NEW w \in WebsType, w.state = BEGIN, ~ParseWaits(w), BoundInv(w)
  PROVE  BoundInv(ParseIncoming(w))
<1> DEFINE a == AfterHeader(w.rx)
           kind == HeaderOf(w.rx)
           v == ParseIncoming(w)
<1>1. CASE ~HeaderReady(w.rx)
  BY <1>1, ErrorKept, KeptBound DEF ParseIncoming
<1>2. CASE ~w.open
  BY <1>2, <1>1 DEF BoundInv, HeaderReady
<1>3. CASE HeaderReady(w.rx) /\ w.open
  <2>1. w.rx \in Seq(Pieces) /\ w.net \in Seq(Pieces)
    BY DEF WebsType
  <2>2. PICK e \in Owed : Legal(w.rx \o w.net, 0, e) /\ (w.rst \/ e = w.owe)
    BY <1>3 DEF BoundInv
  <2>3. /\ kind \in Headers /\ a \in Seq(Pieces)
        /\ Legal(a \o w.net, IF kind = "post" THEN PostLen ELSE 0, e)
    BY <1>3, <2>1, <2>2, HeaderDrops
  <2>4. CASE kind = "bad"
    <3> DEFINE x == [w EXCEPT !.rx = a]
               g == Error(x, TRUE)
    <3>1. v = IF g.state = COMPLETE THEN g ELSE [g EXCEPT !.state = READY]
      BY <1>3, <2>4, StatesDiffer DEF ParseIncoming, Refused
    <3> HIDE DEF a
    <3>2. /\ x \in WebsType /\ x.rx = a /\ x.net = w.net /\ x.rem = w.rem
          /\ x.owe = w.owe /\ x.rst = w.rst /\ x.open = w.open
      BY <2>3 DEF WebsType
    <3> HIDE DEF x
    <3>3. Kept(g, x)
      BY <3>2, ErrorKept
    <3> HIDE DEF g, v, kind
    <3>4. g \in WebsType
      BY <3>3 DEF Kept
    <3>5. /\ v.rx = g.rx /\ v.net = g.net /\ v.rem = g.rem /\ v.owe = g.owe
          /\ v.rst = g.rst /\ v.open = g.open
          /\ v.state \in {READY, COMPLETE}
      BY <3>1, <3>4 DEF WebsType
    <3>6. /\ v.rx = a /\ v.net = w.net /\ v.rem = w.rem /\ v.owe = w.owe
          /\ v.rst = w.rst /\ v.open = w.open
      BY <3>2, <3>3, <3>5 DEF Kept
    <3>7. w.rem = 0
      BY <1>3 DEF BoundInv
    <3>8. Legal(a \o w.net, 0, e)
      BY <2>3, <2>4
    <3>9. QED BY <1>3, <2>2, <3>5, <3>6, <3>7, <3>8, StatesDiffer
              DEF BoundInv, v
  <2>5. CASE kind # "bad"
    <3> DEFINE kk == kind # "close"
               rm == IF kind = "post" THEN PostLen ELSE 0
               st == IF kind = "post" THEN CONTENT ELSE READY
    <3>1. v = [w EXCEPT !.rx = a, !.ka = kk, !.rem = rm, !.state = st]
      BY <1>3, <2>5 DEF ParseIncoming, Accepted
    <3>2. st = CONTENT => rm # 0
      BY CoreAssumption, StatesDiffer
    <3>3. st \in {CONTENT, READY}
      OBVIOUS
    <3>4. Legal(a \o w.net, rm, e)
      BY <2>3
    <3> HIDE DEF kk, rm, st, a, v
    <3>5. /\ v.rx = a /\ v.net = w.net /\ v.rem = rm /\ v.owe = w.owe
          /\ v.rst = w.rst /\ v.open = w.open /\ v.state = st
      BY <3>1 DEF WebsType
    <3>6. QED BY <1>3, <2>2, <3>2, <3>3, <3>4, <3>5, StatesDiffer
              DEF BoundInv, v
  <2>6. QED BY <2>4, <2>5
<1>4. QED BY <1>1, <1>2, <1>3

LEMMA CatLen ==
  ASSUME NEW S, NEW r \in Seq(S), NEW t \in Seq(S), NEW n \in 0 .. Len(r)
  PROVE  r \o t \in Seq(S) /\ n <= Len(r \o t)
<1>1. Len(r \o t) = Len(r) + Len(t) /\ Len(r) \in Nat /\ Len(t) \in Nat
  OBVIOUS
<1>2. r \o t \in Seq(S)
  OBVIOUS
<1>3. QED BY <1>1, <1>2

\* filterChunkData.
LEMMA BodyBound ==
  ASSUME NEW w \in WebsType, w.open, BoundInv(w)
  PROVE  LET b == TakeBody(w)
         IN /\ b \in WebsType /\ b.open /\ b.rst = w.rst
            /\ \E e \in Owed : /\ Legal(b.rx \o b.net, b.rem, e)
                               /\ b.rst \/ e = b.owe
<1> DEFINE n == Least(w.rem, Len(w.rx))
           x == SubSeq(w.rx, n + 1, Len(w.rx))
           m == w.rem - n
           b == TakeBody(w)
<1>1. /\ w.rx \in Seq(Pieces) /\ w.net \in Seq(Pieces) /\ w.rem \in Nat
      /\ Len(w.rx) \in Nat
  BY CoreAssumption DEF WebsType, Body
<1>2. n \in Nat /\ n <= w.rem /\ n \in 0 .. Len(w.rx)
  BY <1>1 DEF Least
<1>3. b = [w EXCEPT !.rx = x, !.rem = m] /\ b \in WebsType
  BY TakeBodyType DEF TakeBody
<1> HIDE DEF n
<1>4. PICK e \in Owed : Legal(w.rx \o w.net, w.rem, e) /\ (w.rst \/ e = w.owe)
  BY DEF BoundInv
<1> DEFINE s == w.rx \o w.net
<1>5. s \in Seq(Pieces) /\ n <= Len(s)
  BY <1>1, <1>2, CatLen
<1>6. x \o w.net = SubSeq(s, n + 1, Len(s))
  BY <1>1, <1>2, CatForms
<1> HIDE DEF s
<1>7. Legal(SubSeq(s, n + 1, Len(s)), m, e)
  BY <1>1, <1>2, <1>4, <1>5, LegalBody DEF s
<1> HIDE DEF x, m, b
<1>8. /\ b.rx = x /\ b.net = w.net /\ b.rem = m /\ b.owe = w.owe
      /\ b.rst = w.rst /\ b.open = w.open
  BY <1>3 DEF WebsType
<1>9. Legal(b.rx \o b.net, b.rem, e)
  BY <1>6, <1>7, <1>8
<1>10. QED BY <1>3, <1>4, <1>8, <1>9 DEF b

\* A turn of websPump.
LEMMA BoundPump ==
  ASSUME "put" \notin Faults, NEW w \in WebsType, NEW s, NEW j, NEW v, NEW t,
         NEW k, MovePump(w, s, j, v, t, k), BoundInv(w)
  PROVE  BoundInv(v)
<1>1. CASE v = w
  BY <1>1
<1>2. CASE MoveBEGIN(w, s, j, v, t, k)
  BY <1>1, <1>2, ParseBound DEF MoveBEGIN
<1>3. CASE MoveCONTENT(w, s, j, v, t, k)
  <2> DEFINE b == TakeBody(w)
  <2>1. b \in WebsType /\ b.state = CONTENT
    BY <1>3, TakeBodyMakes DEF MoveCONTENT
  <2> HIDE DEF b
  <2>2. Kept(b, b) /\ Kept(Error(b, FALSE), b)
    BY <2>1, KeptRefl, ErrorKept
  <2>3. \/ w.rx = << >> /\ v = w
        \/ w.rx # << >> /\ \E u \in {b, Error(b, FALSE)} : v = AtEnd(u)
    BY <1>3 DEF MoveCONTENT, b
  <2>4. CASE w.rx # << >> /\ \E u \in {b, Error(b, FALSE)} : v = AtEnd(u)
    <3>1. w.open
      BY <2>4 DEF BoundInv
    <3>2. PICK e \in Owed : Legal(b.rx \o b.net, b.rem, e) /\ (b.rst \/ e = b.owe)
      BY <3>1, BodyBound DEF b
    <3>3. PICK u : Kept(u, b) /\ v = AtEnd(u)
      BY <2>2, <2>4
    <3>4. /\ u \in WebsType /\ u.rx = b.rx /\ u.net = b.net /\ u.rem = b.rem
          /\ u.owe = b.owe /\ u.rst = b.rst /\ u.state \in {CONTENT, COMPLETE}
      BY <2>1, <3>3 DEF Kept
    <3>5. /\ v.rx = u.rx /\ v.net = u.net /\ v.rem = u.rem
          /\ v.owe = u.owe /\ v.rst = u.rst
          /\ v.state = IF u.rem = 0 THEN READY ELSE u.state
      BY <3>3, <3>4 DEF AtEnd, BodyDone, WebsType
    <3>6. v.state # BEGIN /\ (v.state = CONTENT => v.rem # 0)
      BY <3>4, <3>5, StatesDiffer
    <3>7. Legal(v.rx \o v.net, v.rem, e) /\ (v.rst \/ e = v.owe)
      BY <3>2, <3>4, <3>5
    <3>8. v.open
      <4>1. b.open
        BY <3>1, BodyBound DEF b
      <4>2. u.open
        BY <3>3, <4>1 DEF Kept
      <4>3. QED BY <3>3, <3>4, <4>2 DEF AtEnd, BodyDone, WebsType
    <3>9. QED BY <3>6, <3>7, <3>8 DEF BoundInv
  <2>5. QED BY <1>1, <2>3, <2>4
<1>4. CASE MoveREADY(w, s, j, v, t, k)
  <2> DEFINE r == Running(w)
             q == Writing(r)
  <2>1. r \in WebsType /\ BoundInv(r)
    <3>1. /\ r.state = RUNNING /\ r.open = w.open /\ r.rx = w.rx
          /\ r.net = w.net /\ r.owe = w.owe /\ r.rst = w.rst /\ r.rem = w.rem
      BY DEF Running, WebsType
    <3>2. r \in WebsType
      BY RunningType
    <3> HIDE DEF r
    <3>3. QED BY <3>1, <3>2, StatesDiffer, SameBound
  <2>2. BoundInv(q)
    <3> HIDE DEF r
    <3>1. /\ q.state = r.state /\ q.open = r.open /\ q.rx = r.rx
          /\ q.net = r.net /\ q.owe = r.owe /\ q.rst = r.rst /\ q.rem = r.rem
      BY <2>1 DEF Writing, WebsType
    <3> HIDE DEF q
    <3>2. QED BY <2>1, <3>1, SameBound
  <2>3. \A n \in Nat : Kept(ServeAction(w, n), r)
    BY ServeActionKept
  <2>4. \A n \in Document : Kept(ServeFile(w, n), r) \/ Kept(ServeFile(w, n), q)
    BY ServeFileKept
  <2>5. Kept(Error(w, FALSE), w)
    BY ErrorKept
  <2>6. Kept(v, w) \/ Kept(v, r) \/ Kept(v, q) \/ v = r
    BY <1>4, <2>3, <2>4, <2>5 DEF MoveREADY
  <2> HIDE DEF r, q
  <2>7. QED BY <2>1, <2>2, <2>6, KeptBound
<1>5. CASE MoveCOMPLETE(w, s, j, v, t, k)
  <2>1. CASE w.ka /\ w.rem = 0
    <3>1. v = ReuseConn(w)
      BY <1>5, <2>1 DEF MoveCOMPLETE, Complete
    <3>2. /\ v.open = w.open /\ v.rx = w.rx /\ v.net = w.net /\ v.owe = w.owe
          /\ v.rst = w.rst /\ v.state = BEGIN /\ v.rem = 0
      BY <3>1, ReuseConnMakes
    <3>3. QED BY <2>1, <3>2, StatesDiffer DEF BoundInv
  <2>2. CASE ~(w.ka /\ w.rem = 0)
    <3>1. v = CloseConn(w)
      BY <1>5, <2>2 DEF MoveCOMPLETE, Complete
    <3>2. QED BY <3>1, CloseConnMakes, ClosedBound
  <2>3. QED BY <2>1, <2>2
<1>6. QED BY <1>1, <1>2, <1>3, <1>4, <1>5 DEF MovePump

\* readEvent, writeEvent and socketEvent around it.
LEMMA BoundEvent ==
  ASSUME NEW w \in WebsType, NEW s, NEW j, NEW v, NEW t, NEW k,
         MoveEvent(w, s, j, v, t, k), BoundInv(w)
  PROVE  BoundInv(v)
<1>1. CASE v = w
  BY <1>1
<1>2. CASE Kept(v, w)
  BY <1>2, KeptBound
<1>3. CASE v = ReadSocket(w)
  <2> DEFINE all == w.rx \o w.net
             nil == << >>
  <2>1. CASE ReadsEof(w)
    <3>1. v = [w EXCEPT !.age = 0, !.sockEof = TRUE]
      BY <1>3, <2>1 DEF ReadSocket
    <3>2. /\ v.open = w.open /\ v.rx = w.rx /\ v.net = w.net /\ v.owe = w.owe
          /\ v.rst = w.rst /\ v.rem = w.rem /\ v.state = w.state
      BY <3>1 DEF WebsType
    <3>3. QED BY <3>2, SameBound
  <2>2. CASE ~ReadsEof(w)
    <3>1. v = [w EXCEPT !.age = 0, !.rx = all, !.net = nil]
      BY <1>3, <2>2 DEF ReadSocket
    <3>2. w.rx \in Seq(Pieces) /\ w.net \in Seq(Pieces)
      BY DEF WebsType
    <3>3. all \o nil = all
      BY <3>2, CatForms
    <3> HIDE DEF all, nil
    <3>4. /\ v.open = w.open /\ v.rx = all /\ v.net = nil /\ v.owe = w.owe
          /\ v.rst = w.rst /\ v.rem = w.rem /\ v.state = w.state
      BY <3>1 DEF WebsType
    <3>5. v.rx \o v.net = w.rx \o w.net
      BY <3>3, <3>4 DEF all
    <3>6. CASE w.open
      BY <3>4, <3>5, <3>6 DEF BoundInv
    <3>7. CASE ~w.open
      <4>1. w.rx = << >> /\ w.net = << >> /\ << >> \o << >> = << >>
        BY <3>7 DEF BoundInv
      <4>2. QED BY <3>4, <3>5, <3>7, <4>1 DEF BoundInv, all, nil
    <3>8. QED BY <3>6, <3>7
  <2>3. QED BY <2>1, <2>2
<1>4. CASE v = CloseConn(w)
  BY <1>4, CloseConnMakes, ClosedBound
<1>5. CASE \E m : v = [w EXCEPT !.mask = m]
  <2>1. /\ v.open = w.open /\ v.rx = w.rx /\ v.net = w.net /\ v.owe = w.owe
        /\ v.rst = w.rst /\ v.rem = w.rem /\ v.state = w.state
    BY <1>5 DEF WebsType
  <2>2. QED BY <2>1, SameBound
<1>6. CASE v = NoWebs
  BY <1>6, FreshBound
<1>7. Kept(Error(w, FALSE), w) /\ Kept(WriteEvent(w), w)
  BY ErrorKept, WriteEventKept
<1>8. QED BY <1>1, <1>2, <1>3, <1>4, <1>5, <1>6, <1>7 DEF MoveEvent

\* The client and the clock.
LEMMA BoundOutside ==
  ASSUME NEW w \in WebsType, NEW s, NEW j, NEW v, NEW t, NEW k,
         MoveOutside(w, s, j, v, t, k), BoundInv(w)
  PROVE  BoundInv(v)
<1>1. /\ v.state = w.state /\ v.rx = w.rx /\ v.rem = w.rem /\ v.open = w.open
  BY OutsideMakes
<1>2. w.rx \in Seq(Pieces) /\ w.net \in Seq(Pieces) /\ Sends \subseteq Pieces
  BY ServerAssumption DEF WebsType
<1>3. CASE v.net = w.net /\ v.owe = w.owe /\ v.rst = w.rst
  BY <1>1, <1>3, SameBound
<1>4. ASSUME NEW p \in Sends, CanSend(w, p), v.net = Append(w.net, p),
             v.owe = Sent(w, p).owe, v.rst = w.rst
      PROVE  BoundInv(v)
  <2>1. p \in Pieces /\ w.open
    BY <1>2, <1>4 DEF CanSend
  <2>2. /\ Allowed(w.owe, p) /\ v.owe = Then(w.owe, p)
        /\ Then(w.owe, p) \in Owed /\ ~w.rst
    BY <1>4, <2>1, SentOwes
  <2>3. Legal(w.rx \o w.net, w.rem, w.owe)
    BY <2>1, <2>2 DEF BoundInv
  <2>4. w.rx \o w.net \in Seq(Pieces)
        /\ w.rx \o Append(w.net, p) = Append(w.rx \o w.net, p)
    BY <1>2, <2>1, CatForms
  <2>5. Legal(Append(w.rx \o w.net, p), w.rem, Then(w.owe, p))
    BY <2>1, <2>2, <2>3, <2>4, LegalAppend
  <2>6. Legal(v.rx \o v.net, v.rem, v.owe)
    BY <1>1, <1>4, <2>2, <2>4, <2>5
  <2>7. QED BY <1>1, <2>1, <2>2, <2>6 DEF BoundInv
<1>5. ASSUME v.net = << >>, v.rst
      PROVE  BoundInv(v)
  <2>1. CASE w.open
    <3>1. PICK e : Legal(w.rx \o w.net, w.rem, e)
      BY <2>1 DEF BoundInv
    <3>2. PICK f \in Owed : Legal(w.rx, w.rem, f)
      BY <1>2, <3>1, LegalPrefix
    <3>3. w.rx \o << >> = w.rx
      BY <1>2
    <3>4. v.rx \o v.net = w.rx
      BY <1>1, <1>5, <3>3
    <3>5. QED BY <1>1, <1>5, <2>1, <3>2, <3>4 DEF BoundInv
  <2>2. CASE ~w.open
    BY <1>1, <1>5, <2>2 DEF BoundInv
  <2>3. QED BY <2>1, <2>2
<1>6. \/ \E p \in Sends : /\ CanSend(w, p) /\ v.net = Append(w.net, p)
                         /\ v.owe = Sent(w, p).owe /\ v.rst = w.rst
      \/ v.net = w.net /\ v.owe = w.owe /\ v.rst = w.rst
      \/ v.net = << >> /\ v.rst
  BY ClientMakes
<1>7. QED BY <1>3, <1>4, <1>5, <1>6

\* A move keeps it.
LEMMA BoundMove ==
  ASSUME "put" \notin Faults, NEW w, NEW s, NEW j, NEW v, NEW t, NEW k,
         Fit(w, s, j), Move(w, s, j, v, t, k), BoundInv(w)
  PROVE  BoundInv(v)
<1>1. w \in WebsType
  BY DEF Fit
<1>2. CASE v = w
  BY <1>2
<1>3. CASE MoveBegin(w, s, j, v, t, k)
  <2>1. CASE v \in {NoWebs, Accepting(w), AcceptFailed(w)}
    BY <1>1, <2>1, FreshBound
  <2>2. CASE \/ v = [w EXCEPT !.resv = FALSE]
             \/ \E x : v = [w EXCEPT !.timer = x]
    <3>1. /\ v.open = w.open /\ v.rx = w.rx /\ v.net = w.net /\ v.owe = w.owe
          /\ v.rst = w.rst /\ v.rem = w.rem /\ v.state = w.state
      BY <1>1, <2>2, BeginMakes
    <3>2. QED BY <3>1, SameBound
  <2>3. QED BY <1>3, <2>1, <2>2 DEF MoveBegin
<1>4. CASE MovePoll(w, s, j, v, t, k)
  <2>1. v = w \/ Kept(v, w)
    BY <1>4, PollMakes
  <2>2. QED BY <2>1, KeptBound
<1>5. CASE MoveEvent(w, s, j, v, t, k)
  BY <1>1, <1>5, BoundEvent
<1>6. CASE MovePump(w, s, j, v, t, k)
  BY <1>1, <1>6, BoundPump
<1>7. CASE MoveOutside(w, s, j, v, t, k)
  BY <1>1, <1>7, BoundOutside
<1>8. QED BY <1>2, <1>3, <1>4, <1>5, <1>6, <1>7 DEF Move

\* What the parser of headers and the reader of a body meet first.
LEMMA BoundMeets ==
  ASSUME NEW w \in WebsType, BoundInv(w), w.rx # << >>
  PROVE  /\ w.state = BEGIN => Head(w.rx) # "data"
         /\ w.state = CONTENT => Head(w.rx) = "data"
<1>1. w.open /\ w.rx \in Seq(Pieces) /\ w.net \in Seq(Pieces)
  BY DEF BoundInv, WebsType
<1>2. PICK e : Legal(w.rx \o w.net, w.rem, e)
  BY <1>1 DEF BoundInv
<1>3. Allowed(w.rem, Head(w.rx))
  BY <1>1, <1>2, LegalCat
<1>4. w.rem \in Nat
  BY CoreAssumption DEF WebsType, Body
<1>5. /\ w.state = BEGIN => w.rem = 0
      /\ w.state = CONTENT => w.rem # 0
  BY <1>1 DEF BoundInv
<1>6. QED BY <1>3, <1>4, <1>5 DEF Allowed

\* The parser of headers never meets bytes of a body, and the reader of a
\* body never meets a header (rxRemaining, parseHeaders, filterChunkData,
\* reuseConn), however the client's stream is cut, for every length of body,
\* keep-alive or not, when no consumer of a body stops the pump.
THEOREM BoundaryKept ==
  ASSUME "put" \notin Faults
  PROVE  Spec => []HeaderBoundary
<1> DEFINE Inv == LifeInv /\ \A c \in Conns : BoundInv(conn[c])
<1>1. Init => Inv
  <2>1. Init => \A c \in Conns : conn[c] = NoWebs
    BY DEF Init
  <2>2. BoundInv(NoWebs)
    BY FreshBound, FreeType
  <2>3. QED BY <2>1, <2>2, LifeInit
<1>2. Inv /\ [Next]_vars => Inv'
  <2> SUFFICES ASSUME Inv, [Next]_vars PROVE Inv'
    OBVIOUS
  <2>1. LifeInv'
    BY LifeStep
  <2>2. ASSUME NEW c \in Conns
        PROVE  BoundInv(conn'[c])
    <3>1. /\ Fit(conn[c], Place(c), job[c])
          /\ Move(conn[c], Place(c), job[c], conn'[c], (Place(c))', job'[c])
      BY StepMove
    <3>2. BoundInv(conn[c])
      OBVIOUS
    <3>3. QED BY <3>1, <3>2, BoundMove
  <2>3. QED BY <2>1, <2>2 DEF BoundInv
<1>3. Inv => HeaderBoundary
  <2> SUFFICES ASSUME Inv, NEW c \in Conns, conn[c].rx # << >>
               PROVE  /\ conn[c].state = BEGIN => Head(conn[c].rx) # "data"
                      /\ conn[c].state = CONTENT => Head(conn[c].rx) = "data"
    BY DEF HeaderBoundary
  <2>1. conn[c] \in WebsType /\ BoundInv(conn[c])
    BY DEF LifeInv, TypeOK
  <2>2. QED BY <2>1, BoundMeets
<1> HIDE DEF Inv
<1>4. QED BY <1>1, <1>2, <1>3, PTL DEF Spec
=============================================================================
