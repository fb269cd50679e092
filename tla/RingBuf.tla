------------------------------- MODULE RingBuf ------------------------------
(***************************************************************************)
(* The ring buffers of the run-time (bufCreate .. getBinBlockSize,         *)
(* runtime.c) with the bytes in their memory.  Memory is a function from   *)
(* offsets, so that a copy over its end has no meaning; the routines never *)
(* look at a byte, so callers put bytes that are numbered (see Stream).    *)
(***************************************************************************)
EXTENDS Integers, Sequences

CONSTANTS
  WEBS_SHIFT,    \* memory comes in blocks of this power of two
  LIMIT_BUFFER,  \* BIT_GOAHEAD_LIMIT_BUFFER
  MemoryMax,     \* walloc has no block longer than this
  Labels,        \* number of different bytes
  InitSizes, MaxSizes, Rooms, Lengths   \* the arguments of callers

VARIABLES
  ring,   \* the buffer
  io      \* the last call: its name, bytes in and out, and its result

Junk == -1   \* memory nobody has written
Nul == -2
\* bp->buf == 0
NoRing == [mem |-> << >>, buflen |-> 0, increment |-> 0, maxsize |-> 0, servp |-> 0, endp |-> 0]

Result(call, in, out, rc) == io' = [call |-> call, in |-> in, out |-> out, rc |-> rc]
NoCall == [call |-> "free", in |-> << >>, out |-> << >>, rc |-> 0]

Min2(a, b) == IF a <= b THEN a ELSE b

\* What the constants are.  The loops below are functions, which have values
\* for numbers only.
RingAssumption ==
  /\ 2 ^ WEBS_SHIFT \in Nat \ {0}
  /\ LIMIT_BUFFER \in Nat /\ MemoryMax \in Nat /\ Labels \in Nat \ {0}
  /\ InitSizes \subseteq Int /\ MaxSizes \subseteq Int
  /\ Rooms \subseteq Nat /\ Lengths \subseteq Nat

\* A block, doubled for each bit of what size has in blocks.
getBinBlockSize(size) ==
  LET blocks == size \div 2 ^ WEBS_SHIFT
      doubled[n \in 0 .. blocks] ==
        IF n = 0 THEN 2 ^ WEBS_SHIFT ELSE 2 * doubled[n \div 2]
  IN doubled[blocks]

\* Memory of n bytes that begins with the bytes s.
Memory(n, s) == [o \in 0 .. n - 1 |-> IF o < Len(s) THEN s[o + 1] ELSE Junk]

bufCreate(initSize, maxsize) ==
  LET size == IF initSize <= 0 THEN LIMIT_BUFFER ELSE initSize
      increment == getBinBlockSize(size)
  IN [mem |-> Memory(increment, <<Nul>>), buflen |-> increment, increment |-> increment,
      maxsize |-> IF maxsize <= 0 THEN size ELSE maxsize, servp |-> 0, endp |-> 0]

bufLen(b) == IF b.servp > b.endp THEN b.buflen + b.endp - b.servp ELSE b.endp - b.servp
bufRoom(b) == Min2(b.buflen - b.endp, b.buflen - bufLen(b) - 1)
bufGetBlkMax(b) == Min2(b.buflen - b.servp, bufLen(b))
AtWrap(b, offset) == IF offset >= b.buflen THEN 0 ELSE offset

\* What is between servp and endp.
Contents(b) ==
  IF b = NoRing THEN << >>
  ELSE [k \in 1 .. bufLen(b) |-> b.mem[(b.servp + k - 1) % b.buflen]]

\* bufGrow for room bytes, or for as many as the buffer is to grow by: whether
\* it may, whether there is memory, and what it is to grow by the next time.
\* That is doubled before there is memory; beyond MemoryMax it tells nothing.
MayGrow(b, room) == room = 0 => b.buflen < b.maxsize
Increase(b, room) == IF room = 0 THEN b.increment ELSE room
CanGrow(b, room) == MayGrow(b, room) /\ b.buflen + Increase(b, room) <= MemoryMax
NextIncrement(b, room) ==
  IF room = 0 /\ MayGrow(b, room) /\ b.increment <= MemoryMax
  THEN getBinBlockSize(2 * b.increment) ELSE b.increment

\* Mutated bufGrow: the memory is copied as it lies, as realloc would.
bufGrowInPlace(b, room) ==
  IF ~ CanGrow(b, room) THEN [b EXCEPT !.increment = NextIncrement(b, room)]
  ELSE [b EXCEPT !.buflen = @ + Increase(b, room), !.increment = NextIncrement(b, room),
                 !.mem = [o \in 0 .. b.buflen + Increase(b, room) - 1 |->
                            IF o < b.buflen THEN @[o] ELSE Junk]]

bufGrow(b, room) ==
  IF ~ CanGrow(b, room) THEN [b EXCEPT !.increment = NextIncrement(b, room)]
  ELSE [b EXCEPT !.buflen = @ + Increase(b, room), !.increment = NextIncrement(b, room),
                 !.mem = Memory(b.buflen + Increase(b, room), Contents(b)),
                 !.servp = 0, !.endp = bufLen(b)]

\* The buffer with room for a byte, if it may have it.
Roomy(b) == IF bufRoom(b) < 1 THEN bufGrow(b, 0) ELSE b

bufPutc(b, c) ==
  [b EXCEPT !.mem[b.endp] = c, !.endp = AtWrap(b, @ + 1)]
bufInsertc(b, c) ==
  LET p == (IF b.servp <= 0 THEN b.buflen ELSE b.servp) - 1
  IN [b EXCEPT !.mem[p] = c, !.servp = p]

\* The bytes s are copied in a straight line behind endp.
Copy(b, s) ==
  [b EXCEPT !.mem = [o \in DOMAIN @ |-> IF o \in b.endp .. b.endp + Len(s) - 1
                                        THEN s[o - b.endp + 1] ELSE @[o]]]
\* bufAdjustEnd, and the same at the end of bufPutBlk's round.
bufAdjustEnd(b, size) == [b EXCEPT !.endp = (@ + size) % b.buflen]
bufAdjustStart(b, size) == [b EXCEPT !.servp = (@ + size) % b.buflen]

\* The loop of bufPutBlk: each round copies one piece; a round that has no room
\* and makes none is the last.
PutRound(p, s) ==
  LET r == Roomy(p.b)
      this == Min2(bufRoom(r), Len(s) - p.added)
  IN IF p.full \/ p.added = Len(s) THEN p
     ELSE [b |-> bufAdjustEnd(Copy(r, SubSeq(s, p.added + 1, p.added + this)), this),
           added |-> p.added + this, full |-> this = 0]
bufPutBlk(b, s) ==
  LET rounds[n \in 0 .. Len(s)] ==
        IF n = 0 THEN [b |-> b, added |-> 0, full |-> FALSE] ELSE PutRound(rounds[n - 1], s)
  IN rounds[Len(s)]

\* The loop of bufGetBlk: data lie in two pieces at most.
GetRound(p, size) ==
  LET this == Min2(bufGetBlkMax(p.b), size - Len(p.got))
  IN [b |-> [p.b EXCEPT !.servp = AtWrap(p.b, @ + this)],
      got |-> p.got \o [k \in 1 .. this |-> p.b.mem[p.b.servp + k - 1]]]
bufGetBlk(b, size) ==
  LET rounds[n \in 0 .. 2] ==
        IF n = 0 THEN [b |-> b, got |-> << >>] ELSE GetRound(rounds[n - 1], size)
  IN rounds[2]

bufAddNull(b) == IF bufRoom(b) < 1 THEN bufGrow(b, 0) ELSE [b EXCEPT !.mem[b.endp] = Nul]
bufFlush(b) == [b EXCEPT !.servp = 0, !.endp = 0, !.mem[0] = Nul]

\* Data that wrap, or that are at the front, stay.
bufCompact(b) ==
  IF bufLen(b) = 0 THEN bufFlush(b)
  ELSE IF b.servp < b.endp /\ b.servp > 0
  THEN LET t == bufAddNull(b)
           moved == [k \in 1 .. bufLen(b) + 1 |-> t.mem[t.servp + k - 1]]
       IN [t EXCEPT !.mem = [o \in DOMAIN @ |-> IF o < Len(moved) THEN moved[o + 1] ELSE @[o]],
                    !.servp = 0, !.endp = bufLen(b)]
  ELSE b
bufReset(b) == IF b.servp = b.endp /\ b.servp > 0 THEN bufFlush(b) ELSE b

----------------------------------------------------------------------------
(* Callers, which put bytes numbered in the order of the sequence. *)

Stream(n) ==
  LET c == Contents(ring)
      next == IF c = << >> THEN 0 ELSE c[Len(c)] + 1
  IN [k \in 1 .. n |-> (next + k - 1) % Labels]
Before == LET c == Contents(ring) IN IF c = << >> THEN 0 ELSE (c[1] + Labels - 1) % Labels

RingInit == ring = NoRing /\ io = NoCall

Create == \E n \in InitSizes, max \in MaxSizes :
  LET b == bufCreate(n, max)
  IN IF b.buflen <= MemoryMax THEN ring' = b /\ Result("create", << >>, << >>, 0)
     ELSE UNCHANGED ring /\ Result("create", << >>, << >>, -1)
Free == ring' = NoRing /\ io' = NoCall

Putc ==
  LET b == Roomy(ring)
      c == Stream(1)[1]
  IN IF bufRoom(b) < 1 THEN ring' = b /\ Result("put", <<c>>, << >>, 0)
     ELSE ring' = bufPutc(b, c) /\ Result("put", <<c>>, << >>, 1)
Insertc ==
  LET b == Roomy(ring)
  IN IF bufRoom(b) < 1 THEN ring' = b /\ Result("insert", <<Before>>, << >>, -1)
     ELSE ring' = bufInsertc(b, Before) /\ Result("insert", <<Before>>, << >>, 0)
PutBlk == \E n \in Lengths :
  LET p == bufPutBlk(ring, Stream(n))
  IN ring' = p.b /\ Result("put", Stream(n), << >>, p.added)
PutStr == \E n \in Lengths :
  LET p == bufPutBlk(ring, Stream(n))
  IN ring' = [p.b EXCEPT !.mem[p.b.endp] = Nul] /\ Result("putStr", Stream(n), << >>, p.added)

\* The caller copies into the room, or from the data, itself.
Fill == \E n \in Lengths :
  /\ n <= bufRoom(ring)
  /\ ring' = bufAdjustEnd(Copy(ring, Stream(n)), n) /\ Result("put", Stream(n), << >>, n)
Drain == \E n \in Lengths :
  /\ n <= bufGetBlkMax(ring)
  /\ ring' = bufAdjustStart(ring, n)
  /\ Result("get", << >>, [k \in 1 .. n |-> ring.mem[ring.servp + k - 1]], n)

\* bufGetc, which has -1 for no byte.
Getc ==
  IF ring.servp = ring.endp THEN UNCHANGED ring /\ Result("get", << >>, << >>, 0)
  ELSE /\ ring' = [ring EXCEPT !.servp = AtWrap(ring, @ + 1)]
       /\ Result("get", << >>, <<ring.mem[ring.servp]>>, 1)
GetBlk == \E n \in Lengths :
  /\ n < ring.buflen
  /\ LET p == bufGetBlk(ring, n) IN ring' = p.b /\ Result("get", << >>, p.got, Len(p.got))

AddNull == ring' = bufAddNull(ring) /\ Result("keep", << >>, << >>, 0)
Compact == ring' = bufCompact(ring) /\ Result("keep", << >>, << >>, 0)
Reset == ring' = bufReset(ring) /\ Result("keep", << >>, << >>, 0)
Flush == ring' = bufFlush(ring) /\ Result("flush", << >>, << >>, 0)
Grow == \E room \in Rooms :
  ring' = bufGrow(ring, room) /\ Result("keep", << >>, << >>, IF CanGrow(ring, room) THEN 1 ELSE 0)

RingNext ==
  \/ ring = NoRing /\ Create
  \/ /\ ring # NoRing
     /\ \/ Free \/ Putc \/ Insertc \/ PutBlk \/ PutStr \/ Fill \/ Drain \/ Getc \/ GetBlk
        \/ AddNull \/ Compact \/ Reset \/ Flush \/ Grow

----------------------------------------------------------------------------
Sequence == INSTANCE Fifo WITH q <- Contents(ring)

\* A string that was put is terminated behind its data.
Terminated == io.call = "putStr" => ring.mem[ring.endp] = Nul

\* A put is cut short only by a full buffer that may not grow.
ShortMeansFull ==
  io.call \in {"put", "putStr"} /\ io.rc < Len(io.in) =>
    bufLen(ring) = ring.buflen - 1 /\ ~ CanGrow(ring, 0)

\* What a later call can tell of a buffer: not what lies outside its data.
RingView == <<[ring EXCEPT !.mem = << >>], Contents(ring)>>
=============================================================================
