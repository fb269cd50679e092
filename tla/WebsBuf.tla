------------------------------ MODULE WebsBuf -------------------------------
(***************************************************************************)
(* Ring buffers of the run-time (bufLen .. bufCompact, runtime.c) that may *)
(* not grow: output and chunkbuf of a connection, whose buflen is already  *)
(* above their maxsize.  A buffer is the offsets of servp and endp; which  *)
(* bytes lie between them follows from the order of the calls as long as   *)
(* they are read where they lie (see Straight).                            *)
(***************************************************************************)
EXTENDS Integers

CONSTANT BufSize        \* buflen of the buffers

ASSUME BufSizeAssumption == BufSize \in Nat \ {0, 1}

\* Buffers.
Buf == [servp : 0 .. BufSize - 1, endp : 0 .. BufSize - 1]

\* bufFlush, and a new buffer.
EmptyBuf == [servp |-> 0, endp |-> 0]

Lesser(a, b) == IF a <= b THEN a ELSE b
Wrapped(offset) == IF offset >= BufSize THEN offset - BufSize ELSE offset

bufLen(b) ==
  IF b.servp > b.endp THEN BufSize + b.endp - b.servp ELSE b.endp - b.servp

\* What the buffer can still take.
Space(b) == BufSize - bufLen(b) - 1

\* What it can take in one piece.
bufRoom(b) == Lesser(BufSize - b.endp, Space(b))

\* The number of bytes bufPutBlk adds: its loop goes on behind the wrap.
Fits(b, size) == Lesser(size, Space(b))
bufPutBlk(b, size) == [b EXCEPT !.endp = Wrapped(@ + Fits(b, size))]

bufAdjustStart(b, size) == [b EXCEPT !.servp = Wrapped(@ + size)]

\* Mutated bufCompact: leaves data where they are.
bufCompactEmpty(b) == IF b.servp = b.endp THEN EmptyBuf ELSE b

\* The data move to the front, unless they wrap.
bufCompact(b) ==
  IF b.servp <= b.endp THEN [servp |-> 0, endp |-> b.endp - b.servp] ELSE b

\* size bytes from servp on lie in one piece.
Straight(b, size) == size <= bufLen(b) /\ b.servp + size <= BufSize
=============================================================================
