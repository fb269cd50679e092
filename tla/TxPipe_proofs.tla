---------------------------- MODULE TxPipe_proofs ---------------------------
(***************************************************************************)
(* Theorems about TxPipe: for every size of the buffers and every length   *)
(* of blocks, chunks are written whole, in order and in one piece.  The    *)
(* invariant says that both buffers always begin at their front, that a    *)
(* chunk which has begun fits, and that the trailer fits as long as it may *)
(* still come.                                                             *)
(***************************************************************************)
EXTENDS TxPipe, TLAPS

(***************************************************************************)
(* Buffers at their front.                                                 *)
(***************************************************************************)

Front(b) == b \in Buf /\ b.servp = 0

\* A buffer at its front has its data and its room in one piece each.
LEMMA FrontMeasure ==
  ASSUME NEW b, Front(b)
  PROVE  /\ b = [servp |-> 0, endp |-> b.endp]
         /\ b.endp \in 0 .. BufSize - 1
         /\ bufLen(b) = b.endp
         /\ Space(b) = BufSize - 1 - b.endp
         /\ bufRoom(b) = BufSize - 1 - b.endp
BY BufSizeAssumption DEF Front, Buf, bufLen, Space, bufRoom, Lesser

\* bufPutBlk adds what fits, and the buffer stays at its front.
LEMMA FrontPut ==
  ASSUME NEW b, Front(b), NEW n \in Nat
  PROVE  /\ Fits(b, n) = (IF n <= BufSize - 1 - b.endp THEN n ELSE BufSize - 1 - b.endp)
         /\ Front(bufPutBlk(b, n))
         /\ bufPutBlk(b, n).endp = b.endp + Fits(b, n)
<1> DEFINE f == Fits(b, n)
<1>1. f = IF n <= BufSize - 1 - b.endp THEN n ELSE BufSize - 1 - b.endp
  BY FrontMeasure DEF Fits, Lesser
<1>2. b.endp + f \in 0 .. BufSize - 1
  BY <1>1, FrontMeasure, BufSizeAssumption
<1>3. bufPutBlk(b, n) = [b EXCEPT !.endp = Wrapped(b.endp + f)]
  BY DEF bufPutBlk
<1> HIDE DEF f
<1>4. Wrapped(b.endp + f) = b.endp + f
  BY <1>2, BufSizeAssumption DEF Wrapped
<1>5. b = [servp |-> 0, endp |-> b.endp]
  BY FrontMeasure
<1>6. bufPutBlk(b, n) = [servp |-> 0, endp |-> b.endp + f]
  BY <1>3, <1>4, <1>5
<1>7. Front(bufPutBlk(b, n)) /\ bufPutBlk(b, n).endp = b.endp + f
  BY <1>2, <1>6, BufSizeAssumption DEF Front, Buf
<1> QED
  BY <1>1, <1>7 DEF f

\* Reading from the front and compacting keeps it there.
LEMMA FrontTake ==
  ASSUME NEW b, Front(b), NEW n \in 0 .. b.endp
  PROVE  /\ Front(bufCompact(bufAdjustStart(b, n)))
         /\ bufCompact(bufAdjustStart(b, n)).endp = b.endp - n
<1> DEFINE r == bufAdjustStart(b, n)
<1>1. /\ b = [servp |-> 0, endp |-> b.endp] /\ b.endp \in 0 .. BufSize - 1
  BY FrontMeasure
<1>2. Wrapped(0 + n) = n
  BY <1>1, BufSizeAssumption DEF Wrapped
<1>3. r = [servp |-> n, endp |-> b.endp]
  BY <1>1, <1>2 DEF bufAdjustStart
<1>4. bufCompact(r) = [servp |-> 0, endp |-> b.endp - n]
  BY <1>1, <1>3 DEF bufCompact
<1> QED
  BY <1>1, <1>4, BufSizeAssumption DEF Front, Buf

LEMMA FrontEmpty == Front(EmptyBuf) /\ EmptyBuf.endp = 0
BY BufSizeAssumption DEF Front, EmptyBuf, Buf

(***************************************************************************)
(* The invariant.                                                          *)
(***************************************************************************)

Fronts == Front(output) /\ Front(chunkbuf)

\* Room of output, when it is at its front.
Left == BufSize - 1 - output.endp

\* A chunk that has begun fits with its prefix, or without it once that is
\* written; its data are in chunkbuf.
ChunkFits ==
  /\ chunk.state = "header" =>
       /\ chunk.prefix = PREFIX /\ At("chunks") /\ flags.chunking
       /\ chunk.len <= Left - RESERVE - RESERVE /\ CHUNK_LOW < Left - RESERVE
  /\ chunk.state = "data" => chunk.len <= Left - RESERVE
  /\ chunk.state # "start" => chunk.len \in 1 .. chunkbuf.endp

\* As long as the response is chunked the trailer fits.
TrailerFits == flags.chunking => RESERVE <= Left

\* What the client has read, against what is left to write.
WireMatches ==
  /\ wire.at = "headers" =>
       /\ output.endp = 0 /\ At("handler") /\ ~flags.chunking
  /\ flags.chunking =>
       IF chunk.state = "data" THEN wire.at = "data" /\ wire.left = chunk.len
                               ELSE wire.at = "size" /\ wire.left = 0
  /\ ~flags.chunking =>
       /\ wire.at \in {"headers", "length", "end"}
       /\ chunk.state = "start" /\ chunkbuf.endp = 0
  /\ wire.at \in {"headers", "end"} => wire.left = 0
  /\ body.taken = wire.got + chunkbuf.endp

\* The calls of the thread: a handler writes until it ends the response.
Calls ==
  /\ flags.finalized => At("select") \/ pc.at \in {"chunks", "send"}
  /\ ~flags.finalized => pc.caller = "write" /\ ~At("select")
  /\ flags.finalized => pc.caller # "write"
  /\ ~flags.finalized /\ ~flags.chunking /\ ~At("handler") => pc.left <= wire.left
  /\ ~flags.finalized /\ pc.at \in {"fill", "chunks", "send"} => pc.left > 0

PipeInv ==
  TypeOK /\ Fronts /\ ChunkFits /\ TrailerFits /\ WireMatches /\ Calls

USE DEF At, Goto, CallFlush

LEMMA InvInit == Init => PipeInv
<1> SUFFICES ASSUME Init PROVE PipeInv
  OBVIOUS
<1>1. Fronts /\ output.endp = 0 /\ chunkbuf.endp = 0
  BY FrontEmpty DEF Init, Fronts
<1>2. TypeOK
  BY <1>1 DEF Init, TypeOK, Fronts, Front, ChunkType, FlagsType, PcType, WireType
<1> QED
  BY <1>1, <1>2 DEF Init, PipeInv, ChunkFits, TrailerFits, WireMatches, Calls

\* What the actions use: measures of both buffers, and the constants.
LEMMA Measures ==
  ASSUME PipeInv
  PROVE  /\ output.endp \in 0 .. BufSize - 1 /\ chunkbuf.endp \in 0 .. BufSize - 1
         /\ bufLen(output) = output.endp /\ bufLen(chunkbuf) = chunkbuf.endp
         /\ bufRoom(output) = Left /\ bufRoom(chunkbuf) = BufSize - 1 - chunkbuf.endp
         /\ ChunkRoom = Left - RESERVE
         /\ Left \in Nat /\ BufSize \in Nat
BY FrontMeasure, BufSizeAssumption
   DEF PipeInv, Fronts, Left, ChunkRoom

LEMMA TypeFields ==
  ASSUME TypeOK
  PROVE  /\ chunk = [state |-> chunk.state, len |-> chunk.len, prefix |-> chunk.prefix]
         /\ chunk.state \in {"start", "header", "data"}
         /\ chunk.len \in Nat /\ chunk.prefix \in Nat
         /\ pc = [at |-> pc.at, caller |-> pc.caller, left |-> pc.left]
         /\ pc.at \in {"handler", "write", "fill", "chunks", "send", "select"}
         /\ pc.caller \in {"write", "done", "event"} /\ pc.left \in Nat
         /\ wire = [at |-> wire.at, left |-> wire.left, got |-> wire.got]
         /\ wire.at \in {"headers", "length", "size", "prefix", "data", "end", "bad"}
         /\ wire.left \in Nat /\ wire.got \in Nat
         /\ flags = [chunking |-> flags.chunking, finalized |-> flags.finalized,
                     complete |-> flags.complete]
         /\ flags.chunking \in BOOLEAN /\ flags.finalized \in BOOLEAN
         /\ flags.complete \in BOOLEAN
         /\ body = [taken |-> body.taken, failed |-> body.failed]
         /\ body.taken \in Nat /\ body.failed \in BOOLEAN
         /\ interest \in BOOLEAN
BY DEF TypeOK, ChunkType, PcType, WireType, FlagsType

(***************************************************************************)
(* The invariant implies the properties.                                   *)
(***************************************************************************)

Safe == WellFormed /\ ReadInOnePiece /\ EndMeansAll /\ ChunksWhole

LEMMA InvSafe == PipeInv => Safe
<1> SUFFICES ASSUME PipeInv PROVE Safe
  OBVIOUS
<1> USE Measures, TypeFields
<1>1. WellFormed /\ wire.at # "prefix"
  BY DEF PipeInv, WireMatches, WellFormed
<1>2. ReadInOnePiece
  BY DEF PipeInv, Fronts, Front, ChunkFits, ReadInOnePiece, Straight
<1>3. EndMeansAll
  BY DEF PipeInv, WireMatches, EndMeansAll
<1>4. ChunksWhole
  BY <1>1 DEF PipeInv, ChunkFits, ChunksWhole
<1> QED
  BY <1>1, <1>2, <1>3, <1>4 DEF Safe

(***************************************************************************)
(* Each action keeps it.                                                   *)
(***************************************************************************)

\* Steps of the thread that change neither buffer.
LEMMA WriteBlockStep == PipeInv /\ WriteBlock => PipeInv'
<1> SUFFICES ASSUME PipeInv, WriteBlock PROVE PipeInv'
  OBVIOUS
<1> USE PipeAssumption, Measures, TypeFields
<1>1. PICK size \in Blocks : size <= MayWrite /\ pc' = [pc EXCEPT !.at = "write", !.left = size]
  BY DEF WriteBlock
<1>2. pc' = [at |-> "write", caller |-> pc.caller, left |-> size] /\ size \in Nat
  BY <1>1 DEF PipeInv
<1>3. ~flags.chunking => size <= wire.left
  BY <1>1 DEF MayWrite
<1>4. TypeOK'
  BY <1>2 DEF PipeInv, WriteBlock, TypeOK, PcType
<1>5. Calls'
  BY <1>2, <1>3 DEF PipeInv, WriteBlock, Calls
<1> QED
  BY <1>2, <1>4, <1>5
     DEF PipeInv, WriteBlock, Fronts, ChunkFits, TrailerFits, WireMatches, Left

LEMMA WriteTestStep == PipeInv /\ WriteTest => PipeInv'
<1> SUFFICES ASSUME PipeInv, WriteTest PROVE PipeInv'
  OBVIOUS
<1> USE PipeAssumption, Measures, TypeFields
<1>1. \/ pc' = [at |-> "handler", caller |-> pc.caller, left |-> pc.left]
      \/ pc.left > 0 /\ pc' = [at |-> "chunks", caller |-> "write", left |-> pc.left]
      \/ pc.left > 0 /\ pc' = [at |-> "fill", caller |-> pc.caller, left |-> pc.left]
  <2>1. /\ pc = [at |-> pc.at, caller |-> pc.caller, left |-> pc.left]
        /\ pc.left \in Nat
    BY DEF PipeInv
  <2>2. CASE pc.left = 0 \/ flags.complete
    BY <2>1, <2>2 DEF WriteTest
  <2>3. CASE ~(pc.left = 0 \/ flags.complete)
    <3>1. pc.left > 0
      BY <2>1, <2>3
    <3>2. \/ pc' = [pc EXCEPT !.at = "chunks", !.caller = "write"]
          \/ pc' = [pc EXCEPT !.at = "fill"]
      BY <2>3 DEF WriteTest
    <3> QED
      BY <2>1, <3>1, <3>2
  <2> QED
    BY <2>2, <2>3
<1>2. TypeOK'
  BY <1>1 DEF PipeInv, WriteTest, TypeOK, PcType
<1>3. Calls'
  BY <1>1 DEF PipeInv, WriteTest, Calls
<1> QED
  BY <1>1, <1>2, <1>3
     DEF PipeInv, WriteTest, Fronts, ChunkFits, TrailerFits, WireMatches, Left

LEMMA WriteFullStep == PipeInv /\ WriteFull => PipeInv'
<1> SUFFICES ASSUME PipeInv, WriteFull PROVE PipeInv'
  OBVIOUS
<1> USE PipeAssumption, Measures, TypeFields
<1>1. pc' = [at |-> "handler", caller |-> pc.caller, left |-> pc.left]
  BY DEF PipeInv, WriteFull
<1>2. TypeOK'
  BY <1>1 DEF PipeInv, WriteFull, TypeOK, PcType
<1>3. Calls'
  BY <1>1 DEF PipeInv, WriteFull, Calls
<1> QED
  BY <1>1, <1>2, <1>3
     DEF PipeInv, WriteFull, Fronts, ChunkFits, TrailerFits, WireMatches, Left

LEMMA DoneStep == PipeInv /\ Done => PipeInv'
<1> SUFFICES ASSUME PipeInv, Done PROVE PipeInv'
  OBVIOUS
<1> USE PipeAssumption, Measures, TypeFields
<1>1. pc' = [at |-> "chunks", caller |-> "done", left |-> pc.left]
  BY DEF PipeInv, Done
<1>2. flags' = [chunking |-> flags.chunking, finalized |-> TRUE, complete |-> flags.complete]
  BY DEF PipeInv, Done
<1>3. TypeOK'
  BY <1>1, <1>2 DEF PipeInv, Done, TypeOK, PcType, FlagsType
<1>4. Calls'
  BY <1>1, <1>2 DEF PipeInv, Done, Calls
<1> QED
  BY <1>1, <1>2, <1>3, <1>4
     DEF PipeInv, Done, Fronts, ChunkFits, TrailerFits, WireMatches, Left

LEMMA WriteEventStep == PipeInv /\ WriteEvent => PipeInv'
<1> SUFFICES ASSUME PipeInv, WriteEvent PROVE PipeInv'
  OBVIOUS
<1> USE PipeAssumption, Measures, TypeFields
<1>1. pc' = [at |-> "chunks", caller |-> "event", left |-> pc.left]
  BY DEF PipeInv, WriteEvent
<1>2. TypeOK'
  BY <1>1 DEF PipeInv, WriteEvent, TypeOK, PcType
<1>3. Calls'
  BY <1>1 DEF PipeInv, WriteEvent, Calls
<1> QED
  BY <1>1, <1>2, <1>3
     DEF PipeInv, WriteEvent, Fronts, ChunkFits, TrailerFits, WireMatches, Left

LEMMA ChunkWaitsStep == PipeInv /\ ChunkWaits => PipeInv'
<1> SUFFICES ASSUME PipeInv, ChunkWaits PROVE PipeInv'
  OBVIOUS
<1> USE PipeAssumption, Measures, TypeFields
<1>1. pc' = [at |-> "send", caller |-> pc.caller, left |-> pc.left] /\ At("chunks")
  BY DEF PipeInv, ChunkWaits, Chunking
<1>2. chunk.state # "header"
  BY DEF PipeInv, ChunkWaits, ChunkFits
<1>3. TypeOK'
  BY <1>1 DEF PipeInv, ChunkWaits, TypeOK, PcType
<1>4. Calls'
  BY <1>1 DEF PipeInv, ChunkWaits, Calls
<1> QED
  BY <1>1, <1>2, <1>3, <1>4
     DEF PipeInv, ChunkWaits, Fronts, ChunkFits, TrailerFits, WireMatches, Left

LEMMA ChunkStartStep == PipeInv /\ ChunkStart => PipeInv'
<1> SUFFICES ASSUME PipeInv, ChunkStart PROVE PipeInv'
  OBVIOUS
<1> USE PipeAssumption, Measures, TypeFields
<1> DEFINE n == ChunkSize
<1>1. /\ chunk' = [state |-> "header", len |-> n, prefix |-> PREFIX]
      /\ At("chunks") /\ flags.chunking /\ chunkbuf.endp > 0 /\ chunk.state = "start"
      /\ CHUNK_LOW < Left - RESERVE
  BY DEF PipeInv, ChunkStart, Chunking
<1>2. n \in 1 .. chunkbuf.endp /\ n <= Left - RESERVE - RESERVE
  BY <1>1 DEF PipeInv, ChunkSize, Lesser
<1> HIDE DEF n
<1>3. TypeOK'
  BY <1>1, <1>2 DEF PipeInv, ChunkStart, TypeOK, ChunkType
<1>4. ChunkFits'
  BY <1>1, <1>2 DEF ChunkStart, ChunkFits, Left
<1>5. WireMatches'
  BY <1>1 DEF PipeInv, ChunkStart, WireMatches
<1> QED
  BY <1>3, <1>4, <1>5 DEF PipeInv, ChunkStart, Fronts, TrailerFits, Calls, Left

LEMMA ChunkHeaderStep == PipeInv /\ ChunkHeader => PipeInv'
<1> SUFFICES ASSUME PipeInv, ChunkHeader PROVE PipeInv'
  OBVIOUS
<1> USE PipeAssumption, Measures, TypeFields
<1>1. /\ At("chunks") /\ flags.chunking /\ chunk.state = "header"
      /\ chunk.prefix = PREFIX /\ CHUNK_LOW < Left - RESERVE
      /\ chunk.len <= Left - RESERVE - RESERVE /\ chunk.len \in 1 .. chunkbuf.endp
      /\ wire.at = "size"
  BY DEF PipeInv, ChunkHeader, Chunking, ChunkFits, WireMatches
<1>2. Fits(output, PREFIX) = PREFIX /\ PREFIX \in Nat /\ PREFIX - PREFIX = 0
  <2>1. PREFIX \in Nat /\ PREFIX - PREFIX = 0
    OBVIOUS
  <2>2. PREFIX <= BufSize - 1 - output.endp
    BY <1>1 DEF PipeInv, Left
  <2>3. Front(output)
    BY DEF PipeInv, Fronts
  <2> QED
    BY <2>1, <2>2, <2>3, FrontPut
<1>3. Front(output') /\ output'.endp = output.endp + PREFIX
  <2>1. output' = bufPutBlk(output, PREFIX)
    BY <1>1 DEF ChunkHeader
  <2>2. Front(output)
    BY DEF PipeInv, Fronts
  <2>3. /\ Front(bufPutBlk(output, PREFIX))
        /\ bufPutBlk(output, PREFIX).endp = output.endp + Fits(output, PREFIX)
    BY <1>2, <2>2, FrontPut
  <2> QED
    BY <1>2, <2>1, <2>3
<1>4. chunk' = [state |-> "data", len |-> chunk.len, prefix |-> 0]
  <2>1. chunk' = [chunk EXCEPT !.state = "data", !.prefix = PREFIX - PREFIX]
    BY <1>1, <1>2 DEF ChunkHeader
  <2>2. chunk = [state |-> chunk.state, len |-> chunk.len, prefix |-> chunk.prefix]
    BY DEF PipeInv
  <2>3. chunk' = [chunk EXCEPT !.state = "data", !.prefix = 0]
    BY <1>2, <2>1
  <2> QED
    BY <2>2, <2>3
<1>5. wire' = [at |-> "data", left |-> chunk.len, got |-> wire.got]
  <2>1. wire' = ReadPrefix(TRUE, chunk.len)
    BY <1>1, <1>2 DEF ChunkHeader
  <2> QED
    BY <1>1, <2>1 DEF PipeInv, ReadPrefix
<1>6. UNCHANGED <<chunkbuf, flags, interest, body, pc>>
  BY <1>1, <1>2 DEF ChunkHeader
<1>7. Left' = Left - PREFIX
  BY <1>3 DEF Left
<1>8. TypeOK'
  BY <1>3, <1>4, <1>5, <1>6 DEF PipeInv, TypeOK, Front, ChunkType, WireType
<1>9. ChunkFits' /\ TrailerFits'
  BY <1>1, <1>4, <1>6, <1>7 DEF PipeInv, ChunkFits, TrailerFits
<1>10. WireMatches'
  BY <1>1, <1>4, <1>5, <1>6 DEF PipeInv, WireMatches
<1>11. Calls'
  BY <1>1, <1>5, <1>6 DEF PipeInv, Calls
<1> QED
  BY <1>3, <1>6, <1>8, <1>9, <1>10, <1>11 DEF PipeInv, Fronts

LEMMA ChunkDataStep == PipeInv /\ ChunkData => PipeInv'
<1> SUFFICES ASSUME PipeInv, ChunkData PROVE PipeInv'
  OBVIOUS
<1> USE PipeAssumption, Measures, TypeFields
<1> DEFINE n == chunk.len
<1>1. /\ At("chunks") /\ flags.chunking /\ chunk.state = "data"
      /\ n <= Left - RESERVE /\ n \in 1 .. chunkbuf.endp
      /\ wire.at = "data" /\ wire.left = n
  BY DEF PipeInv, ChunkData, Chunking, ChunkFits, WireMatches
<1>2. Lesser(ChunkRoom, chunk.len) = n
  BY <1>1 DEF PipeInv, Lesser
<1>3. /\ output' = bufPutBlk(output, n)
      /\ chunkbuf' = bufCompact(bufAdjustStart(chunkbuf, n))
      /\ chunk' = [chunk EXCEPT !.state = "start", !.len = chunk.len - n]
      /\ wire' = ReadData(n)
      /\ UNCHANGED <<flags, interest, pc, body>>
  BY <1>2 DEF ChunkData
<1>a. n \in Nat /\ n - n = 0 /\ n <= BufSize - 1 - output.endp
  BY <1>1 DEF PipeInv, Left
<1>b. chunk = [state |-> chunk.state, len |-> chunk.len, prefix |-> chunk.prefix]
  BY DEF PipeInv
<1>c. chunk' = [chunk EXCEPT !.state = "start", !.len = 0]
  BY <1>3, <1>a
<1> HIDE DEF n
<1>4. Front(output') /\ output'.endp = output.endp + n
  <2>1. Front(output)
    BY DEF PipeInv, Fronts
  <2>2. Fits(output, n) = n
    BY <1>a, <2>1, FrontPut
  <2> QED
    BY <1>3, <1>a, <2>1, <2>2, FrontPut
<1>5. Front(chunkbuf') /\ chunkbuf'.endp = chunkbuf.endp - n
  <2>1. Front(chunkbuf) /\ n \in 0 .. chunkbuf.endp
    BY <1>1, <1>a DEF PipeInv, Fronts
  <2> QED
    BY <1>3, <2>1, FrontTake
<1>6. chunk' = [state |-> "start", len |-> 0, prefix |-> chunk.prefix]
  BY <1>b, <1>c
<1>7. wire' = [at |-> "size", left |-> 0, got |-> wire.got + n]
  BY <1>1, <1>3 DEF PipeInv, ReadData
<1>8. Left' = Left - n
  BY <1>4, <1>a DEF Left, PipeInv
<1>9. TypeOK'
  BY <1>1, <1>3, <1>4, <1>5, <1>6, <1>7 DEF PipeInv, TypeOK, Front, ChunkType, WireType
<1>10. ChunkFits' /\ TrailerFits'
  BY <1>1, <1>3, <1>6, <1>8 DEF PipeInv, ChunkFits, TrailerFits
<1>11. WireMatches'
  BY <1>1, <1>3, <1>5, <1>6, <1>7 DEF PipeInv, WireMatches
<1>12. Calls'
  BY <1>1, <1>3, <1>7 DEF PipeInv, Calls
<1> QED
  BY <1>4, <1>5, <1>9, <1>10, <1>11, <1>12 DEF PipeInv, Fronts

LEMMA NoMoreChunksStep == PipeInv /\ NoMoreChunks => PipeInv'
<1> SUFFICES ASSUME PipeInv, NoMoreChunks PROVE PipeInv'
  OBVIOUS
<1> USE PipeAssumption, Measures, TypeFields
<1>1. /\ At("chunks") /\ chunk.state = "start" /\ chunkbuf.endp = 0
      /\ pc' = [at |-> "send", caller |-> pc.caller, left |-> pc.left]
      /\ UNCHANGED <<chunkbuf, chunk, interest, body>>
  BY DEF PipeInv, NoMoreChunks, ChunksEnd, ChunkFits, WireMatches
<1>2. CASE flags.chunking /\ flags.finalized
  <2>1. RESERVE <= Left /\ wire.at = "size" /\ wire.left = 0
    BY <1>1, <1>2 DEF PipeInv, TrailerFits, WireMatches
  <2>2. Fits(output, TRAILER) = TRAILER
    BY <2>1, FrontPut DEF PipeInv, Fronts, Left
  <2>3. /\ output' = bufPutBlk(output, TRAILER)
        /\ wire' = ReadTrailer(TRUE)
        /\ flags' = [flags EXCEPT !.chunking = FALSE]
    BY <1>2, <2>2 DEF NoMoreChunks
  <2>4. Front(output')
    BY <2>3, FrontPut DEF PipeInv, Fronts
  <2>5. wire' = [at |-> "end", left |-> 0, got |-> wire.got]
    BY <2>1, <2>3 DEF PipeInv, ReadTrailer
  <2>6. flags' = [chunking |-> FALSE, finalized |-> flags.finalized, complete |-> flags.complete]
    BY <2>3 DEF PipeInv
  <2>7. TypeOK'
    BY <1>1, <2>4, <2>5, <2>6 DEF PipeInv, TypeOK, Front, PcType, WireType, FlagsType
  <2>8. ChunkFits' /\ TrailerFits'
    BY <1>1, <2>6 DEF ChunkFits, TrailerFits
  <2>9. WireMatches'
    BY <1>1, <2>5, <2>6 DEF PipeInv, WireMatches
  <2>10. Calls'
    BY <1>1, <1>2, <2>6 DEF PipeInv, Calls
  <2> QED
    BY <1>1, <2>4, <2>7, <2>8, <2>9, <2>10 DEF PipeInv, Fronts
<1>3. CASE ~(flags.chunking /\ flags.finalized)
  <2>1. UNCHANGED <<output, wire, flags>>
    BY <1>3 DEF NoMoreChunks
  <2>2. TypeOK'
    BY <1>1, <2>1 DEF PipeInv, TypeOK, PcType
  <2>3. Calls'
    BY <1>1, <2>1 DEF PipeInv, Calls
  <2> QED
    BY <1>1, <2>1, <2>2, <2>3
       DEF PipeInv, Fronts, ChunkFits, TrailerFits, WireMatches, Left
<1> QED
  BY <1>2, <1>3

LEMMA WritePieceStep == PipeInv /\ WritePiece => PipeInv'
<1> SUFFICES ASSUME PipeInv, WritePiece PROVE PipeInv'
  OBVIOUS
<1> USE PipeAssumption, Measures, TypeFields
<1> DEFINE n == Lesser(bufRoom(Target), pc.left)
<1>1. /\ pc' = [pc EXCEPT !.at = "write", !.left = pc.left - n]
      /\ body' = [body EXCEPT !.taken = body.taken + n]
      /\ At("fill") /\ bufRoom(Target) > 0
      /\ UNCHANGED <<chunk, flags, interest>>
  BY DEF WritePiece
<1>2. /\ pc.left > 0 /\ ~flags.finalized /\ pc.caller = "write"
      /\ chunk.state # "header" /\ wire.at # "headers"
  BY <1>1 DEF PipeInv, Calls, ChunkFits, WireMatches
<1>3. bufRoom(Target) \in Nat
  BY DEF PipeInv, Target
<1>4. n \in 1 .. pc.left /\ n <= bufRoom(Target)
  BY <1>1, <1>2, <1>3 DEF PipeInv, Lesser
<1> HIDE DEF n
<1>5. pc' = [at |-> "write", caller |-> pc.caller, left |-> pc.left - n]
  BY <1>1 DEF PipeInv
<1>6. body' = [taken |-> body.taken + n, failed |-> body.failed]
  BY <1>1 DEF PipeInv
<1>7. CASE flags.chunking
  <2>1. chunkbuf' = bufPutBlk(chunkbuf, n) /\ UNCHANGED <<output, wire>>
    BY <1>7 DEF WritePiece, n
  <2>2. Front(chunkbuf') /\ chunkbuf'.endp = chunkbuf.endp + n
    <3>1. Front(chunkbuf) /\ n \in Nat /\ n <= BufSize - 1 - chunkbuf.endp
      BY <1>4, <1>7 DEF PipeInv, Fronts, Target
    <3>2. Fits(chunkbuf, n) = n
      BY <3>1, FrontPut
    <3> QED
      BY <2>1, <3>1, <3>2, FrontPut
  <2>3. TypeOK'
    BY <1>1, <1>4, <1>5, <1>6, <2>1, <2>2 DEF PipeInv, TypeOK, Front, PcType
  <2>4. ChunkFits' /\ TrailerFits'
    BY <1>1, <1>2, <1>4, <2>1, <2>2 DEF PipeInv, ChunkFits, TrailerFits, Left
  <2>5. WireMatches'
    BY <1>1, <1>2, <1>4, <1>5, <1>6, <1>7, <2>1, <2>2 DEF PipeInv, WireMatches
  <2>6. Calls'
    BY <1>1, <1>2, <1>5, <1>7 DEF Calls
  <2> QED
    BY <2>1, <2>2, <2>3, <2>4, <2>5, <2>6 DEF PipeInv, Fronts
<1>8. CASE ~flags.chunking
  <2>1. output' = bufPutBlk(output, n) /\ wire' = ReadData(n) /\ UNCHANGED chunkbuf
    BY <1>8 DEF WritePiece, n
  <2>2. Front(output')
    BY <1>4, <2>1, FrontPut DEF PipeInv, Fronts
  <2>3. pc.left <= wire.left /\ wire.at = "length" /\ chunk.state = "start"
    BY <1>1, <1>2, <1>8 DEF PipeInv, Calls, WireMatches
  <2>4. wire' = [at |-> IF n < wire.left THEN "length" ELSE "end",
                 left |-> wire.left - n, got |-> wire.got + n]
    BY <1>4, <2>1, <2>3 DEF PipeInv, ReadData
  <2>5. wire.left - n \in Nat /\ wire.got + n \in Nat /\ pc.left - n \in Nat
    BY <1>4, <2>3 DEF PipeInv
  <2>6. TypeOK'
    BY <1>1, <1>4, <1>5, <1>6, <2>1, <2>2, <2>4, <2>5
       DEF PipeInv, TypeOK, Front, PcType, WireType
  <2>7. ChunkFits' /\ TrailerFits'
    BY <1>1, <1>8, <2>3 DEF ChunkFits, TrailerFits
  <2>8. wire'.at \in {"length", "end"} /\ wire'.left = wire.left - n /\ wire'.got = wire.got + n
        /\ (wire'.at = "end" => wire'.left = 0)
    BY <1>4, <2>3, <2>4 DEF PipeInv
  <2>9. WireMatches'
    BY <1>1, <1>4, <1>6, <1>8, <2>1, <2>3, <2>8 DEF PipeInv, WireMatches
  <2>10. Calls'
    BY <1>1, <1>2, <1>4, <1>5, <2>3, <2>8 DEF PipeInv, Calls
  <2> QED
    BY <2>1, <2>2, <2>6, <2>7, <2>9, <2>10 DEF PipeInv, Fronts
<1> QED
  BY <1>7, <1>8

LEMMA WriteHeadersStep == PipeInv /\ WriteHeaders => PipeInv'
<1> SUFFICES ASSUME PipeInv, WriteHeaders PROVE PipeInv'
  OBVIOUS
<1> USE PipeAssumption, Measures, TypeFields
<1>1. /\ At("handler") /\ wire.at = "headers" /\ output.endp = 0 /\ wire.left = 0
      /\ ~flags.chunking /\ chunk.state = "start" /\ chunkbuf.endp = 0
      /\ UNCHANGED <<chunkbuf, chunk, interest, pc, body>>
  BY DEF PipeInv, WriteHeaders, WireMatches
<1>2. PICK h \in HeaderSizes, length \in Lengths \cup {-1} :
        /\ output' = bufPutBlk(output, h)
        /\ flags' = [flags EXCEPT !.chunking = length < 0]
        /\ wire' = IF length < 0 THEN [wire EXCEPT !.at = "size"]
                   ELSE [wire EXCEPT !.at = IF length = 0 THEN "end" ELSE "length",
                                     !.left = length]
  BY DEF WriteHeaders
<1>3. h \in Nat /\ h <= BufSize - 1 - RESERVE /\ length \in Int
  OBVIOUS
<1>4. Front(output') /\ output'.endp = h
  <2>1. Front(output)
    BY DEF PipeInv, Fronts
  <2>2. Fits(output, h) = h
    <3>1. h <= BufSize - 1 - output.endp
      BY <1>1, <1>3
    <3>2. Fits(output, h) = IF h <= BufSize - 1 - output.endp
                            THEN h ELSE BufSize - 1 - output.endp
      BY <1>3, <2>1, FrontPut
    <3> QED
      BY <3>1, <3>2
  <2>3. Front(bufPutBlk(output, h)) /\ bufPutBlk(output, h).endp = output.endp + Fits(output, h)
    BY <1>3, <2>1, FrontPut
  <2> QED
    BY <1>1, <1>2, <1>3, <2>2, <2>3
<1>5. flags' = [chunking |-> length < 0, finalized |-> flags.finalized, complete |-> flags.complete]
  BY <1>2 DEF PipeInv
<1>6. /\ wire'.at = IF length < 0 THEN "size" ELSE IF length = 0 THEN "end" ELSE "length"
      /\ wire'.left = IF length < 0 THEN 0 ELSE length
      /\ wire'.got = wire.got
      /\ wire' = [at |-> wire'.at, left |-> wire'.left, got |-> wire'.got]
  <2>1. CASE length < 0
    BY <1>1, <1>2, <2>1 DEF PipeInv
  <2>2. CASE ~(length < 0)
    <3> DEFINE place == IF length = 0 THEN "end" ELSE "length"
    <3>1. wire' = [wire EXCEPT !.at = place, !.left = length]
      BY <1>2, <2>2
    <3>2. wire = [at |-> wire.at, left |-> wire.left, got |-> wire.got]
      BY DEF PipeInv
    <3> HIDE DEF place
    <3>3. wire' = [at |-> place, left |-> length, got |-> wire.got]
      BY <3>1, <3>2
    <3> QED
      BY <2>2, <3>3 DEF place
  <2> QED
    BY <2>1, <2>2
<1>7. wire'.left \in Nat
  BY <1>3, <1>6
<1>8. TypeOK'
  BY <1>1, <1>4, <1>5, <1>6, <1>7 DEF PipeInv, TypeOK, Front, WireType, FlagsType
<1>9. ChunkFits' /\ TrailerFits'
  BY <1>1, <1>3, <1>4 DEF ChunkFits, TrailerFits, Left
<1>10. WireMatches'
  BY <1>1, <1>3, <1>5, <1>6 DEF PipeInv, WireMatches
<1>11. Calls'
  BY <1>1, <1>5 DEF PipeInv, Calls
<1> QED
  BY <1>1, <1>4, <1>8, <1>9, <1>10, <1>11 DEF PipeInv, Fronts

\* A step of the socket takes output to its front with no more data.
LEMMA SentStep ==
  ASSUME PipeInv, At("send"),
         Front(output'), output'.endp <= output.endp,
         NEW c \in BOOLEAN,
         flags' = [chunking |-> flags.chunking, finalized |-> flags.finalized, complete |-> c],
         interest' \in BOOLEAN,
         Goto(IF pc.caller = "write" THEN "fill" ELSE "select"),
         NEW f \in BOOLEAN,
         body' = [taken |-> body.taken, failed |-> f],
         UNCHANGED <<chunkbuf, chunk, wire>>
  PROVE  PipeInv'
<1> USE PipeAssumption, Measures, TypeFields
<1>1. pc' = [at |-> IF pc.caller = "write" THEN "fill" ELSE "select",
             caller |-> pc.caller, left |-> pc.left]
  BY DEF PipeInv
<1>2. output'.endp \in 0 .. BufSize - 1 /\ Left' >= Left /\ Left' \in Nat
  BY BufSizeAssumption DEF Front, Buf, Left, PipeInv
<1>3. TypeOK'
  BY <1>1 DEF PipeInv, TypeOK, Front, FlagsType, PcType
<1>4. chunk.state # "header"
  BY DEF PipeInv, ChunkFits
<1>5. ChunkFits' /\ TrailerFits'
  BY <1>2, <1>4 DEF PipeInv, ChunkFits, TrailerFits
<1>6. WireMatches'
  BY DEF PipeInv, WireMatches
<1>7. Calls'
  BY <1>1 DEF PipeInv, Calls
<1> QED
  BY <1>3, <1>5, <1>6, <1>7 DEF PipeInv, Fronts

LEMMA SendStep == PipeInv /\ Send => PipeInv'
<1> SUFFICES ASSUME PipeInv, Send PROVE PipeInv'
  OBVIOUS
<1> USE PipeAssumption, Measures, TypeFields
<1>1. PICK w \in SocketTakes(bufLen(output)) :
        /\ output' = IF bufLen(output) = 0 THEN output
                     ELSE bufCompact(bufAdjustStart(output, w))
        /\ flags' = [flags EXCEPT !.complete = flags.complete \/ Drained(output')]
        /\ Return(bufLen(output') = 0)
  BY DEF Send
<1>2. w \in 0 .. output.endp
  BY DEF SocketTakes, PipeInv
<1>3. Front(output') /\ output'.endp <= output.endp
  <2>1. Front(output)
    BY DEF PipeInv, Fronts
  <2>2. /\ Front(bufCompact(bufAdjustStart(output, w)))
        /\ bufCompact(bufAdjustStart(output, w)).endp = output.endp - w
    BY <1>2, <2>1, FrontTake
  <2> QED
    BY <1>1, <1>2, <2>1, <2>2 DEF PipeInv
<1> DEFINE c == flags.complete \/ Drained(output')
<1>4. c \in BOOLEAN
  BY DEF Drained, PipeInv
<1>5. flags' = [chunking |-> flags.chunking, finalized |-> flags.finalized, complete |-> c]
  BY <1>1 DEF PipeInv
<1> HIDE DEF c
<1>6. interest' \in BOOLEAN /\ Goto(IF pc.caller = "write" THEN "fill" ELSE "select")
  BY <1>1 DEF Return, PipeInv
<1>7. body' = [taken |-> body.taken, failed |-> body.failed] /\ body.failed \in BOOLEAN
  BY DEF Send, PipeInv
<1>8. At("send") /\ UNCHANGED <<chunkbuf, chunk, wire>>
  BY DEF Send
<1> QED
  BY <1>3, <1>4, <1>5, <1>6, <1>7, <1>8, SentStep

LEMMA SendFailsStep == PipeInv /\ SendFails => PipeInv'
<1> SUFFICES ASSUME PipeInv, SendFails PROVE PipeInv'
  OBVIOUS
<1> USE PipeAssumption, Measures, TypeFields
<1>1. Front(output') /\ output'.endp <= output.endp
  BY FrontEmpty DEF SendFails, PipeInv
<1>2. flags' = [chunking |-> flags.chunking, finalized |-> flags.finalized, complete |-> TRUE]
  BY DEF SendFails, PipeInv
<1>3. interest' \in BOOLEAN /\ Goto(IF pc.caller = "write" THEN "fill" ELSE "select")
  BY DEF SendFails, Return, PipeInv
<1>4. body' = [taken |-> body.taken, failed |-> TRUE]
  BY DEF SendFails, PipeInv
<1>5. At("send") /\ UNCHANGED <<chunkbuf, chunk, wire>>
  BY DEF SendFails
<1> QED
  BY <1>1, <1>2, <1>3, <1>4, <1>5, SentStep

LEMMA InvNext == PipeInv /\ [Next]_vars => PipeInv'
<1> SUFFICES ASSUME PipeInv, [Next]_vars PROVE PipeInv'
  OBVIOUS
<1>1. CASE Next
  BY <1>1, WriteHeadersStep, WriteBlockStep, WriteTestStep, WriteFullStep,
     WritePieceStep, DoneStep, ChunkWaitsStep, ChunkStartStep, ChunkHeaderStep,
     ChunkDataStep, NoMoreChunksStep, SendStep, SendFailsStep, WriteEventStep
     DEF Next, Thread
<1>2. CASE UNCHANGED vars
  BY <1>2 DEF vars, PipeInv, TypeOK, Fronts, ChunkFits, TrailerFits,
     WireMatches, Calls, Left
<1> QED
  BY <1>1, <1>2

LEMMA Invariant == Spec => []PipeInv
BY InvInit, InvNext, PTL DEF Spec

(***************************************************************************)
(* Theorems.                                                               *)
(***************************************************************************)

\* Buffers, lengths and flags stay in their ranges.
THEOREM TypeCorrect == Spec => []TypeOK
<1>1. PipeInv => TypeOK
  BY DEF PipeInv
<1> QED
  BY <1>1, Invariant, PTL

\* What the server puts on the wire is a well-formed response
\* (flushChunkData, websFlush).
THEOREM ResponseWellFormed == Spec => []WellFormed
<1>1. PipeInv => WellFormed
  BY InvSafe DEF Safe
<1> QED
  BY <1>1, Invariant, PTL

\* No buffer is read behind its end: output and chunkbuf never wrap.
THEOREM BuffersStraight == Spec => []ReadInOnePiece
<1>1. PipeInv => ReadInOnePiece
  BY InvSafe DEF Safe
<1> QED
  BY <1>1, Invariant, PTL

\* What websWriteBlock took is sent before the response ends.
THEOREM NothingDropped == Spec => []EndMeansAll
<1>1. PipeInv => EndMeansAll
  BY InvSafe DEF Safe
<1> QED
  BY <1>1, Invariant, PTL

\* A prefix never goes out without room for its chunk.
THEOREM ChunksNeverCut == Spec => []ChunksWhole
<1>1. PipeInv => ChunksWhole
  BY InvSafe DEF Safe
<1> QED
  BY <1>1, Invariant, PTL
=============================================================================
