------------------------------- MODULE TxPipe -------------------------------
(***************************************************************************)
(* The way of a response from the handler to the socket (websWriteHeaders  *)
(* .. websWriteBlock, http.c): websWriteBlock fills chunkbuf when the      *)
(* response is chunked and output when it is not; flushChunkData moves     *)
(* chunks with their prefixes to output; websFlush gives output to the     *)
(* socket, which takes as much as it likes; websDone ends the response,    *)
(* and writable events go on with it.                                      *)
(***************************************************************************)
EXTENDS WebsBuf

CONSTANTS
  CHUNK_LOW,    \* low water mark of flushChunkData
  RESERVE,      \* room kept for the trailer, and again for a prefix (16)
  PREFIX,       \* length of a chunk's prefix
  TRAILER,      \* length of the last chunk
  HeaderSizes,  \* lengths of the headers, with what ends them
  Blocks,       \* lengths of the blocks a handler writes
  Lengths,      \* lengths a handler may announce
  BodyMax,      \* bound: bytes a handler writes in chunks
  Fails         \* TRUE: the socket may fail

ASSUME PipeAssumption ==
  /\ {CHUNK_LOW, RESERVE, PREFIX, TRAILER} \subseteq Nat \ {0}
  /\ PREFIX <= RESERVE /\ TRAILER <= RESERVE /\ RESERVE <= CHUNK_LOW
  /\ HeaderSizes \subseteq 1 .. (BufSize - 1 - RESERVE)
  /\ Blocks \subseteq Nat \ {0} /\ Lengths \subseteq Nat /\ BodyMax \in Nat
  /\ Fails \in BOOLEAN

VARIABLES
  output, chunkbuf,   \* the buffers
  chunk,              \* txChunkState, txChunkLen, txChunkPrefixLen
  flags,              \* WEBS_CHUNKING, WEBS_FINALIZED; complete: the state
  interest,           \* the socket has SOCKET_WRITABLE in its mask
  pc,                 \* where the thread is, for whom, bytes left to write
  wire,               \* history: what was put in output, as a client parses it
  body                \* history: bytes websWriteBlock took; TRUE when one failed

vars == <<output, chunkbuf, chunk, flags, interest, pc, wire, body>>

ChunkType == [state : {"start", "header", "data"}, len : Nat, prefix : Nat]
FlagsType == [chunking : BOOLEAN, finalized : BOOLEAN, complete : BOOLEAN]
PcType == [at : {"handler", "write", "fill", "chunks", "send", "select"},
           caller : {"write", "done", "event"}, left : Nat]
WireType == [at : {"headers", "length", "size", "prefix", "data", "end", "bad"},
             left : Nat, got : Nat]

TypeOK ==
  /\ output \in Buf /\ chunkbuf \in Buf
  /\ chunk \in ChunkType /\ flags \in FlagsType /\ interest \in BOOLEAN
  /\ pc \in PcType /\ wire \in WireType
  /\ body \in [taken : Nat, failed : BOOLEAN]

Init ==
  /\ output = EmptyBuf /\ chunkbuf = EmptyBuf
  /\ chunk = [state |-> "start", len |-> 0, prefix |-> 0]
  /\ flags = [chunking |-> FALSE, finalized |-> FALSE, complete |-> FALSE]
  /\ interest = FALSE
  /\ pc = [at |-> "handler", caller |-> "write", left |-> 0]
  /\ wire = [at |-> "headers", left |-> 0, got |-> 0]
  /\ body = [taken |-> 0, failed |-> FALSE]

At(place) == pc.at = place
Goto(place) == pc' = [pc EXCEPT !.at = place]
CallFlush(caller) == pc' = [pc EXCEPT !.at = "chunks", !.caller = caller]

(***************************************************************************)
(* The client's reading of what is put in output.                          *)
(***************************************************************************)

Bad == [wire EXCEPT !.at = "bad"]

\* The rest of a chunk's prefix; len is the chunk's length.
ReadPrefix(whole, len) ==
  IF wire.at \notin {"size", "prefix"} THEN Bad
  ELSE IF whole THEN [wire EXCEPT !.at = "data", !.left = len]
  ELSE [wire EXCEPT !.at = "prefix"]

\* n bytes of the body.
ReadData(n) ==
  IF wire.at \notin {"length", "data"} \/ n > wire.left THEN Bad
  ELSE [at   |-> IF n < wire.left THEN wire.at
                 ELSE IF wire.at = "data" THEN "size" ELSE "end",
        left |-> wire.left - n,
        got  |-> wire.got + n]

\* The last chunk.
ReadTrailer(whole) ==
  IF wire.at = "size" /\ whole THEN [wire EXCEPT !.at = "end"] ELSE Bad

(***************************************************************************)
(* The handler: headers, blocks, and the end.                              *)
(***************************************************************************)

\* websWriteHeaders and websWriteEndHeaders: a length, or -1 for chunks.
WriteHeaders ==
  /\ At("handler") /\ wire.at = "headers"
  /\ \E h \in HeaderSizes, length \in Lengths \cup {-1} :
       /\ output' = bufPutBlk(output, h)
       /\ flags' = [flags EXCEPT !.chunking = length < 0]
       /\ wire' = IF length < 0 THEN [wire EXCEPT !.at = "size"]
                  ELSE [wire EXCEPT !.at = IF length = 0 THEN "end" ELSE "length",
                                    !.left = length]
  /\ UNCHANGED <<chunkbuf, chunk, interest, pc, body>>

\* What the handler may still write: as much as it has announced.
MayWrite == IF flags.chunking THEN BodyMax - body.taken ELSE wire.left

WriteBlock ==
  /\ At("handler") /\ wire.at # "headers"
  /\ \E size \in Blocks :
       /\ size <= MayWrite
       /\ pc' = [pc EXCEPT !.at = "write", !.left = size]
  /\ UNCHANGED <<output, chunkbuf, chunk, flags, interest, wire, body>>

\* The test of the loop of websWriteBlock, and the flush when room is short.
Target == IF flags.chunking THEN chunkbuf ELSE output

WriteTest ==
  /\ At("write")
  /\ IF pc.left = 0 \/ flags.complete THEN Goto("handler")
     ELSE IF bufRoom(Target) < pc.left THEN CallFlush("write")
     ELSE Goto("fill")
  /\ UNCHANGED <<output, chunkbuf, chunk, flags, interest, wire, body>>

\* Its body: nothing fits, or a piece does.
WriteFull ==
  /\ At("fill") /\ bufRoom(Target) = 0
  /\ Goto("handler")
  /\ UNCHANGED <<output, chunkbuf, chunk, flags, interest, wire, body>>

WritePiece ==
  /\ At("fill") /\ bufRoom(Target) > 0
  /\ LET this == Lesser(bufRoom(Target), pc.left)
     IN /\ pc' = [pc EXCEPT !.at = "write", !.left = @ - this]
        /\ body' = [body EXCEPT !.taken = @ + this]
        /\ IF flags.chunking
           THEN chunkbuf' = bufPutBlk(chunkbuf, this) /\ UNCHANGED <<output, wire>>
           ELSE /\ output' = bufPutBlk(output, this)
                /\ wire' = ReadData(this)
                /\ UNCHANGED chunkbuf
  /\ UNCHANGED <<chunk, flags, interest>>

\* websDone; after a failed write as well.
Done ==
  /\ At("handler") /\ wire.at # "headers"
  /\ flags' = [flags EXCEPT !.finalized = TRUE]
  /\ CallFlush("done")
  /\ UNCHANGED <<output, chunkbuf, chunk, interest, wire, body>>

(***************************************************************************)
(* flushChunkData: one action for each turn of its loop.                   *)
(***************************************************************************)

Chunking == At("chunks") /\ flags.chunking /\ bufLen(chunkbuf) > 0

\* Mutated ChunkRoom: nothing kept for the trailer.
ChunkRoomAll == bufRoom(output)

ChunkRoom == bufRoom(output) - RESERVE

\* No room for a reasonable chunk.
ChunkWaits ==
  /\ Chunking /\ ChunkRoom <= CHUNK_LOW
  /\ Goto("send")
  /\ UNCHANGED <<output, chunkbuf, chunk, flags, interest, wire, body>>

\* Mutated ChunkSize: no room for the prefix.
ChunkSizeAll == Lesser(bufLen(chunkbuf), ChunkRoom)

\* Mutated ChunkSize: only what lies above the low water mark.
ChunkSizeAboveLow == Lesser(bufLen(chunkbuf), ChunkRoom - CHUNK_LOW - RESERVE)

ChunkSize == Lesser(bufLen(chunkbuf), ChunkRoom - RESERVE)

ChunkStart ==
  /\ Chunking /\ ChunkRoom > CHUNK_LOW /\ chunk.state = "start"
  /\ chunk' = [state |-> "header", len |-> ChunkSize, prefix |-> PREFIX]
  /\ UNCHANGED <<output, chunkbuf, flags, interest, pc, wire, body>>

ChunkHeader ==
  /\ Chunking /\ ChunkRoom > CHUNK_LOW /\ chunk.state = "header"
  /\ LET written == Fits(output, chunk.prefix)
         whole == written = chunk.prefix
     IN /\ output' = bufPutBlk(output, chunk.prefix)
        /\ chunk' = [chunk EXCEPT !.state = IF whole THEN "data" ELSE @,
                                  !.prefix = @ - written]
        /\ wire' = ReadPrefix(whole, chunk.len)
        /\ IF whole THEN UNCHANGED pc ELSE Goto("send")
  /\ UNCHANGED <<chunkbuf, flags, interest, body>>

ChunkData ==
  /\ Chunking /\ ChunkRoom > CHUNK_LOW /\ chunk.state = "data"
  /\ LET len == Lesser(ChunkRoom, chunk.len)
         rest == bufAdjustStart(chunkbuf, len)
         last == len = chunk.len
     IN /\ output' = bufPutBlk(output, len)
        /\ chunkbuf' = IF last THEN bufCompact(rest) ELSE rest
        /\ chunk' = [chunk EXCEPT !.state = IF last THEN "start" ELSE @,
                                  !.len = @ - len]
        /\ wire' = ReadData(len)
  /\ UNCHANGED <<flags, interest, pc, body>>

(***************************************************************************)
(* websFlush.                                                              *)
(***************************************************************************)

\* Mutated ChunksEnd: the end of the response ends the chunks.
ChunksEndEarly ==
  At("chunks") /\ flags.chunking /\ (bufLen(chunkbuf) = 0 \/ flags.finalized)

\* flushChunkData returns true: the last chunk, once the response is ended.
ChunksEnd == At("chunks") /\ flags.chunking /\ bufLen(chunkbuf) = 0

NoMoreChunks ==
  /\ ChunksEnd \/ (At("chunks") /\ ~flags.chunking)
  /\ IF flags.chunking /\ flags.finalized
     THEN /\ output' = bufPutBlk(output, TRAILER)
          /\ wire' = ReadTrailer(Fits(output, TRAILER) = TRAILER)
          /\ flags' = [flags EXCEPT !.chunking = FALSE]
     ELSE UNCHANGED <<output, wire, flags>>
  /\ Goto("send")
  /\ UNCHANGED <<chunkbuf, chunk, interest, body>>

\* Mutated Return: websDone does not look at the result.
ReturnIgnored(empty) ==
  /\ Goto(IF pc.caller = "write" THEN "fill" ELSE "select")
  /\ UNCHANGED interest

\* What the caller of websFlush does with its result.
Return(empty) ==
  /\ Goto(IF pc.caller = "write" THEN "fill" ELSE "select")
  /\ interest' = (interest \/ (pc.caller = "done" /\ ~empty))

\* The socket takes some of output; something, when select has said so;
\* and nothing once it has failed.
SocketTakes(n) ==
  IF n = 0 THEN {0}
  ELSE {w \in 0 .. n : ~body.failed /\ (pc.caller = "event" => w > 0)}

Drained(b) == bufLen(b) = 0 /\ flags.finalized

Send ==
  /\ At("send")
  /\ \E w \in SocketTakes(bufLen(output)) :
       LET rest == bufCompact(bufAdjustStart(output, w))
       IN /\ output' = IF bufLen(output) = 0 THEN output ELSE rest
          /\ flags' = [flags EXCEPT !.complete = @ \/ Drained(output')]
          /\ Return(bufLen(output') = 0)
  /\ UNCHANGED <<chunkbuf, chunk, wire, body>>

\* The write fails: keep-alive is lost, and what was in output.
SendFails ==
  /\ Fails
  /\ At("send") /\ bufLen(output) > 0
  /\ output' = EmptyBuf
  /\ flags' = [flags EXCEPT !.complete = TRUE]
  /\ body' = [body EXCEPT !.failed = TRUE]
  /\ Return(FALSE)
  /\ UNCHANGED <<chunkbuf, chunk, wire>>

\* writeEvent.
WriteEvent ==
  /\ At("select") /\ interest /\ ~flags.complete
  /\ bufLen(output) > 0
  /\ CallFlush("event")
  /\ UNCHANGED <<output, chunkbuf, chunk, flags, interest, wire, body>>

(***************************************************************************)
(* The specification.  The thread does not stop inside a call, and select  *)
(* reports a socket whose client reads.                                    *)
(***************************************************************************)

Thread ==
  \/ WriteTest \/ WriteFull \/ WritePiece
  \/ ChunkWaits \/ ChunkStart \/ ChunkHeader \/ ChunkData \/ NoMoreChunks
  \/ Send \/ SendFails

Next == WriteHeaders \/ WriteBlock \/ Done \/ WriteEvent \/ Thread

Spec == Init /\ [][Next]_vars

FairSpec == Spec /\ WF_vars(Thread) /\ WF_vars(WriteEvent)

(***************************************************************************)
(* Properties.                                                             *)
(***************************************************************************)

\* What is put in output is a response as the protocol has it: each prefix
\* is followed by as many bytes as it says, and the last chunk is whole
\* (flushChunkData's bounds on room, websFlush's trailer).
WellFormed == wire.at # "bad"

\* Wherever the code reads a buffer through servp as if it were an array,
\* the bytes it reads lie in one piece (websFlush hands output to the socket
\* that way, flushChunkData hands chunkbuf to bufPutBlk).
ReadInOnePiece ==
  /\ At("send") => Straight(output, bufLen(output))
  /\ chunk.state = "data" => Straight(chunkbuf, chunk.len)

\* A client that has read the last chunk has every byte the handler's calls
\* took: what websWriteBlock accepts is sent or still in chunkbuf.
EndMeansAll ==
  /\ body.taken = wire.got + bufLen(chunkbuf)
  /\ wire.at = "end" => wire.got = body.taken

\* A chunk that has begun is written whole: its prefix is never cut, and
\* whenever flushChunkData goes on with its data there is room for all of
\* it (the reserves of flushChunkData; only so may it skip bufCompact).
ChunksWhole ==
  /\ wire.at # "prefix"
  /\ chunk.state = "data" /\ ChunkRoom > CHUNK_LOW => chunk.len <= ChunkRoom

\* Complete, and nothing is left in the buffers: the last byte or the last
\* chunk has been given to the socket.
Written ==
  /\ flags.complete /\ ~flags.chunking
  /\ bufLen(output) = 0 /\ bufLen(chunkbuf) = 0

\* Complete, and the rest of the chunks never leaves: the socket has taken
\* all of output before chunkbuf was empty (see CompleteMeansWritten).
Truncated == flags.complete /\ flags.chunking /\ bufLen(chunkbuf) > 0

\* When the client reads, the end of a response that has been ended gets to
\* the socket, unless the connection fails, whatever the socket takes at a
\* time: websDone's flush or a write event is always still to come.  With
\* chunks the request may be completed before that, which is the one way for
\* the end never to be written; a response with a length has no such way.
Finishes == flags.finalized ~> body.failed \/ Written \/ Truncated

\* websFlush "returns true if all data is written to the socket and the
\* buffer is empty", and completes an ended response only then.
CompleteMeansWritten ==
  flags.complete /\ flags.chunking => body.failed
=============================================================================
