------------------------------- MODULE RxBody -------------------------------
(***************************************************************************)
(* The body of one request, from the socket to the handler (http.c,        *)
(* file.c): readEvent puts what has arrived in rxbuf, filterChunkData      *)
(* takes the body out of it, with or without chunks, into input, and       *)
(* processContent calls the consumer of the body: a form stays in input,   *)
(* PUT writes it to a file (CGI does the same with a file of its own), the *)
(* upload filter parses it.  The network cuts the stream anywhere.         *)
(***************************************************************************)
EXTENDS Upload

CONSTANTS
  Requests,   \* what clients send: see RxAssumption
  ReadMax,    \* BIT_GOAHEAD_LIMIT_BUFFER: the most that one read takes
  InputMax,   \* capacity of input; without chunks it grows
  LineMax,    \* how far filterChunkData looks for the end of a chunk's line
  HexOf,      \* the value of the symbols that are chunk sizes
  PutMax,     \* BIT_GOAHEAD_LIMIT_PUT
  Fails       \* TRUE: a write may fail, and the client may go

Bytes == UNION {Range(r.wire) : r \in Requests}

(***************************************************************************)
(* Chunks, as a client sends them.                                         *)
(***************************************************************************)

\* n bytes of s are the first line of a chunk: a line end, the size, what
\* else, a line end.
ChunkHead(s, n) ==
  /\ n \in 5 .. Len(s)
  /\ s[1] = "cr" /\ s[2] = "lf" /\ s[3] \in DOMAIN HexOf
  /\ s[n - 1] = "cr" /\ s[n] = "lf" /\ \A i \in 3 .. n - 1 : s[i] # "lf"

\* An empty line at n + 1.
EmptyLine(s, n) == n + 2 <= Len(s) /\ s[n + 1] = "cr" /\ s[n + 2] = "lf"

BeginsChunk(s) ==
  \E n \in 1 .. Len(s) :
    ChunkHead(s, n) /\ (HexOf[s[3]] = 0 => EmptyLine(s, n))

\* What follows the first at bytes of the wire of r, after before bytes of
\* its body: the next of them, up to another chunk; the last chunk; or,
\* malformed, no chunk.
ChunkAt(r, at, before) ==
  LET s == Drop(r.wire, at)
  IN \/ r.malformed /\ ~BeginsChunk(s)
     \/ \E n \in 5 .. LineMax :
          /\ ChunkHead(s, n)
          /\ LET size == HexOf[s[3]]
             IN IF size = 0
                THEN /\ ~r.malformed /\ before = Len(r.body)
                     /\ EmptyLine(s, n) /\ Drop(s, n + 2) = r.next
                ELSE /\ \A i \in 1 .. size : n + i <= Len(s) =>
                          /\ before + i <= Len(r.body)
                          /\ s[n + i] = r.body[before + i]
                     /\ n + size <= Len(s) =>
                          <<at + n + size, before + size>> \in r.chunks

\* wire is body as the client sends it, with the bytes of its next request
\* behind it; chunks says where a chunk begins, in wire and in body; parts
\* says what a form has in each of its fields, and places where it has it
\* (see Forms).  The chunks of a malformed wire end somewhere in the body.
ASSUME RxAssumption ==
  /\ \A r \in Requests :
       /\ r.consumer \in {"form", "put", "upload"} /\ r.chunked \in BOOLEAN
       /\ r.malformed \in BOOLEAN /\ (r.malformed => r.chunked)
       /\ r.wire \in Seq(Bytes) /\ r.body \in Seq(Bytes) /\ r.next \in Seq(Bytes)
       /\ r.body # << >>
       /\ ~r.chunked => r.wire = r.body \o r.next
       /\ r.chunked => /\ <<0, 0>> \in r.chunks /\ ~BeginsChunk(r.next)
                       /\ \A c \in r.chunks : ChunkAt(r, c[1], c[2])
       /\ \A f \in DOMAIN r.parts : f \in Names /\ r.parts[f] \in Seq(Bytes)
  /\ ReadMax \in Nat \ {0} /\ InputMax \in Nat \ {0} /\ LineMax \in Nat
  /\ {"cr", "lf"} \cap DOMAIN HexOf = {} /\ \A d \in DOMAIN HexOf : HexOf[d] \in Nat
  /\ PutMax \in Nat /\ Fails \in BOOLEAN

VARIABLES
  req,            \* the request
  pc,             \* where the thread is
  state,          \* wp->state
  failed,         \* what websError has been called for
  wire,           \* sent and not read
  rxbuf, input,   \* the buffers
  chunk,          \* rxChunkState, rxRemaining, eof; added of filterChunkData
  putLen,         \* wp->putLen
  up,             \* the upload
  disk,           \* the temporary files and what they contain
  kept,           \* files left for good: by PUT, by uploads (in UPLOAD_DIR)
  got,            \* history: what filterChunkData gave to input
  reads,          \* history: how many reads there were, up to two
  lineLost       \* history: websProcessUploadData has cleared a line

buffers == <<wire, rxbuf, input, chunk, got, reads>>
files == <<putLen, up, disk, kept, lineLost>>
vars == <<req, pc, state, failed, buffers, files>>

FileIds == Nat \ {0}
PutFile == 1      \* wp->putfd
PutName == "put"  \* wp->filename of a PUT

TypeOK ==
  /\ req \in Requests
  /\ pc \in {"select", "filter", "consume", "upload", "parsing", "eof",
             "handler", "freed", "crashed"}
  /\ state \in {"content", "ready", "complete"}
  /\ failed \in {"no", "chunk", "boundary", "write", "gone", "refused"}
  /\ wire \in Seq(Bytes) /\ rxbuf \in Seq(Bytes) /\ input \in Seq(Bytes)
  /\ chunk \in [state : {"plain", "start", "data"}, remaining : Nat,
                eof : BOOLEAN, added : BOOLEAN]
  /\ putLen \in Nat
  /\ up \in PartsType(FileIds, Bytes)
  /\ DOMAIN disk \subseteq FileIds /\ \A i \in DOMAIN disk : disk[i] \in Seq(Bytes)
  /\ DOMAIN kept \subseteq FileFields \cup {PutName}
  /\ \A f \in DOMAIN kept : kept[f] \in Seq(Bytes)
  /\ got \in Seq(Bytes) /\ reads \in 0 .. 2 /\ lineLost \in BOOLEAN

\* parseHeaders and parseIncoming have set up the request.
Init ==
  /\ req \in Requests
  /\ pc = "select" /\ state = "content" /\ failed = "no"
  /\ wire = req.wire /\ rxbuf = << >> /\ input = << >>
  /\ chunk = [state |-> IF req.chunked THEN "start" ELSE "plain",
              remaining |-> IF req.chunked THEN 0 ELSE Len(req.body),
              eof |-> FALSE, added |-> FALSE]
  /\ putLen = 0 /\ up = NoParts /\ kept = << >>
  /\ disk = IF req.consumer = "put" THEN [i \in {PutFile} |-> << >>] ELSE << >>
  /\ got = << >> /\ reads = 0 /\ lineLost = FALSE

At(place) == pc = place
Goto(place) == pc' = place
Smaller(a, b) == IF a <= b THEN a ELSE b

\* websError: the request is complete when the reply drains at once.
Failed(why) == failed' = IF failed = "no" THEN why ELSE failed
Fail(why) ==
  /\ Failed(why)
  /\ state' \in IF failed = "no" THEN {state, "complete"} ELSE {state}
NoFailure == UNCHANGED <<failed, state>>

\* Mutated PutOpen: websError leaves wp->putfd to termWebs.
PutStaysOpen(error) == req.consumer = "put"

\* wp->putfd is open: parseIncoming has opened it, and websError closes it.
PutOpen(error) == req.consumer = "put" /\ error = "no"

With(f, x, v) == [y \in DOMAIN f \cup {x} |-> IF y = x THEN v ELSE f[y]]
Keep(name, content) == With(kept, name, content)

\* termWebs, error being what websError was called for before: the files of
\* an upload go, and the file of a PUT takes the place of the one it names
\* if it is still open.
TermWebs(error) ==
  /\ Goto("freed")
  /\ kept' = IF PutOpen(error) THEN Keep(PutName, disk[PutFile]) ELSE kept
  /\ disk' = [i \in DOMAIN disk \
                (Unlinked(up) \cup IF PutOpen(error) THEN {PutFile} ELSE {})
              |-> disk[i]]
  /\ up' = NoParts
  /\ UNCHANGED <<req, state, putLen, lineLost, buffers>>

(***************************************************************************)
(* Events: data, the end of a reply to a body that was refused, the loss   *)
(* of the client.                                                          *)
(***************************************************************************)

\* readEvent, and websPump in state CONTENT or COMPLETE.
Read ==
  /\ At("select") /\ state = "content"
  /\ \E n \in 1 .. Smaller(ReadMax, Len(wire)) :
       /\ rxbuf' = rxbuf \o Take(wire, n)
       /\ wire' = Drop(wire, n)
  /\ chunk' = [chunk EXCEPT !.added = FALSE]
  /\ reads' = Smaller(2, reads + 1)
  /\ Goto("filter")
  /\ UNCHANGED <<req, state, failed, input, got, files>>

\* writeEvent drains the reply, or another event finds it drained.
Complete ==
  /\ At("select") /\ failed # "no"
  /\ UNCHANGED failed /\ TermWebs(failed)

\* readEvent at the end of input, or checkTimeout: both call websError,
\* unless there was an error before.
Gone ==
  /\ Fails
  /\ At("select")
  /\ Failed("gone") /\ TermWebs(failed')

(***************************************************************************)
(* filterChunkData: one action for each turn of its loop.                  *)
(***************************************************************************)

Filtering(s) == At("filter") /\ rxbuf # << >> /\ chunk.state = s

Filtered ==
  /\ At("filter") /\ rxbuf = << >>
  /\ Goto(IF chunk.added THEN "consume" ELSE "select")
  /\ UNCHANGED <<req, state, failed, buffers, files>>

\* n bytes of the body move to input.
Move(n) ==
  /\ rxbuf' = Drop(rxbuf, n)
  /\ input' = input \o Take(rxbuf, n)
  /\ got' = got \o Take(rxbuf, n)
  /\ UNCHANGED <<wire, reads>>

PlainLen == Smaller(chunk.remaining, Len(rxbuf))

\* Mutated AtEof: the last byte is still waited for.
AtEofLate(remaining) == remaining < 0

AtEof(remaining) == remaining <= 0

FilterPlain ==
  /\ Filtering("plain")
  /\ Move(PlainLen)
  /\ chunk' = [chunk EXCEPT !.remaining = @ - PlainLen,
                            !.eof = @ \/ AtEof(chunk.remaining - PlainLen)]
  /\ Goto("consume")
  /\ UNCHANGED <<req, state, failed, files>>

\* The end of a chunk's first line: the line feed, or the end of the data.
ChunkLine(s) == SelectInSubSeq(s, 3, Len(s), LAMBDA b : b = "lf")

GoodHead(s) ==
  /\ ChunkLine(s) > 0
  /\ s[1] = "cr" /\ s[2] = "lf" /\ s[ChunkLine(s) - 1] = "cr"
  /\ s[3] \in DOMAIN HexOf
LastHead(s) == GoodHead(s) /\ HexOf[s[3]] = 0

\* Not enough has arrived: filterChunkData returns 0, whatever was added.
ChunkWaits(s) ==
  \/ Len(s) < 5
  \/ ChunkLine(s) = 0 /\ Len(s) < LineMax
  \/ LastHead(s) /\ ChunkLine(s) + 1 >= Len(s)

GoodChunk(s) == GoodHead(s) /\ (LastHead(s) => EmptyLine(s, ChunkLine(s)))

FilterWaits ==
  /\ Filtering("start") /\ ChunkWaits(rxbuf)
  /\ Goto("select")
  /\ UNCHANGED <<req, state, failed, buffers, files>>

FilterBad ==
  /\ Filtering("start") /\ ~ChunkWaits(rxbuf) /\ ~GoodChunk(rxbuf)
  /\ Fail("chunk") /\ Goto("select")
  /\ UNCHANGED <<req, buffers, files>>

\* Mutated ChunkHeadLen: the empty line behind the last chunk stays.
ChunkHeadLenShort(size) == ChunkLine(rxbuf)

\* What filterChunkData takes for a chunk's head.
ChunkHeadLen(size) == IF size = 0 THEN ChunkLine(rxbuf) + 2 ELSE ChunkLine(rxbuf)

FilterStart ==
  /\ Filtering("start") /\ ~ChunkWaits(rxbuf) /\ GoodChunk(rxbuf)
  /\ LET size == HexOf[rxbuf[3]]
     IN /\ rxbuf' = Drop(rxbuf, ChunkHeadLen(size))
        /\ chunk' = [chunk EXCEPT !.state = IF size = 0 THEN @ ELSE "data",
                                  !.remaining = size, !.eof = @ \/ size = 0]
        /\ IF size = 0 THEN Goto("consume") ELSE UNCHANGED pc
  /\ UNCHANGED <<req, state, failed, wire, input, got, reads, files>>

FilterData ==
  /\ Filtering("data")
  /\ LET len == Smaller(chunk.remaining, Len(rxbuf))
         n == Smaller(InputMax - Len(input), len)
     IN /\ Move(n)
        /\ chunk' = [chunk EXCEPT !.state = IF n = chunk.remaining THEN "start" ELSE @,
                                  !.remaining = @ - n, !.added = TRUE]
        /\ IF n < len THEN Goto("consume") ELSE UNCHANGED pc
  /\ UNCHANGED <<req, state, failed, files>>

(***************************************************************************)
(* processContent: the consumers.                                          *)
(***************************************************************************)

\* A form stays in input, for websSetFormVars, and so does what comes once
\* websError has closed the file of a PUT.
ConsumeForm ==
  /\ At("consume") /\ req.consumer # "upload" /\ ~PutOpen(failed)
  /\ Goto("eof")
  /\ UNCHANGED <<req, state, failed, buffers, files>>

\* Mutated ConsumeInput: what was written stays in input.
ConsumeInputNot(n) == UNCHANGED <<wire, rxbuf, input, chunk, got, reads>>

\* websConsumeInput.
ConsumeInput(n) ==
  input' = Drop(input, n) /\ UNCHANGED <<wire, rxbuf, chunk, got, reads>>

\* websProcessPutData.
ConsumePut ==
  /\ At("consume") /\ PutOpen(failed)
  /\ putLen' = putLen + Len(input)
  /\ putLen' <= PutMax
  /\ disk' = [disk EXCEPT ![PutFile] = @ \o input]
  /\ ConsumeInput(Len(input))
  /\ Goto("eof")
  /\ UNCHANGED <<req, state, failed, up, kept, lineLost>>

\* The file is too large, or not all is written: processContent returns.
RefusePut ==
  /\ At("consume") /\ PutOpen(failed)
  /\ putLen' = putLen + Len(input)
  /\ \/ putLen' > PutMax /\ UNCHANGED disk
     \/ /\ putLen' <= PutMax /\ Fails
        /\ \E n \in 0 .. Len(input) - 1 :
             disk' = [disk EXCEPT ![PutFile] = @ \o Take(input, n)]
  /\ Fail("write") /\ Goto("select")
  /\ UNCHANGED <<req, buffers, up, kept, lineLost>>

ConsumeUpload ==
  /\ At("consume") /\ req.consumer = "upload"
  /\ Goto("upload")
  /\ UNCHANGED <<req, state, failed, buffers, files>>

\* The test of wp->eof, also after an upload that was refused.
TestEof ==
  /\ At("eof")
  /\ IF chunk.eof THEN state' = "ready" /\ Goto("handler")
                  ELSE UNCHANGED state /\ Goto("select")
  /\ UNCHANGED <<req, failed, buffers, files>>

(***************************************************************************)
(* websProcessUploadData: one action for each turn of its loop.            *)
(***************************************************************************)

\* In a call: before anything of input was consumed, when it begins at the
\* start of its buffer (bufCompact), and after that.
InUpload == At("upload") \/ At("parsing")
Uploading(s) == InUpload /\ up.state = s

NextLine == Line(input, At("upload"))

\* The turns that read a line.
ReadsLine(s) ==
  /\ Uploading(s) /\ LineEnd(input) > 0
  /\ lineLost' = (lineLost \/ NextLine # LineSent(input))

\* No whole line, or the end of the form.
UploadWaits ==
  /\ \/ up.state \in {"boundary", "header"} /\ InUpload /\ LineEnd(input) = 0
     \/ Uploading("end")
  /\ Goto("eof")
  /\ UNCHANGED <<req, state, failed, buffers, files>>

\* initUpload.
UploadInit ==
  /\ Uploading("start")
  /\ up' = [up EXCEPT !.state = "boundary"]
  /\ UNCHANGED <<req, pc, state, failed, buffers, putLen, disk, kept, lineLost>>

UploadBoundary ==
  /\ ReadsLine("boundary")
  /\ ConsumeInput(LineEnd(input))
  /\ IF IsPrefix(Boundary, NextLine)
     THEN /\ up' = processContentBoundary(up, NextLine)
          /\ NoFailure /\ Goto("parsing")
     ELSE /\ Fail("boundary") /\ Goto("eof") /\ UNCHANGED up
  /\ UNCHANGED <<req, putLen, disk, kept>>

NextId == Cardinality(DOMAIN disk) + 1

UploadHeader ==
  /\ ReadsLine("header")
  /\ ConsumeInput(LineEnd(input))
  /\ LET line == NextLine
         field == IF line = << >> THEN NoName ELSE line[1]
     IN \/ line = << >> /\ up' = HeaderEnds(up) /\ UNCHANGED disk
        \/ field \in Fields /\ up' = VarHeader(up, field) /\ UNCHANGED disk
        \/ /\ field \in FileFields
           /\ up' = FileHeader(up, field, NextId)
           /\ disk' = With(disk, NextId, << >>)
        \/ line # << >> /\ field \notin Names /\ UNCHANGED <<up, disk>>
  /\ Goto("parsing")
  /\ UNCHANGED <<req, state, failed, putLen, kept>>

\* The end of a turn in state DATA.
NextTurn(rest) == Goto(IF Len(rest) < boundaryLen THEN "eof" ELSE "parsing")

\* writeToFile: data go to the temporary file, if there is room.
FileHasRoom(data) == Len(disk[up.current]) + Len(data) <= FileMax
WriteToFile(data) == disk' = [disk EXCEPT ![up.upfd] = @ \o data]

UploadDataWaits ==
  /\ Uploading("data") /\ Len(input) < boundaryLen
  /\ Goto("eof")
  /\ UNCHANGED <<req, state, failed, buffers, files>>

\* A file goes on.
UploadData ==
  /\ Uploading("data") /\ Len(input) >= boundaryLen /\ ~PartEnds(up, input)
  /\ LET data == Take(input, Held(input))
     IN /\ FileHasRoom(data)
        /\ WriteToFile(data) /\ ConsumeInput(Len(data))
        /\ NextTurn(Drop(input, Len(data)))
  /\ UNCHANGED <<req, state, failed, putLen, up, kept, lineLost>>

NameKnown(data) == data = << >> \/ up.isFile \/ up.var # NoName

\* What is consumed was all that input had, and began at the start of its
\* buffer, as a first line does.
Cleared(data) == At("upload") /\ data = input

\* A part ends: a file is copied to UPLOAD_DIR under its own name.
UploadPart ==
  /\ Uploading("data") /\ Len(input) >= boundaryLen /\ PartEnds(up, input)
  /\ LET data == Take(input, PartLen(input))
     IN /\ NameKnown(data)
        /\ IF up.isFile
           THEN FileHasRoom(WithoutCRLF(data)) /\ WriteToFile(WithoutCRLF(data))
           ELSE UNCHANGED disk
        /\ up' = Closed(Entered(up, data, Cleared(data)))
        /\ ConsumeInput(Len(data))
        /\ NextTurn(Drop(input, Len(data)))
  /\ kept' = IF up.isFile THEN Keep(up.var, disk'[up.current]) ELSE kept
  /\ UNCHANGED <<req, state, failed, putLen, lineLost>>

\* websDecodeUrl of a variable that has no name reads from address 0.
UploadCrash ==
  /\ Uploading("data") /\ Len(input) >= boundaryLen /\ PartEnds(up, input)
  /\ ~NameKnown(Take(input, PartLen(input)))
  /\ Goto("crashed")
  /\ UNCHANGED <<req, state, failed, buffers, files>>

\* writeToFile fails: the last bytes of a part are consumed, others are not.
UploadFails ==
  /\ Uploading("data") /\ Len(input) >= boundaryLen /\ up.isFile
  /\ LET last == PartEnds(up, input)
         n == IF last THEN PartLen(input) ELSE Held(input)
         data == IF last THEN WithoutCRLF(Take(input, n)) ELSE Take(input, n)
     IN /\ n > 0
        /\ ~FileHasRoom(data) \/ (Fails /\ data # << >>)
        /\ ConsumeInput(IF last THEN n ELSE 0)
  /\ Fail("write") /\ Goto("eof")
  /\ UNCHANGED <<req, files>>

(***************************************************************************)
(* The handler has the body; afterwards the request is freed or reused.    *)
(***************************************************************************)

\* A route or a handler may refuse it by websError (401, 404, 405).
Handled ==
  /\ At("handler")
  /\ UNCHANGED failed \/ Failed("refused")
  /\ TermWebs(failed')

Filter ==
  Filtered \/ FilterPlain \/ FilterWaits \/ FilterBad \/ FilterStart \/ FilterData
Consume == ConsumeForm \/ ConsumePut \/ RefusePut \/ ConsumeUpload \/ TestEof
Parse ==
  \/ UploadWaits \/ UploadInit \/ UploadBoundary \/ UploadHeader
  \/ UploadDataWaits \/ UploadData \/ UploadPart \/ UploadCrash \/ UploadFails

Thread == Filter \/ Consume \/ Parse \/ Handled

Next == Thread \/ Read \/ Complete \/ Gone

Spec == Init /\ [][Next]_vars

\* The thread does not stop inside a call; what has been sent arrives, and
\* a reply is read.
FairSpec == Spec /\ WF_vars(Thread) /\ WF_vars(Read) /\ WF_vars(Complete)

(***************************************************************************)
(* Properties.                                                             *)
(***************************************************************************)

\* What filterChunkData gives to input is the body, in order, whatever the
\* cuts: nothing is refused that a client may send, malformed chunks never
\* end well, the last byte is seen when it is there, and the next request is
\* left where it is.
FilterExact ==
  /\ IsPrefix(got, req.body)
  /\ failed = "chunk" => req.malformed
  /\ chunk.eof => ~req.malformed /\ got = req.body /\ rxbuf \o wire = req.next

\* A handler is only called with the whole body: a form in input, a PUT in
\* its temporary file (websProcessPutData consumes what it has written).
HandlerHasBody ==
  At("handler") /\ failed = "no" =>
    /\ req.consumer = "form" => input = req.body
    /\ req.consumer = "put" => disk[PutFile] = req.body

PartIs(f, contents) ==
  IF f \in Fields THEN up.vars[f] \in contents
  ELSE up.files[f] # 0 /\ disk[up.files[f]] \in contents

\* A form that arrives at once is parsed as it was meant: every field has
\* its content, every file its bytes, no line end more or less.
WholeFormExact ==
  At("handler") /\ req.consumer = "upload" /\ reads = 1 =>
    /\ failed # "boundary"
    /\ failed = "no" => \A f \in DOMAIN req.parts : PartIs(f, {req.parts[f]})

LineEndBehind(s) == s \o <<"cr", "lf">>
Extended(s) == {s, LineEndBehind(s)}

\* However a form is cut, unless a line was lost, a field never gets bytes
\* of another part: a file has its content and at most the line end behind
\* it, a variable the start of its content, line end and boundary
\* (processContentData: what may be a boundary is held back, in a file), and
\* so does a file in UPLOAD_DIR, unless a write has failed.
PartsBounded ==
  req.consumer = "upload" /\ ~lineLost => \A f \in DOMAIN req.parts :
    IF f \in Fields
    THEN PartIs(f, Prefixes(LineEndBehind(req.parts[f]) \o Boundary))
    ELSE /\ up.files[f] # 0 => PartIs(f, Extended(req.parts[f]))
         /\ failed = "no" /\ f \in DOMAIN kept => kept[f] \in Extended(req.parts[f])

\* Whatever happens to a request, none of the temporary files of an upload is
\* left behind (websFreeUpload), when the form has one file.  The file of a
\* PUT takes the place of its document when the whole body has come and no
\* error was met (termWebs); after an error the document is as it was, and
\* the temporary file, which nothing unlinks, is all that may stay.
FilesSettled ==
  At("freed") =>
    IF req.consumer # "put" THEN DOMAIN disk = {}
    ELSE IF failed = "no"
    THEN DOMAIN disk = {} /\ DOMAIN kept = {PutName} /\ kept[PutName] = req.body
    ELSE DOMAIN disk \subseteq {PutFile} /\ DOMAIN kept = {}

\* A body that has been sent gets to its handler, or its request ends, or a
\* lost name has ended the server (NamesKnown).
BodyEnds == <>(pc \in {"handler", "freed", "crashed"})

(***************************************************************************)
(* What the comments of the code say, and it does not do.                  *)
(***************************************************************************)

\* assert(decoded) (http.c:2219): websDecodeUrl is given a name.
NamesKnown == pc # "crashed"
=============================================================================
