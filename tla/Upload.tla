------------------------------- MODULE Upload -------------------------------
(***************************************************************************)
(* The upload filter (upload.c): what one turn of the loop of              *)
(* websProcessUploadData does to the input buffer, the parts of the form   *)
(* and the temporary files.  Bytes are symbols; what a header line or the  *)
(* mark behind a closing boundary says is one symbol.                      *)
(***************************************************************************)
EXTENDS Integers, SequencesExt

CONSTANTS
  Boundary,     \* wp->boundary, a sequence of different symbols
  Fields,       \* symbols of Content-Disposition lines of form variables
  FileFields,   \* the same of files; each field has a name of its own
  FileMax       \* BIT_GOAHEAD_LIMIT_UPLOAD

ASSUME UploadAssumption ==
  /\ Boundary \in Seq(Range(Boundary)) /\ Len(Boundary) > 0 /\ FileMax \in Nat
  /\ Fields \cap FileFields = {} /\ \A b \in Fields \cup FileFields : b # ""
  /\ {"cr", "lf"} \cap (Range(Boundary) \cup Fields \cup FileFields) = {}

boundaryLen == Len(Boundary)
Names == Fields \cup FileFields
NoName == ""

\* The parts of a request: uploadState, uploadVar, clientFilename (a file is
\* being received), upfd, currentFile, files and the form variables.
\* Temporary files are numbered in the order of their creation; 0 is none.
NoParts == [
  state   |-> "start",
  var     |-> NoName,
  isFile  |-> FALSE,
  upfd    |-> 0,
  current |-> 0,
  files   |-> [f \in FileFields |-> 0],
  vars    |-> [f \in Names |-> << >>] ]

PartsType(Ids, Bytes) == [
  state   : {"start", "boundary", "header", "data", "end"},
  var     : Names \cup {NoName},
  isFile  : BOOLEAN,
  upfd    : Ids \cup {0},
  current : Ids \cup {0},
  files   : [FileFields -> Ids \cup {0}],
  vars    : [Names -> Seq(Bytes)] ]

\* s without its first n symbols.
Drop(s, n) == SubSeq(s, n + 1, Len(s))
Take(s, n) == SubSeq(s, 1, n)

\* The end of the first line of s, 0 if it has not arrived; a line, trimmed.
LineEnd(s) == SelectInSeq(s, LAMBDA b : b = "lf")
Trimmed(line) == Take(line, SelectLastInSeq(line, LAMBDA b : b # "cr"))
LineSent(s) == Trimmed(Take(s, LineEnd(s) - 1))

\* A line is read in place, after it has been consumed.  When it was all that
\* input had, bufReset clears input's first byte: that of the first line of a
\* call, which begins there.
Line(s, first) ==
  IF first /\ LineEnd(s) = Len(s) THEN << >> ELSE LineSent(s)

\* getBoundary: where the first boundary of s begins, 0 if there is none.
BoundariesIn(s) ==
  {i \in 1 .. Len(s) - boundaryLen + 1 : IsPrefix(Boundary, Drop(s, i - 1))}
getBoundary(s) ==
  IF BoundariesIn(s) = {} THEN 0
  ELSE CHOOSE i \in BoundariesIn(s) : \A j \in BoundariesIn(s) : i <= j

\* processContentBoundary, unless the line is not a boundary.
processContentBoundary(u, line) ==
  [u EXCEPT !.state = IF Drop(line, boundaryLen) = <<"--">> THEN "end" ELSE "header"]

\* processUploadHeader: the name of a form variable; of a file, which gets a
\* temporary file; the end of the header; other lines.
VarHeader(u, field) == [u EXCEPT !.var = field, !.isFile = FALSE]
FileHeader(u, field, id) ==
  [u EXCEPT !.var = field, !.isFile = TRUE, !.upfd = id, !.current = id]
HeaderEnds(u) == [u EXCEPT !.state = "data"]

(***************************************************************************)
(* processContentData, on input that has room for a boundary: how much of  *)
(* it is consumed, and which bytes of that are content.                    *)
(***************************************************************************)

\* No boundary in sight, in a file: what cannot be the start of one.
Held(s) == Len(s) - (boundaryLen - 1)

\* Mutated PartLen: takes the first byte of the boundary.
PartLenOneMore(s) ==
  IF getBoundary(s) > 0 THEN getBoundary(s) ELSE Len(s)

\* A boundary in sight, or a form variable.
PartEnds(u, s) == getBoundary(s) > 0 \/ ~u.isFile
PartLen(s) ==
  IF getBoundary(s) > 0 THEN getBoundary(s) - 1 ELSE Len(s)

\* Mutated WithoutCRLF: the line end before the boundary stays.
WithCRLF(data) == data

\* The CRLF before the boundary.
WithoutCRLF(data) ==
  IF IsSuffix(<<"cr", "lf">>, data) THEN Take(data, Len(data) - 2) ELSE data

\* What is entered when a part has ended: nothing if it has no bytes left.  A
\* variable is read in place, after it has been consumed, as a line is: if it
\* was all that input had, from its first byte, bufReset has cleared it.
Entered(u, data, cleared) ==
  IF data = << >> THEN u
  ELSE IF u.isFile THEN [u EXCEPT !.files[u.var] = u.current]
  ELSE [u EXCEPT !.vars[u.var] = IF cleared THEN << >> ELSE WithoutCRLF(data)]

\* Mutated Closed: currentFile is cleared with the other fields.
ClosedForgets(u) ==
  [u EXCEPT !.state = "boundary", !.isFile = FALSE,
            !.upfd = IF u.isFile THEN 0 ELSE @, !.current = 0]

Closed(u) ==
  [u EXCEPT !.state = "boundary", !.isFile = FALSE,
            !.upfd = IF u.isFile THEN 0 ELSE @]

\* websFreeUpload: the temporary files it unlinks.
Unlinked(u) == {u.files[f] : f \in FileFields} \cup {u.current}
=============================================================================
