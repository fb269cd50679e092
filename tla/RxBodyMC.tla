------------------------------ MODULE RxBodyMC ------------------------------
(***************************************************************************)
(* Requests for TLC: forms, files by PUT and uploads, each with and        *)
(* without chunks, with the first byte of the next request behind them.    *)
(***************************************************************************)
EXTENDS Forms

MCBoundary == <<"b1", "b2", "b3">>
MCHexOf == [d0 |-> 0, d1 |-> 1, d4 |-> 4]

CrLf == <<"cr", "lf">>
NextRequest == <<"G">>

Plain(consumer, body, parts, places) ==
  [consumer |-> consumer, chunked |-> FALSE, wire |-> body \o NextRequest,
   body |-> body, next |-> NextRequest, chunks |-> {}, parts |-> parts,
   places |-> places, malformed |-> FALSE]

\* The body in two chunks, of one byte and of four.
Chunked(consumer, body) ==
  [consumer |-> consumer, chunked |-> TRUE, body |-> body, next |-> NextRequest,
   chunks |-> {<<0, 0>>, <<6, 1>>, <<16, 5>>}, parts |-> << >>, places |-> {},
   malformed |-> FALSE,
   wire |-> CrLf \o <<"d1">> \o CrLf \o Take(body, 1)
            \o CrLf \o <<"d4", "x">> \o CrLf \o Drop(body, 1)
            \o CrLf \o <<"d0">> \o CrLf \o CrLf \o NextRequest]

Bytes5 == <<"x", "cr", "lf", "x", "lf">>

Part(field, content) == MCBoundary \o CrLf \o <<field>> \o CrLf \o CrLf \o content \o CrLf
\* Its places, when it begins behind at bytes and the fields left follow.
PartAt(at, field, left) ==
  {Place(at, "boundary", NoName, {field} \cup left),
   Place(at + 5, "header", NoName, {field} \cup left),
   Place(at + 8, "header", field, left), Place(at + 10, "data", field, left)}
End == MCBoundary \o <<"--">> \o CrLf

\* A variable and a file; the file's data look like the start of a boundary.
VarAndFile ==
  Plain("upload",
        Part("name", <<"x", "x">>) \o Part("file", <<"x", "b1", "b2", "x">>) \o End,
        [name |-> <<"x", "x">>, file |-> <<"x", "b1", "b2", "x">>],
        PartAt(0, "name", {"file"}) \cup PartAt(14, "file", {})
          \cup {Place(30, "boundary", NoName, {})})

\* A file that has no bytes, with a Content-Type, and a variable behind it.
EmptyFile ==
  Plain("upload",
        MCBoundary \o CrLf \o <<"file">> \o CrLf \o <<"type">> \o CrLf \o CrLf \o CrLf
          \o Part("name", <<"x">>) \o End,
        [name |-> <<"x">>, file |-> << >>],
        {Place(0, "boundary", NoName, {"name", "file"}),
         Place(5, "header", NoName, {"name", "file"}), Place(8, "header", "file", {"name"}),
         Place(11, "header", "file", {"name"}), Place(13, "data", "file", {"name"})}
          \cup PartAt(15, "name", {}) \cup {Place(28, "boundary", NoName, {})})

\* One byte in a chunk, and then what is no chunk: another byte, a line that
\* is too long, a last chunk with a trailer.
Malformed(rest) ==
  [consumer |-> "form", chunked |-> TRUE, body |-> <<"x", "x">>, next |-> << >>,
   chunks |-> {<<0, 0>>, <<6, 1>>}, parts |-> << >>, places |-> {},
   malformed |-> TRUE,
   wire |-> CrLf \o <<"d1">> \o CrLf \o <<"x">> \o rest]

NoChunks ==
  {<<"x">> \o CrLf \o <<"d1">> \o CrLf,
   CrLf \o <<"d4", "x", "x", "x", "x", "x">>,
   CrLf \o <<"d0">> \o CrLf \o <<"x">> \o CrLf}

MCRequests ==
  {Plain(c, Bytes5, << >>, {}) : c \in {"form", "put"}}
  \cup {Chunked(c, Bytes5) : c \in {"form", "put"}}
  \cup {VarAndFile, EmptyFile}
  \cup {Malformed(rest) : rest \in NoChunks}

ASSUME FormsAssumption == FormsSent /\ OneFile
=============================================================================
