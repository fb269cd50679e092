-------------------------------- MODULE Urls --------------------------------
(***************************************************************************)
(* The URLs of http.c.  A text is a sequence of characters, in which       *)
(* http:// and https:// are one character each.  websUrlParse works within *)
(* one buffer: a part of the URL is the place where it starts, and goes on *)
(* up to the next null.                                                    *)
(***************************************************************************)
EXTENDS Integers, Sequences, SequencesExt, FiniteSetsExt

NUL == "\\0"
NULL == <<"NULL">>
HTTP == "http://"
HTTPS == "https://"

HexDigits == <<"0", "1", "2", "3", "4", "5", "6", "7", "8", "9", "a", "b", "c", "d", "e", "f">>
HexValue == [c \in {HexDigits[i] : i \in 1 .. 16} |-> (CHOOSE i \in 1 .. 16 : HexDigits[i] = c) - 1]

\* Characters by their codes, of those that a code is given for.
CodeOf == 0 :> NUL @@ 35 :> "#" @@ 37 :> "%" @@ 38 :> "&" @@ 46 :> "." @@ 47 :> "/" @@ 61 :> "=" @@ 63 :> "?"
          @@ 97 :> "a" @@ 98 :> "b"
CharOf(n) == IF n \in DOMAIN CodeOf THEN CodeOf[n] ELSE "code"

\* The C string that starts at a place of a buffer, and where it ends.
EndOf(buf, p) == p + SelectInSeq(SubSeq(buf, p, Len(buf)) \o <<NUL>>, LAMBDA c : c = NUL) - 1
StringAt(buf, p) == SubSeq(buf, p, EndOf(buf, p) - 1)

\* strchr and strrchr from a place on: 0 if there is none.
FirstAt(buf, p, c) ==
  LET i == SelectInSeq(StringAt(buf, p), LAMBDA d : d = c) IN IF i = 0 THEN 0 ELSE p + i - 1
LastAt(buf, p, c) ==
  LET i == SelectLastInSeq(StringAt(buf, p), LAMBDA d : d = c) IN IF i = 0 THEN 0 ELSE p + i - 1

----------------------------------------------------------------------------
(* websDecodeUrl: the decoded text; len counts the characters of it. *)

IsCode(in) == Len(in) > 2 /\ in[1] = "%" /\ in[2] \in DOMAIN HexValue /\ in[3] \in DOMAIN HexValue
RECURSIVE Decode(_, _)
Decode(in, len) ==
  IF in = << >> \/ len = 0 THEN << >>
  ELSE IF in[1] = "+" THEN <<" ">> \o Decode(Tail(in), len - 1)
  ELSE IF IsCode(in)
    THEN <<CharOf(16 * HexValue[in[2]] + HexValue[in[3]])>> \o Decode(SubSeq(in, 4, Len(in)), len - 1)
  ELSE <<in[1]>> \o Decode(Tail(in), len - 1)
websDecodeUrl(input, len) == Decode(input, IF len < 0 THEN Len(input) ELSE len)

\* In place: a shorter text leaves the end of the old one behind its null.
DecodeAt(buf, p) ==
  LET old == StringAt(buf, p)
      new == websDecodeUrl(old, -1) \o <<NUL>>
  IN [i \in DOMAIN buf |-> IF i >= p /\ i < p + Len(new) THEN new[i - p + 1] ELSE buf[i]]

----------------------------------------------------------------------------
(* websUrlParse. *)

\* The scan for the host: a colon ends it and begins the port.  The character
\* behind a colon is not looked at.
RECURSIVE HostScan(_, _)
HostScan(u, cp) ==
  IF cp > Len(u.buf) \/ u.buf[cp] \in {NUL, "/"} THEN u
  ELSE IF u.buf[cp] = ":" THEN HostScan([u EXCEPT !.buf[cp] = NUL, !.portAt = cp + 1, !.tok = cp + 1], cp + 2)
  ELSE HostScan(u, cp + 1)

\* Whether path is the constant "/", which the routine must not write to.
Constant == 0

\* The host and the port stay in the buffer (hostAt, portAt), or are copied out
\* of it (host, port) if a path follows them.
Start(url) ==
  LET u == [buf |-> url \o <<NUL, NUL>>, tok |-> 1, path |-> 1, query |-> 0, reference |-> 0, ext |-> 0,
            host |-> <<"localhost">>, port |-> << >>, hostAt |-> 0, portAt |-> 0]
      h == HostScan([u EXCEPT !.buf = Tail(@) \o <<NUL>>, !.hostAt = 1], 1)
      slash == FirstAt(h.buf, h.tok, "/")
      copied(p) == StringAt([h.buf EXCEPT ![slash] = NUL], p)
  IN IF url = << >> \/ url[1] # HTTP THEN u
     ELSE IF slash = 0 THEN [h EXCEPT !.path = Constant]
     ELSE [h EXCEPT !.path = slash, !.tok = slash, !.host = copied(1), !.hostAt = 0, !.portAt = 0,
                    !.port = IF h.portAt = 0 THEN << >> ELSE copied(h.portAt)]

Query(u) ==
  LET q == FirstAt(u.buf, u.tok, "?")
  IN IF q = 0 THEN u
     ELSE [u EXCEPT !.buf[q] = NUL, !.query = q + 1, !.path = u.tok, !.tok = q + 1]

Fragment(u) ==
  LET r == FirstAt(u.buf, u.tok, "#")
      empty == u.query = 0 \/ r = u.query
  IN IF r = 0 THEN u
     ELSE [u EXCEPT !.buf[r] = NUL, !.reference = r + 1,
                    !.path = IF empty THEN u.tok ELSE @]

\* The extension: from the last dot on, if nothing but slashes follow its name.
Extension(u) ==
  LET dot == IF u.path = Constant THEN 0 ELSE LastAt(u.buf, u.path, ".")
      rest == StringAt(u.buf, dot)
      name == SelectInSeq(rest, LAMBDA c : c \in {"/", "\\"})
  IN IF dot = 0 THEN u
     ELSE IF name = 0 THEN [u EXCEPT !.ext = dot]
     ELSE IF \A i \in name .. Len(rest) : rest[i] \in {"/", "\\"}
       THEN [u EXCEPT !.ext = dot, !.buf[dot + name - 1] = NUL]
     ELSE u

\* What the caller gets.  fault: the constant path is decoded in its place.
websUrlParse(url) ==
  LET u == Extension(Fragment(Query(Start(url))))
      buf == IF u.path = Constant THEN u.buf ELSE DecodeAt(u.buf, u.path)
      text(p) == IF p = 0 THEN << >> ELSE StringAt(buf, p)
  IN [path |-> IF u.path = Constant THEN <<"/">> ELSE text(u.path), fault |-> u.path = Constant,
      ext |-> IF u.ext = 0 THEN NULL ELSE text(u.ext), query |-> text(u.query),
      reference |-> IF u.reference = 0 THEN NULL ELSE text(u.reference),
      host |-> IF u.hostAt = 0 THEN u.host ELSE text(u.hostAt),
      port |-> IF u.portAt = 0 THEN u.port ELSE text(u.portAt)]

----------------------------------------------------------------------------
(* websNormalizeUriPath. *)

\* The segments, which slashes that follow each other do not add to.
RECURSIVE Segments(_)
Segments(path) ==
  LET slash == SelectInSeq(path, LAMBDA c : c = "/")
      next == SelectInSeq(SubSeq(path, slash + 1, Len(path)), LAMBDA c : c # "/")
  IN IF slash = 0 THEN <<path>>
     ELSE <<SubSeq(path, 1, slash - 1)>>
          \o (IF next = 0 THEN <<<< >>>> ELSE Segments(SubSeq(path, slash + next, Len(path))))

\* Mutated Collapse: .. takes only itself away.
RECURSIVE CollapseOne(_, _, _)
CollapseOne(segments, i, j) ==
  LET s == segments[i]
  IN IF i > Len(segments) THEN SubSeq(segments, 1, j - 1)
     ELSE IF s \in {<<".">>, <<".", ".">>} THEN CollapseOne(segments, i + 1, j)
     ELSE CollapseOne([segments EXCEPT ![j] = s], i + 1, j + 1)

\* The segments are moved down in their array; one that starts with a dot and
\* is none of the two special ones is left where it is.  Indices from 1.
RECURSIVE Collapse(_, _, _)
Collapse(segments, i, j) ==
  LET s == segments[i]
      last == i = Len(segments)
  IN IF i > Len(segments) THEN SubSeq(segments, 1, j - 1)
     ELSE IF s = <<".">> THEN
       IF last THEN Collapse([segments EXCEPT ![j] = << >>], i + 1, j + 1)
       ELSE Collapse(segments, i + 1, j)
     ELSE IF s = <<".", ".">> THEN
       IF i = 2 /\ segments[1] = << >> THEN Collapse(segments, i + 1, 2)
       ELSE IF last THEN
         Collapse(IF j > 1 THEN [segments EXCEPT ![j - 1] = << >>] ELSE segments, i + 1, j)
       ELSE Collapse(segments, i + 1, Max({j - 1, 1}))
     ELSE IF s # << >> /\ s[1] = "." THEN Collapse(segments, i + 1, j + 1)
     ELSE Collapse([segments EXCEPT ![j] = s], i + 1, j + 1)

\* A path that is not absolute, or has a backslash, is refused (NULL).
websNormalizeUriPath(pathArg) ==
  LET kept == Collapse(Segments(pathArg), 1, 1)
      joined == FlattenSeq([i \in DOMAIN kept |-> IF i < Len(kept) THEN kept[i] \o <<"/">> ELSE kept[i]])
      path == IF kept = <<<< >>>> /\ pathArg[1] = "/" THEN <<"/">> ELSE joined
  IN IF pathArg = << >> THEN << >>
     ELSE IF path = << >> \/ path[1] # "/" \/ "\\" \in ToSet(path) THEN NULL ELSE path
=============================================================================
