------------------------------ MODULE UrlForms ------------------------------
(***************************************************************************)
(* What the routines of Urls promise: a URL that is put together from its  *)
(* parts [host, port, segments, query, reference] comes apart in the same  *)
(* parts, and a normalised path names the same place with no detour.       *)
(***************************************************************************)
EXTENDS Urls

EncodeOf == "%" :> <<"%", "2", "5">> @@ "?" :> <<"%", "3", "f">> @@ "#" :> <<"%", "2", "3">>
            @@ " " :> <<"+">> @@ "&" :> <<"%", "2", "6">> @@ "=" :> <<"%", "3", "d">>
Encode(text) == FlattenSeq([i \in DOMAIN text |-> IF text[i] \in DOMAIN EncodeOf THEN EncodeOf[text[i]]
                                                  ELSE <<text[i]>>])
PathOf(segments) == FlattenSeq([i \in DOMAIN segments |-> <<"/">> \o segments[i]])

WriteUrl(u) ==
  (IF u.host = << >> THEN << >>
   ELSE <<HTTP>> \o u.host \o (IF u.port = << >> THEN << >> ELSE <<":">> \o u.port))
  \o Encode(PathOf(u.segments))
  \o (IF u.query = << >> THEN << >> ELSE <<"?">> \o u.query)
  \o (IF u.reference = NULL THEN << >> ELSE <<"#">> \o u.reference)

\* The extension: from the last dot of the last name on.  A slash behind such
\* a name is dropped.
Named(segments) == SelectSeq(segments, LAMBDA s : s # << >>)
HasExt(segments) == Named(segments) # << >> /\ "." \in ToSet(Last(Named(segments)))
ExtOf(segments) ==
  LET name == Last(Named(segments))
  IN IF HasExt(segments) THEN SubSeq(name, SelectLastInSeq(name, LAMBDA c : c = "."), Len(name)) ELSE NULL
Kept(segments) ==
  LET last == SelectLastInSeq(segments, LAMBDA s : s # << >>)
  IN IF HasExt(segments) THEN SubSeq(segments, 1, last) ELSE segments

\* Left out: a fragment without a query but with a question mark (which is
\* taken for the query's), and one behind an empty query.  The extension is
\* compared when nothing is encoded before it (see README).
ParsesAs(out, u) ==
  LET path == PathOf(u.segments)
  IN /\ ~ out.fault
     /\ out.path = PathOf(Kept(u.segments))
     /\ out.query = u.query /\ out.reference = u.reference
     /\ out.host = IF u.host = << >> THEN <<"localhost">> ELSE u.host
     /\ out.port = u.port
     /\ Len(Encode(path)) = Len(path) => out.ext = ExtOf(u.segments)

----------------------------------------------------------------------------
(* Paths. *)

Dot == <<".">>
DotDot == <<".", ".">>

\* Where a path leads, one name per directory; and whether it leaves the root
\* on its way, but at its very start.
Walk(segments) ==
  FoldLeft(LAMBDA at, s : IF s = DotDot THEN (IF at = << >> THEN at ELSE Front(at))
                          ELSE IF s \in {Dot, << >>} THEN at ELSE Append(at, s),
           << >>, segments)
Leaves(segments) ==
  \E i \in DOMAIN segments : segments[i] = DotDot /\ i > 1 /\ Walk(SubSeq(segments, 1, i - 1)) = << >>
Clean(segments) ==
  LET at == Walk(segments)
  IN IF at = << >> THEN <<"/">>
     ELSE PathOf(at) \o (IF Last(segments) \in {Dot, DotDot, << >>} THEN <<"/">> ELSE << >>)

\* Left out: names that start with a dot behind a segment that is taken away.
DotNames(segments) == {i \in DOMAIN segments :
                         segments[i] \notin {Dot, DotDot, << >>} /\ segments[i][1] = "."}
Normalisable(segments) ==
  \A i \in DotNames(segments) : \A j \in 1 .. (i - 1) : segments[j] \notin {Dot, DotDot}

\* A path that leaves the root is refused, or taken to stop there.
NormalAs(out, segments) ==
  /\ out # NULL => out = Clean(segments)
  /\ ~ Leaves(segments) => out # NULL
=============================================================================
