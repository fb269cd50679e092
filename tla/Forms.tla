------------------------------- MODULE Forms -------------------------------
(***************************************************************************)
(* Multipart forms as clients send them: a line with the boundary before   *)
(* each part; a header, of one line that names the field, other lines and  *)
(* an empty one; the content, which has no boundary in it; and a closing   *)
(* boundary.  A request tells the places where these begin.                *)
(***************************************************************************)
EXTENDS RxBody

\* A place: the bytes of the body before it, what begins there, the field
\* whose header or content it is in, and the fields that are still to come.
Place(at, kind, field, left) ==
  [at |-> at, kind |-> kind, field |-> field, left |-> left]

\* What stands at the place p of the form r, and the place behind it.
Follows(r, p) ==
  LET s == Drop(r.body, p.at)
      Then(n, kind, field, left) == Place(p.at + n, kind, field, left) \in r.places
      n == getBoundary(s) - 1     \* the end of a part
  IN \/ /\ p.kind = "boundary" /\ p.field = NoName
        /\ \/ IsPrefix(LineEndBehind(Boundary), s)
              /\ Then(boundaryLen + 2, "header", NoName, p.left)
           \/ IsPrefix(LineEndBehind(Append(Boundary, "--")), s) /\ p.left = {}
     \/ /\ p.kind = "header"
        /\ \/ IsPrefix(<<"cr", "lf">>, s) /\ p.field # NoName
              /\ Then(2, "data", p.field, p.left)
           \/ \E f \in p.left :
                /\ IsPrefix(<<f, "cr", "lf">>, s) /\ p.field = NoName
                /\ Then(3, "header", f, p.left \ {f})
           \/ LineEnd(s) > 1 /\ s[1] \notin Names \cup {"cr"}
              /\ Then(LineEnd(s), "header", p.field, p.left)
     \/ /\ p.kind = "data"
        /\ n >= 2 /\ SubSeq(s, n - 1, n) = <<"cr", "lf">>
        /\ r.parts[p.field] = Take(s, n - 2)
        /\ Then(n, "boundary", NoName, p.left)

Form(r) ==
  /\ DOMAIN r.parts # {}
  /\ Place(0, "boundary", NoName, DOMAIN r.parts) \in r.places
  /\ \A p \in r.places : /\ p.at \in 0 .. Len(r.body) /\ p.left \subseteq DOMAIN r.parts
                         /\ Follows(r, p)
  /\ \A i \in BoundariesIn(r.body) :
       \E p \in r.places : p.kind = "boundary" /\ p.at = i - 1

FormsSent == \A r \in Requests : r.consumer = "upload" => Form(r)

\* A form has one file: its field is named once.
OneFile ==
  \A r \in Requests : \A p, q \in 1 .. Len(r.body) :
    r.body[p] \in FileFields /\ r.body[q] \in FileFields => p = q
=============================================================================
