---------------------------- MODULE RxBody_proofs ----------------------------
(***************************************************************************)
(* Theorems about the body of a request, for every set of requests that    *)
(* RxAssumption allows, every size of the buffers and every way the        *)
(* network cuts the stream.  The invariant follows the filter through the  *)
(* wire: what is left of it, how much of the body has been given to input, *)
(* and, with chunks, that the next head or the rest of the current chunk   *)
(* is where the request says.  For a form it follows the parser too, from  *)
(* place to place of the form.                                             *)
(***************************************************************************)
EXTENDS Forms, FiniteSetTheorems, WellFoundedInduction, TLAPS

(***************************************************************************)
(* The invariant.                                                          *)
(***************************************************************************)

\* What the filter has not taken yet, and where in the wire it begins.
rest == rxbuf \o wire
position == Len(req.wire) - Len(rest)

\* The buffers are cut from the wire and from the body.
Cut ==
  /\ rest = Drop(req.wire, position) /\ position \in 0 .. Len(req.wire)
  /\ Len(got) <= Len(req.body) /\ \A i \in 1 .. Len(got) : got[i] = req.body[i]
  /\ Len(input) <= Len(got)
  /\ \A i \in 1 .. Len(input) : input[i] = got[Len(got) - Len(input) + i]

\* Without chunks: the filter counts down the Content-Length.
PlainInv ==
  /\ chunk.state = "plain"
  /\ position = Len(got) /\ chunk.remaining = Len(req.body) - Len(got)
  /\ chunk.eof => chunk.remaining = 0

\* The next n bytes of wire are those of body.
Continues(n) ==
  /\ \A i \in 1 .. n : position + i <= Len(req.wire) =>
       /\ Len(got) + i <= Len(req.body)
       /\ req.wire[position + i] = req.body[Len(got) + i]
  /\ position + n <= Len(req.wire) =>
       <<position + n, Len(got) + n>> \in req.chunks

\* With chunks.
ChunkInv ==
  /\ chunk.state \in {"start", "data"}
  /\ Len(input) <= InputMax
  /\ IF chunk.eof
     THEN /\ ~req.malformed /\ chunk.state = "start"
          /\ Len(got) = Len(req.body) /\ rest = req.next
          /\ pc \in {"select", "filter"} => failed # "no"
     ELSE /\ chunk.state = "start" => <<position, Len(got)>> \in req.chunks
          /\ chunk.state = "data" =>
               chunk.remaining > 0 /\ Continues(chunk.remaining)
  /\ failed = "chunk" => req.malformed

\* What the consumers have.
BodyInv ==
  /\ pc = "handler" => chunk.eof
  /\ req.consumer = "form" => input = got
  /\ req.consumer = "put" =>
       /\ pc # "freed" => DOMAIN disk = {PutFile}
       /\ pc # "freed" /\ failed = "no" => disk[PutFile] \o input = got
       /\ pc \in {"eof", "handler"} /\ failed = "no" => input = << >>

\* The part that is being received, and its file.
UpInv ==
  /\ IsFiniteSet(DOMAIN disk)
  /\ up.isFile => up.upfd = up.current /\ up.current \in DOMAIN disk /\ up.var \in FileFields
  /\ InUpload => req.consumer = "upload"

StreamInv == IF req.chunked THEN ChunkInv ELSE PlainInv /\ failed # "chunk"

RxInv == TypeOK /\ Cut /\ BodyInv /\ UpInv /\ StreamInv

\* When a form has one file, it is on disk, from its header until the request is freed.
LitterInv ==
  /\ pc = "freed" /\ (req.consumer = "put" => failed = "no") => DOMAIN disk = {}
  /\ req.consumer = "put" => DOMAIN disk \subseteq {PutFile}
  /\ req.consumer # "upload" => up = NoParts
  /\ req.consumer = "form" => DOMAIN disk = {}
  /\ req.consumer = "upload" /\ pc # "freed" =>
       /\ DOMAIN disk = {up.current} \ {0}
       /\ up.current # 0 =>
            \A p \in Len(got) - Len(input) + 1 .. Len(req.body) :
              req.body[p] \notin FileFields

\* A document is only replaced by a whole body, when there was no error.
KeptInv ==
  req.consumer = "put" =>
    IF pc = "freed" /\ failed = "no"
    THEN DOMAIN kept = {PutName} /\ kept[PutName] = req.body
    ELSE DOMAIN kept = {}

(***************************************************************************)
(* Lines and pieces of sequences.                                          *)
(***************************************************************************)

LEMMA LeastIn ==
  ASSUME NEW T \in SUBSET Nat, T # {}
  PROVE  Min(T) \in T /\ \A y \in T : Min(T) <= y
<1>1. PICK x \in T : \A y \in T : ~(<<y, x>> \in OpToRel(<, Nat))
  BY NatLessThanWellFounded, WFMin
<1>2. \A y \in T : ~(y < x)
  BY <1>1, Zenon DEF OpToRel
<1>3. \A y \in T : x <= y
  BY <1>2
<1>4. QED BY <1>3 DEF Min

\* The line feed that ends the line of a chunk's size.
LEMMA ChunkLineIs ==
  ASSUME NEW S, NEW s \in Seq(S)
  PROVE  LET n == ChunkLine(s)
         IN \/ n = 0 /\ \A i \in 3 .. Len(s) : s[i] # "lf"
            \/ /\ n \in 3 .. Len(s) /\ s[n] = "lf"
               /\ \A i \in 3 .. n - 1 : s[i] # "lf"
<1> DEFINE T == {i \in 3 .. Len(s) : s[i] = "lf"}
<1>1. ChunkLine(s) = IF T # {} THEN Min(T) ELSE 0
  BY DEF ChunkLine, SelectInSubSeq
<1>2. T \in SUBSET Nat /\ Len(s) \in Nat
  OBVIOUS
<1>3. CASE T = {}
  BY <1>1, <1>2, <1>3
<1>4. CASE T # {}
  <2>1. Min(T) \in T /\ \A y \in T : Min(T) <= y
    BY <1>2, <1>4, LeastIn
  <2> DEFINE n == ChunkLine(s)
  <2>2. n \in T /\ \A y \in T : n <= y
    BY <1>1, <1>4, <2>1
  <2> HIDE DEF n
  <2>3. n \in 3 .. Len(s) /\ s[n] = "lf"
    BY <2>2
  <2>4. \A i \in 3 .. n - 1 : i \in 3 .. Len(s)
    BY <1>2, <2>3
  <2>5. \A i \in 3 .. n - 1 : s[i] # "lf"
    BY <2>2, <2>3, <2>4
  <2>6. QED BY <2>3, <2>5 DEF n
<1>5. QED BY <1>3, <1>4

\* The first line in input.
LEMMA LineEndIs ==
  ASSUME NEW S, NEW s \in Seq(S)
  PROVE  LineEnd(s) \in 0 .. Len(s)
<1> DEFINE T == {i \in 1 .. Len(s) : s[i] = "lf"}
<1>1. LineEnd(s) = IF T # {} THEN Min(T) ELSE 0
  BY DEF LineEnd, SelectInSeq
<1>2. T \in SUBSET Nat /\ Len(s) \in Nat
  OBVIOUS
<1>3. CASE T = {}
  BY <1>1, <1>2, <1>3
<1>4. CASE T # {}
  <2>1. Min(T) \in T
    BY <1>2, <1>4, LeastIn
  <2>2. QED BY <1>1, <1>2, <1>4, <2>1
<1>5. QED BY <1>3, <1>4

\* What has arrived, t, of what follows.
LEMMA PrefixIs ==
  ASSUME NEW S, NEW t \in Seq(S), NEW u \in Seq(S)
  PROVE  /\ t \o u \in Seq(S) /\ Len(t \o u) = Len(t) + Len(u)
         /\ Len(t) \in Nat /\ Len(u) \in Nat
         /\ \A i \in 1 .. Len(t) : (t \o u)[i] = t[i]
         /\ \A i \in 1 .. Len(u) : (t \o u)[Len(t) + i] = u[i]
<1>1. t \o u \in Seq(S) /\ Len(t \o u) = Len(t) + Len(u)
  OBVIOUS
<1>2. Len(t) \in Nat /\ Len(u) \in Nat
  OBVIOUS
<1>3. ASSUME NEW i \in 1 .. Len(t) PROVE (t \o u)[i] = t[i]
  OBVIOUS
<1>4. ASSUME NEW i \in 1 .. Len(u) PROVE (t \o u)[Len(t) + i] = u[i]
  OBVIOUS
<1>5. QED BY <1>1, <1>2, <1>3, <1>4

\* A chunk whose head is not too long is read as soon as its head is there.
LEMMA HeadRead ==
  ASSUME NEW S, NEW t \in Seq(S), NEW u \in Seq(S), NEW n,
         ChunkHead(t \o u, n), n <= LineMax, ~ChunkWaits(t),
         HexOf[(t \o u)[3]] = 0 => EmptyLine(t \o u, n)
  PROVE  /\ GoodChunk(t) /\ ChunkLine(t) = n /\ (t \o u)[3] = t[3]
         /\ n \in 5 .. Len(t) /\ HexOf[t[3]] \in Nat
         /\ HexOf[t[3]] = 0 => n + 2 <= Len(t)
<1> DEFINE s == t \o u
           m == ChunkLine(t)
<1>1. /\ Len(t) \in Nat /\ Len(s) = Len(t) + Len(u)
      /\ \A i \in 1 .. Len(t) : s[i] = t[i]
  BY PrefixIs
<1>2. /\ n \in 5 .. Len(s) /\ s[1] = "cr" /\ s[2] = "lf"
      /\ s[3] \in DOMAIN HexOf /\ s[n - 1] = "cr" /\ s[n] = "lf"
      /\ \A i \in 3 .. n - 1 : s[i] # "lf"
  BY DEF ChunkHead
<1>3. /\ Len(t) >= 5
      /\ m = 0 => Len(t) >= LineMax
      /\ LastHead(t) => m + 1 < Len(t)
  <2>1. m \in Nat
    BY ChunkLineIs, <1>1
  <2>2. QED BY <1>1, <2>1, RxAssumption DEF ChunkWaits
<1>4. LineMax \in Nat /\ \A d \in DOMAIN HexOf : HexOf[d] \in Nat
  BY RxAssumption
<1>5. \/ m = 0 /\ \A i \in 3 .. Len(t) : t[i] # "lf"
      \/ m \in 3 .. Len(t) /\ t[m] = "lf" /\ \A i \in 3 .. m - 1 : t[i] # "lf"
  BY ChunkLineIs
<1>6. HexOf[s[3]] = 0 => s[n + 1] = "cr" /\ s[n + 2] = "lf"
  BY DEF EmptyLine
<1> HIDE DEF s, m
<1>7. n \in Nat /\ n >= 5 /\ n <= LineMax
  BY <1>2
<1>8. m # 0
  <2>1. SUFFICES ASSUME m = 0 PROVE FALSE
    OBVIOUS
  <2>2. n \in 3 .. Len(t) /\ n \in 1 .. Len(t)
    BY <1>1, <1>3, <1>4, <1>7, <2>1
  <2>3. t[n] = "lf"
    BY <1>1, <1>2, <2>2
  <2>4. QED BY <1>5, <2>1, <2>2, <2>3
<1>9. m = n
  <2>1. m \in 3 .. Len(t) /\ m \in 1 .. Len(t)
    BY <1>1, <1>5, <1>8
  <2>2. s[m] = "lf"
    BY <1>1, <1>5, <1>8, <2>1
  <2>3. m >= n
    BY <1>2, <1>7, <2>1, <2>2
  <2>4. ~(m > n)
    <3>1. SUFFICES ASSUME m > n PROVE FALSE
      OBVIOUS
    <3>2. n \in 3 .. m - 1 /\ n \in 1 .. Len(t)
      BY <1>1, <1>7, <2>1, <3>1
    <3>3. t[n] = "lf"
      BY <1>1, <1>2, <3>2
    <3>4. QED BY <1>5, <1>8, <3>2, <3>3
  <2>5. QED BY <1>7, <2>1, <2>3, <2>4
<1>10. n <= Len(t) /\ n - 1 \in 1 .. Len(t) /\ {1, 2, 3, n} \subseteq 1 .. Len(t)
  BY <1>1, <1>5, <1>7, <1>8, <1>9
<1>11. GoodHead(t)
  BY <1>1, <1>2, <1>7, <1>9, <1>10 DEF GoodHead, m
<1>12. s[3] = t[3] /\ HexOf[t[3]] \in Nat
  BY <1>1, <1>2, <1>4, <1>10
<1>13. HexOf[t[3]] = 0 =>
         /\ n + 2 <= Len(t)
         /\ t[n + 1] = "cr" /\ t[n + 2] = "lf"
  <2>1. SUFFICES ASSUME HexOf[t[3]] = 0
                 PROVE  /\ n + 2 <= Len(t)
                        /\ t[n + 1] = "cr" /\ t[n + 2] = "lf"
    OBVIOUS
  <2>2. n + 1 < Len(t)
    BY <1>3, <1>9, <1>11, <2>1 DEF LastHead
  <2>3. n + 1 \in 1 .. Len(t) /\ n + 2 \in 1 .. Len(t)
    BY <1>1, <1>7, <2>2
  <2>4. QED BY <1>1, <1>6, <1>12, <2>1, <2>3
<1>14. GoodChunk(t)
  BY <1>9, <1>11, <1>13 DEF GoodChunk, LastHead, EmptyLine, m
<1>15. QED BY <1>1, <1>7, <1>9, <1>10, <1>12, <1>13, <1>14 DEF s, m

\* What is read as a chunk begins one.
LEMMA ReadBegins ==
  ASSUME NEW S, NEW t \in Seq(S), NEW u \in Seq(S),
         ~ChunkWaits(t), GoodChunk(t)
  PROVE  BeginsChunk(t \o u)
<1> DEFINE s == t \o u
           m == ChunkLine(t)
<1>1. /\ Len(t) \in Nat /\ Len(u) \in Nat /\ Len(s) = Len(t) + Len(u)
      /\ \A i \in 1 .. Len(t) : s[i] = t[i]
  BY PrefixIs
<1>2. Len(t) >= 5
  BY <1>1 DEF ChunkWaits
<1>3. /\ m > 0 /\ t[1] = "cr" /\ t[2] = "lf" /\ t[m - 1] = "cr"
      /\ t[3] \in DOMAIN HexOf
      /\ HexOf[t[3]] = 0 => EmptyLine(t, m)
  BY DEF GoodChunk, GoodHead, LastHead
<1>4. m \in 3 .. Len(t) /\ t[m] = "lf" /\ \A i \in 3 .. m - 1 : t[i] # "lf"
  BY <1>3, ChunkLineIs
<1>5. m # 3 /\ m # 4
  BY <1>3, <1>4, RxAssumption
<1> HIDE DEF s, m
<1>6. /\ m \in 5 .. Len(s) /\ m \in 1 .. Len(s) /\ m - 1 \in 1 .. Len(t)
      /\ {1, 2, 3, m} \subseteq 1 .. Len(t) /\ m <= Len(t)
  BY <1>1, <1>2, <1>4, <1>5
<1>7. \A i \in 3 .. m - 1 : i \in 1 .. Len(t)
  BY <1>1, <1>6
<1>8. ChunkHead(s, m)
  BY <1>1, <1>3, <1>4, <1>6, <1>7 DEF ChunkHead
<1>9. EmptyLine(t, m) => EmptyLine(s, m)
  <2>1. SUFFICES ASSUME EmptyLine(t, m) PROVE EmptyLine(s, m)
    OBVIOUS
  <2>2. m + 2 <= Len(t) /\ m + 1 \in 1 .. Len(t) /\ m + 2 \in 1 .. Len(t)
    BY <1>1, <1>6, <2>1 DEF EmptyLine
  <2>3. QED BY <1>1, <2>1, <2>2 DEF EmptyLine
<1>10. s[3] = t[3]
  BY <1>1, <1>6
<1>11. QED BY <1>3, <1>6, <1>8, <1>9, <1>10 DEF BeginsChunk, s

LEMMA DropIs ==
  ASSUME NEW S, NEW s \in Seq(S), NEW n \in 0 .. Len(s)
  PROVE  /\ Drop(s, n) \in Seq(S) /\ Len(Drop(s, n)) = Len(s) - n
         /\ \A i \in 1 .. Len(s) - n : Drop(s, n)[i] = s[n + i]
<1>1. Len(s) \in Nat /\ n \in Nat /\ n <= Len(s)
  OBVIOUS
<1>2. Drop(s, n) \in Seq(S)
  BY <1>1 DEF Drop
<1>3. Len(Drop(s, n)) = Len(s) - n
  BY <1>1 DEF Drop
<1>4. ASSUME NEW i \in 1 .. Len(s) - n PROVE Drop(s, n)[i] = s[n + i]
  BY <1>1, <1>4 DEF Drop
<1>5. QED BY <1>2, <1>3, <1>4

LEMMA TakeIs ==
  ASSUME NEW S, NEW s \in Seq(S), NEW n \in 0 .. Len(s)
  PROVE  /\ Take(s, n) \in Seq(S) /\ Len(Take(s, n)) = n
         /\ \A i \in 1 .. n : Take(s, n)[i] = s[i]
<1>1. Len(s) \in Nat /\ n \in Nat /\ n <= Len(s)
  OBVIOUS
<1>2. Take(s, n) \in Seq(S)
  BY <1>1 DEF Take
<1>3. Len(Take(s, n)) = n
  BY <1>1 DEF Take
<1>4. ASSUME NEW i \in 1 .. n PROVE Take(s, n)[i] = s[i]
  BY <1>1, <1>4 DEF Take
<1>5. QED BY <1>2, <1>3, <1>4

\* Sequences with the same elements are the same.
LEMMA SameSeq ==
  ASSUME NEW S, NEW s \in Seq(S), NEW t \in Seq(S), Len(s) = Len(t),
         \A i \in 1 .. Len(s) : s[i] = t[i]
  PROVE  s = t
OBVIOUS

LEMMA DropCat ==
  ASSUME NEW S, NEW s \in Seq(S), NEW t \in Seq(S), NEW n \in 0 .. Len(s)
  PROVE  Drop(s, n) \o t = Drop(s \o t, n)
<1> DEFINE d == Drop(s, n)
           c == s \o t
<1>1. d \in Seq(S) /\ Len(d) = Len(s) - n /\ \A i \in 1 .. Len(s) - n : d[i] = s[n + i]
  BY DropIs
<1>2. /\ c \in Seq(S) /\ Len(c) = Len(s) + Len(t) /\ Len(s) \in Nat /\ Len(t) \in Nat
      /\ \A i \in 1 .. Len(s) : c[i] = s[i]
      /\ \A i \in 1 .. Len(t) : c[Len(s) + i] = t[i]
  BY PrefixIs
<1> HIDE DEF d, c
<1>a. d \in Seq(S)
  BY <1>1
<1>3. /\ d \o t \in Seq(S) /\ Len(d \o t) = Len(d) + Len(t)
      /\ \A i \in 1 .. Len(d) : (d \o t)[i] = d[i]
      /\ \A i \in 1 .. Len(t) : (d \o t)[Len(d) + i] = t[i]
  BY <1>a, PrefixIs
<1>4. n \in 0 .. Len(c) /\ n \in Nat /\ n <= Len(s)
  BY <1>2
<1>5. /\ Drop(c, n) \in Seq(S) /\ Len(Drop(c, n)) = Len(c) - n
      /\ \A i \in 1 .. Len(c) - n : Drop(c, n)[i] = c[n + i]
  BY <1>2, <1>4, DropIs
<1>6. ASSUME NEW i \in 1 .. Len(d \o t) PROVE (d \o t)[i] = Drop(c, n)[i]
  <2>1. i \in 1 .. Len(c) - n /\ i \in Nat /\ i >= 1
    BY <1>1, <1>2, <1>3, <1>4
  <2>2. CASE i <= Len(d)
    <3>1. i \in 1 .. Len(d) /\ i \in 1 .. Len(s) - n /\ n + i \in 1 .. Len(s)
      BY <1>1, <1>2, <1>4, <2>1, <2>2
    <3>2. (d \o t)[i] = s[n + i]
      BY <1>1, <1>3, <3>1
    <3>3. QED BY <1>2, <1>5, <2>1, <3>1, <3>2
  <2>3. CASE i > Len(d)
    <3> DEFINE j == i - Len(d)
    <3>1. j \in 1 .. Len(t) /\ i = Len(d) + j /\ n + i = Len(s) + j
      BY <1>1, <1>2, <1>3, <1>4, <2>1, <2>3
    <3> HIDE DEF j
    <3>2. (d \o t)[i] = t[j]
      BY <1>3, <3>1
    <3>3. QED BY <1>2, <1>5, <2>1, <3>1, <3>2
  <2>4. QED BY <1>1, <1>2, <1>4, <2>1, <2>2, <2>3
<1>7. Len(d \o t) = Len(Drop(c, n))
  BY <1>1, <1>2, <1>3, <1>4, <1>5
<1>8. d \o t = Drop(c, n)
  BY <1>3, <1>5, <1>6, <1>7, SameSeq
<1>9. QED BY <1>8 DEF d, c

LEMMA Assoc ==
  ASSUME NEW S, NEW s \in Seq(S), NEW t \in Seq(S), NEW u \in Seq(S)
  PROVE  (s \o t) \o u = s \o (t \o u)
OBVIOUS

LEMMA TakeDrop ==
  ASSUME NEW S, NEW s \in Seq(S), NEW n \in 0 .. Len(s)
  PROVE  Take(s, n) \o Drop(s, n) = s
<1> DEFINE d == Drop(s, n)
           t == Take(s, n)
<1>1. d \in Seq(S) /\ Len(d) = Len(s) - n /\ \A i \in 1 .. Len(s) - n : d[i] = s[n + i]
  BY DropIs
<1>2. t \in Seq(S) /\ Len(t) = n /\ \A i \in 1 .. n : t[i] = s[i]
  BY TakeIs
<1> HIDE DEF d, t
<1>3. /\ t \o d \in Seq(S) /\ Len(t \o d) = Len(t) + Len(d)
      /\ \A i \in 1 .. Len(t) : (t \o d)[i] = t[i]
      /\ \A i \in 1 .. Len(d) : (t \o d)[Len(t) + i] = d[i]
  BY <1>1, <1>2, PrefixIs
<1>4. Len(t \o d) = Len(s) /\ Len(s) \in Nat /\ n \in Nat
  BY <1>1, <1>2, <1>3
<1>5. ASSUME NEW i \in 1 .. Len(t \o d) PROVE (t \o d)[i] = s[i]
  <2>1. CASE i <= n
    <3>1. i \in 1 .. Len(t) /\ i \in 1 .. n
      BY <1>2, <1>4, <2>1
    <3>2. QED BY <1>2, <1>3, <3>1
  <2>2. CASE i > n
    <3> DEFINE j == i - n
    <3>1. j \in 1 .. Len(d) /\ j \in 1 .. Len(s) - n /\ i = n + j /\ i = Len(t) + j
      BY <1>1, <1>2, <1>4, <2>2
    <3> HIDE DEF j
    <3>2. QED BY <1>1, <1>3, <3>1
  <2>3. QED BY <1>4, <2>1, <2>2
<1>6. t \o d = s
  BY <1>3, <1>4, <1>5, SameSeq
<1>7. QED BY <1>6 DEF t, d

\* What a read moves stays where it was in the stream.
LEMMA ReadKeeps ==
  ASSUME NEW S, NEW s \in Seq(S), NEW t \in Seq(S), NEW n \in 0 .. Len(t)
  PROVE  (s \o Take(t, n)) \o Drop(t, n) = s \o t
<1> DEFINE b == Take(t, n)
           d == Drop(t, n)
<1>1. b \in Seq(S) /\ d \in Seq(S)
  BY TakeIs, DropIs
<1>2. b \o d = t
  BY TakeDrop
<1> HIDE DEF b, d
<1>3. (s \o b) \o d = s \o (b \o d)
  BY <1>1, Assoc
<1>4. (s \o b) \o d = s \o t
  BY <1>2, <1>3
<1>5. QED BY <1>4 DEF b, d

LEMMA DropDrop ==
  ASSUME NEW S, NEW s \in Seq(S), NEW n \in 0 .. Len(s), NEW k \in 0 .. Len(s) - n
  PROVE  Drop(Drop(s, n), k) = Drop(s, n + k)
<1> DEFINE d == Drop(s, n)
<1>1. d \in Seq(S) /\ Len(d) = Len(s) - n /\ \A i \in 1 .. Len(s) - n : d[i] = s[n + i]
  BY DropIs
<1> HIDE DEF d
<1>2. /\ n \in Nat /\ k \in Nat /\ Len(s) \in Nat /\ n + k <= Len(s)
      /\ k \in 0 .. Len(d) /\ n + k \in 0 .. Len(s)
  BY <1>1
<1>3. /\ Drop(d, k) \in Seq(S) /\ Len(Drop(d, k)) = Len(d) - k
      /\ \A i \in 1 .. Len(d) - k : Drop(d, k)[i] = d[k + i]
  BY <1>1, <1>2, DropIs
<1>4. /\ Drop(s, n + k) \in Seq(S) /\ Len(Drop(s, n + k)) = Len(s) - (n + k)
      /\ \A i \in 1 .. Len(s) - (n + k) : Drop(s, n + k)[i] = s[n + k + i]
  BY <1>2, DropIs
<1>5. ASSUME NEW i \in 1 .. Len(Drop(d, k)) PROVE Drop(d, k)[i] = Drop(s, n + k)[i]
  <2>1. /\ i \in 1 .. Len(d) - k /\ i \in 1 .. Len(s) - (n + k)
        /\ k + i \in 1 .. Len(s) - n /\ n + (k + i) = n + k + i
    BY <1>1, <1>2, <1>3
  <2>2. QED BY <1>1, <1>3, <1>4, <2>1
<1>b. Len(s) - n - k = Len(s) - (n + k)
  BY <1>2
<1>6. Len(Drop(d, k)) = Len(Drop(s, n + k))
  BY <1>b, <1>1, <1>3, <1>4
<1>7. Drop(d, k) = Drop(s, n + k)
  BY <1>3, <1>4, <1>5, <1>6, SameSeq
<1>8. QED BY <1>7 DEF d

(***************************************************************************)
(* What the steps do to the buffers.                                       *)
(***************************************************************************)

LEMMA ReqIs ==
  ASSUME TypeOK
  PROVE  /\ req.wire \in Seq(Bytes) /\ req.body \in Seq(Bytes)
         /\ req.next \in Seq(Bytes)
         /\ Len(req.wire) \in Nat /\ Len(req.body) \in Nat /\ Len(req.body) > 0
         /\ ~req.chunked => req.wire = req.body \o req.next
         /\ req.chunked =>
              /\ <<0, 0>> \in req.chunks /\ ~BeginsChunk(req.next)
              /\ \A c \in req.chunks : ChunkAt(req, c[1], c[2])
         /\ req.consumer \in {"form", "put", "upload"} /\ req.chunked \in BOOLEAN
<1>1. req \in Requests
  BY DEF TypeOK
<1>2. /\ req.wire \in Seq(Bytes) /\ req.body \in Seq(Bytes)
      /\ req.next \in Seq(Bytes) /\ req.body # << >>
      /\ ~req.chunked => req.wire = req.body \o req.next
      /\ req.chunked =>
           /\ <<0, 0>> \in req.chunks /\ ~BeginsChunk(req.next)
           /\ \A c \in req.chunks : ChunkAt(req, c[1], c[2])
      /\ req.consumer \in {"form", "put", "upload"} /\ req.chunked \in BOOLEAN
  BY <1>1, RxAssumption
<1>3. Len(req.wire) \in Nat /\ Len(req.body) \in Nat
  BY <1>2
<1>4. Len(req.body) > 0
  BY <1>2, <1>3
<1>5. QED BY <1>2, <1>3, <1>4

LEMMA ChunkTypes ==
  ASSUME TypeOK
  PROVE  /\ chunk.state \in {"plain", "start", "data"} /\ chunk.remaining \in Nat
         /\ chunk.eof \in BOOLEAN /\ chunk.added \in BOOLEAN
         /\ chunk = [state |-> chunk.state, remaining |-> chunk.remaining,
                     eof |-> chunk.eof, added |-> chunk.added]
         /\ wire \in Seq(Bytes) /\ rxbuf \in Seq(Bytes) /\ input \in Seq(Bytes)
         /\ got \in Seq(Bytes)
BY DEF TypeOK

LEMMA RestIs ==
  ASSUME TypeOK, Cut
  PROVE  /\ rest \in Seq(Bytes) /\ Len(rest) = Len(rxbuf) + Len(wire)
         /\ Len(rxbuf) \in Nat /\ Len(wire) \in Nat
         /\ position \in Nat /\ position + Len(rest) = Len(req.wire)
         /\ \A i \in 1 .. Len(rest) : rest[i] = req.wire[position + i]
         /\ \A i \in 1 .. Len(rxbuf) : rxbuf[i] = rest[i]
<1>1. wire \in Seq(Bytes) /\ rxbuf \in Seq(Bytes)
  BY ChunkTypes
<1>2. /\ rest \in Seq(Bytes) /\ Len(rest) = Len(rxbuf) + Len(wire)
      /\ Len(rxbuf) \in Nat /\ Len(wire) \in Nat
      /\ \A i \in 1 .. Len(rxbuf) : rest[i] = rxbuf[i]
  BY <1>1, PrefixIs DEF rest
<1>3. /\ rest = Drop(req.wire, position) /\ position \in 0 .. Len(req.wire)
      /\ position = Len(req.wire) - Len(rest)
  BY DEF Cut, position
<1>4. req.wire \in Seq(Bytes) /\ Len(req.wire) \in Nat
  BY ReqIs
<1>5. \A i \in 1 .. Len(req.wire) - position : rest[i] = req.wire[position + i]
  BY <1>3, <1>4, DropIs
<1>6. position \in Nat /\ position + Len(rest) = Len(req.wire)
      /\ Len(req.wire) - position = Len(rest)
  <2>1. Len(rest) \in Nat
    BY <1>2
  <2>2. position \in Nat
    BY <1>3, <1>4
  <2>3. position = Len(req.wire) - Len(rest)
    BY <1>3
  <2>4. QED BY <1>4, <2>1, <2>2, <2>3
<1>7. QED BY <1>2, <1>5, <1>6

\* Bytes that leave the front of the stream.
LEMMA Skipped ==
  ASSUME TypeOK, Cut, NEW n \in 0 .. Len(rxbuf),
         rxbuf' = Drop(rxbuf, n), wire' = wire, req' = req
  PROVE  /\ rest' = Drop(rest, n) /\ rest' = Drop(req.wire, position')
         /\ position' = position + n /\ position' \in 0 .. Len(req.wire)
         /\ rxbuf' \in Seq(Bytes) /\ n \in Nat
<1>1. wire \in Seq(Bytes) /\ rxbuf \in Seq(Bytes)
  BY ChunkTypes
<1>2. rest' = Drop(rest, n)
  BY <1>1, DropCat DEF rest
<1>3. rxbuf' \in Seq(Bytes)
  BY <1>1, DropIs
<1>4. /\ rest \in Seq(Bytes) /\ Len(rest) = Len(rxbuf) + Len(wire)
      /\ Len(rxbuf) \in Nat /\ Len(wire) \in Nat
      /\ position \in Nat /\ position + Len(rest) = Len(req.wire)
  BY RestIs
<1>5. n \in Nat /\ n \in 0 .. Len(rest) /\ Len(rest) \in Nat
  BY <1>4
<1>6. Len(rest') = Len(rest) - n
  BY <1>2, <1>4, <1>5, DropIs
<1>7. Len(req.wire) \in Nat /\ req.wire \in Seq(Bytes)
  BY ReqIs
<1>8. position' = Len(req.wire) - Len(rest')
  BY DEF position
<1>9. position' = position + n /\ position' \in 0 .. Len(req.wire)
  BY <1>4, <1>5, <1>6, <1>7, <1>8
<1>10. rest = Drop(req.wire, position)
  BY DEF Cut
<1>11. position \in 0 .. Len(req.wire) /\ n \in 0 .. Len(req.wire) - position
  BY <1>4, <1>5, <1>7
<1>12. Drop(rest, n) = Drop(req.wire, position + n)
  BY <1>7, <1>10, <1>11, DropDrop
<1>13. QED BY <1>2, <1>3, <1>5, <1>9, <1>12

\* What moves to input is the next of the body.
LEMMA Moved ==
  ASSUME TypeOK, Cut, NEW n \in 0 .. Len(rxbuf), Move(n), req' = req,
         \A i \in 1 .. n : /\ Len(got) + i <= Len(req.body)
                           /\ req.wire[position + i] = req.body[Len(got) + i]
  PROVE  /\ Cut' /\ position' = position + n
         /\ Len(got') = Len(got) + n /\ Len(input') = Len(input) + n
         /\ rxbuf' \in Seq(Bytes) /\ got' \in Seq(Bytes) /\ input' \in Seq(Bytes)
         /\ rest' = Drop(rest, n)
<1> DEFINE data == Take(rxbuf, n)
<1>1. /\ rxbuf' = Drop(rxbuf, n) /\ wire' = wire
      /\ got' = got \o data /\ input' = input \o data
  BY DEF Move
<1>2. /\ rest' = Drop(rest, n) /\ rest' = Drop(req.wire, position')
      /\ position' = position + n /\ position' \in 0 .. Len(req.wire)
      /\ rxbuf' \in Seq(Bytes) /\ n \in Nat
  BY <1>1, Skipped
<1>3. rxbuf \in Seq(Bytes) /\ got \in Seq(Bytes) /\ input \in Seq(Bytes)
  BY ChunkTypes
<1>4. data \in Seq(Bytes) /\ Len(data) = n /\ \A i \in 1 .. n : data[i] = rxbuf[i]
  BY <1>3, TakeIs
<1>5. /\ Len(rxbuf) \in Nat /\ \A i \in 1 .. Len(rxbuf) : rxbuf[i] = rest[i]
      /\ Len(rest) = Len(rxbuf) + Len(wire) /\ Len(wire) \in Nat
      /\ \A i \in 1 .. Len(rest) : rest[i] = req.wire[position + i]
  BY RestIs
<1>6. \A i \in 1 .. n : i \in 1 .. Len(rxbuf) /\ i \in 1 .. Len(rest)
  BY <1>2, <1>5
<1>7. \A i \in 1 .. n : data[i] = req.body[Len(got) + i]
  BY <1>4, <1>5, <1>6
<1> HIDE DEF data
<1>8. data \in Seq(Bytes) /\ Len(data) = n
  BY <1>4
<1>9. /\ got' \in Seq(Bytes) /\ Len(got') = Len(got) + n /\ Len(got) \in Nat
      /\ \A i \in 1 .. Len(got) : got'[i] = got[i]
      /\ \A i \in 1 .. n : got'[Len(got) + i] = data[i]
  <2>1. /\ got \o data \in Seq(Bytes) /\ Len(got \o data) = Len(got) + Len(data)
        /\ Len(got) \in Nat
        /\ \A i \in 1 .. Len(got) : (got \o data)[i] = got[i]
        /\ \A i \in 1 .. Len(data) : (got \o data)[Len(got) + i] = data[i]
    <3>1. got \in Seq(Bytes) /\ data \in Seq(Bytes)
      BY <1>3, <1>8
    <3>2. QED BY <3>1, PrefixIs
  <2>2. QED BY <1>1, <1>8, <2>1
<1>10. /\ input' \in Seq(Bytes) /\ Len(input') = Len(input) + n /\ Len(input) \in Nat
       /\ \A i \in 1 .. Len(input) : input'[i] = input[i]
       /\ \A i \in 1 .. n : input'[Len(input) + i] = data[i]
  <2>1. /\ input \o data \in Seq(Bytes)
        /\ Len(input \o data) = Len(input) + Len(data) /\ Len(input) \in Nat
        /\ \A i \in 1 .. Len(input) : (input \o data)[i] = input[i]
        /\ \A i \in 1 .. Len(data) : (input \o data)[Len(input) + i] = data[i]
    <3>1. input \in Seq(Bytes) /\ data \in Seq(Bytes)
      BY <1>3, <1>8
    <3>2. QED BY <3>1, PrefixIs
  <2>2. QED BY <1>1, <1>8, <2>1
<1>11. /\ Len(got) <= Len(req.body) /\ \A i \in 1 .. Len(got) : got[i] = req.body[i]
       /\ Len(input) <= Len(got)
       /\ \A i \in 1 .. Len(input) : input[i] = got[Len(got) - Len(input) + i]
       /\ Len(req.body) \in Nat
  BY ReqIs DEF Cut
<1>12. Len(got') <= Len(req.body)
  <2>1. CASE n = 0
    BY <1>9, <1>11, <2>1
  <2>2. CASE n # 0
    <3>1. n \in 1 .. n
      BY <1>2, <2>2
    <3>2. QED BY <1>9, <3>1
  <2>3. QED BY <2>1, <2>2
<1>13. ASSUME NEW i \in 1 .. Len(got') PROVE got'[i] = req.body[i]
  <2>1. CASE i <= Len(got)
    <3>1. i \in 1 .. Len(got)
      BY <1>9, <2>1
    <3>2. QED BY <1>9, <1>11, <3>1
  <2>2. CASE i > Len(got)
    <3> DEFINE j == i - Len(got)
    <3>1. j \in 1 .. n /\ i = Len(got) + j
      BY <1>2, <1>9, <2>2
    <3> HIDE DEF j
    <3>2. QED BY <1>7, <1>9, <3>1
  <2>3. QED BY <1>9, <2>1, <2>2
<1>14. Len(input') <= Len(got') /\ Len(got') - Len(input') = Len(got) - Len(input)
  BY <1>2, <1>9, <1>10, <1>11
<1>15. ASSUME NEW i \in 1 .. Len(input')
       PROVE  input'[i] = got'[Len(got) - Len(input) + i]
  <2>1. CASE i <= Len(input)
    <3>1. i \in 1 .. Len(input) /\ Len(got) - Len(input) + i \in 1 .. Len(got)
      BY <1>9, <1>10, <1>11, <2>1
    <3>2. QED BY <1>9, <1>10, <1>11, <3>1
  <2>2. CASE i > Len(input)
    <3> DEFINE j == i - Len(input)
    <3>1. j \in 1 .. n /\ i = Len(input) + j
      BY <1>2, <1>10, <2>2
    <3> HIDE DEF j
    <3>2. Len(got) - Len(input) + i = Len(got) + j
      BY <1>9, <1>10, <3>1
    <3>3. QED BY <1>9, <1>10, <3>1, <3>2
  <2>3. QED BY <1>10, <2>1, <2>2
<1>16. Cut'
  BY <1>2, <1>12, <1>13, <1>14, <1>15 DEF Cut
<1>17. QED BY <1>2, <1>9, <1>10, <1>16

\* The consumer takes what is in front of input.
LEMMA Consumed ==
  ASSUME TypeOK, Cut, NEW n \in 0 .. Len(input), ConsumeInput(n), req' = req
  PROVE  /\ Cut' /\ input' \in Seq(Bytes) /\ Len(input') = Len(input) - n
         /\ input' = Drop(input, n)
         /\ UNCHANGED <<wire, rxbuf, chunk, got, reads, rest, position>>
<1>1. input' = Drop(input, n) /\ UNCHANGED <<wire, rxbuf, chunk, got, reads>>
  BY DEF ConsumeInput
<1>2. input \in Seq(Bytes) /\ got \in Seq(Bytes)
  BY ChunkTypes
<1>3. /\ input' \in Seq(Bytes) /\ Len(input') = Len(input) - n
      /\ \A i \in 1 .. Len(input) - n : input'[i] = input[n + i]
  BY <1>1, <1>2, DropIs
<1>4. UNCHANGED <<rest, position>>
  BY <1>1 DEF rest, position
<1>5. Len(input) \in Nat /\ Len(got) \in Nat /\ n \in Nat /\ n <= Len(input)
  BY <1>2
<1>6. /\ rest = Drop(req.wire, position) /\ position \in 0 .. Len(req.wire)
      /\ Len(got) <= Len(req.body) /\ \A i \in 1 .. Len(got) : got[i] = req.body[i]
      /\ Len(input) <= Len(got)
      /\ \A i \in 1 .. Len(input) : input[i] = got[Len(got) - Len(input) + i]
  BY DEF Cut
<1>7. Len(input') <= Len(got)
  BY <1>3, <1>5, <1>6
<1>8. ASSUME NEW i \in 1 .. Len(input')
      PROVE  input'[i] = got[Len(got) - Len(input') + i]
  <2>1. /\ i \in 1 .. Len(input) - n /\ n + i \in 1 .. Len(input)
        /\ Len(got) - Len(input') + i = Len(got) - Len(input) + (n + i)
    BY <1>3, <1>5
  <2>2. QED BY <1>3, <1>6, <2>1
<1>9. Cut'
  BY <1>1, <1>4, <1>6, <1>7, <1>8 DEF Cut
<1>10. QED BY <1>1, <1>3, <1>4, <1>9

LEMMA SameBuffers ==
  ASSUME Cut, UNCHANGED <<req, wire, rxbuf, input, got>>
  PROVE  Cut' /\ UNCHANGED <<rest, position>>
<1>1. UNCHANGED <<rest, position>>
  BY DEF rest, position
<1>2. QED BY <1>1 DEF Cut

(***************************************************************************)
(* The operators of the upload filter.                                     *)
(***************************************************************************)

LEMMA BoundaryIs ==
  boundaryLen \in Nat /\ boundaryLen > 0 /\ FileMax \in Nat
<1>1. Boundary \in Seq(Range(Boundary)) /\ Len(Boundary) > 0 /\ FileMax \in Nat
  BY UploadAssumption
<1>2. Len(Boundary) \in Nat
  BY <1>1
<1>3. QED BY <1>1, <1>2 DEF boundaryLen

LEMMA GetBoundaryIs ==
  ASSUME NEW S, NEW s \in Seq(S)
  PROVE  getBoundary(s) \in 0 .. Len(s)
<1>1. CASE BoundariesIn(s) = {}
  BY <1>1 DEF getBoundary
<1>2. CASE BoundariesIn(s) # {}
  <2>1. Len(s) \in Nat /\ BoundariesIn(s) \subseteq 1 .. Len(s) - boundaryLen + 1
    BY DEF BoundariesIn
  <2>2. BoundariesIn(s) \in SUBSET Nat
    BY <2>1
  <2>3. \E i \in BoundariesIn(s) : \A j \in BoundariesIn(s) : i <= j
    BY <2>2, <1>2, LeastIn
  <2>4. getBoundary(s) \in BoundariesIn(s)
    BY <2>3, <1>2, Zenon DEF getBoundary
  <2>5. getBoundary(s) \in 1 .. Len(s) - boundaryLen + 1
    BY <2>1, <2>4
  <2>6. QED BY <2>1, <2>5, BoundaryIs
<1>3. QED BY <1>1, <1>2

LEMMA PartLenIs ==
  ASSUME NEW S, NEW s \in Seq(S)
  PROVE  PartLen(s) \in 0 .. Len(s)
<1>1. Len(s) \in Nat /\ getBoundary(s) \in 0 .. Len(s)
  BY GetBoundaryIs
<1>2. QED BY <1>1 DEF PartLen

LEMMA HeldIs ==
  ASSUME NEW S, NEW s \in Seq(S), Len(s) >= boundaryLen
  PROVE  Held(s) \in 0 .. Len(s)
<1>1. Len(s) \in Nat
  OBVIOUS
<1>2. QED BY <1>1, BoundaryIs DEF Held

LEMMA WithoutIs ==
  ASSUME NEW S, NEW s \in Seq(S)
  PROVE  WithoutCRLF(s) \in Seq(S)
<1>1. Len(s) \in Nat
  OBVIOUS
<1>2. CASE Len(s) >= 2
  <2>1. Len(s) - 2 \in 0 .. Len(s)
    BY <1>1, <1>2
  <2>2. QED BY <2>1, TakeIs DEF WithoutCRLF
<1>3. CASE Len(s) < 2
  <2>1. Len(s) - 2 < 1
    BY <1>1, <1>3
  <2>2. Take(s, Len(s) - 2) = << >>
    BY <1>1, <2>1 DEF Take
  <2>3. << >> \in Seq(S)
    OBVIOUS
  <2>4. WithoutCRLF(s) \in {Take(s, Len(s) - 2), s}
    BY DEF WithoutCRLF
  <2>5. QED BY <2>2, <2>3, <2>4
<1>4. QED BY <1>1, <1>2, <1>3

LEMMA PartsIs ==
  ASSUME NEW Ids, NEW B, NEW u \in PartsType(Ids, B)
  PROVE  /\ u.state \in {"start", "boundary", "header", "data", "end"}
         /\ u.var \in Names \cup {NoName} /\ u.isFile \in BOOLEAN
         /\ u.upfd \in Ids \cup {0} /\ u.current \in Ids \cup {0}
         /\ u.files \in [FileFields -> Ids \cup {0}] /\ u.vars \in [Names -> Seq(B)]
BY DEF PartsType

LEMMA NewParts ==
  ASSUME NEW Ids, NEW B, NEW u \in PartsType(Ids, B)
  PROVE  /\ NoParts \in PartsType(Ids, B)
         /\ [u EXCEPT !.state = "boundary"] \in PartsType(Ids, B)
         /\ \A line : processContentBoundary(u, line) \in PartsType(Ids, B)
         /\ \A f \in Names : VarHeader(u, f) \in PartsType(Ids, B)
         /\ \A f \in Names, i \in Ids : FileHeader(u, f, i) \in PartsType(Ids, B)
         /\ HeaderEnds(u) \in PartsType(Ids, B)
         /\ Closed(u) \in PartsType(Ids, B)
<1>1. NoParts \in PartsType(Ids, B)
  BY DEF NoParts, PartsType
<1>2. [u EXCEPT !.state = "boundary"] \in PartsType(Ids, B)
  BY DEF PartsType
<1>3. ASSUME NEW line PROVE processContentBoundary(u, line) \in PartsType(Ids, B)
  BY DEF PartsType, processContentBoundary
<1>4. ASSUME NEW f \in Names PROVE VarHeader(u, f) \in PartsType(Ids, B)
  BY DEF PartsType, VarHeader
<1>5. ASSUME NEW f \in Names, NEW i \in Ids
      PROVE  FileHeader(u, f, i) \in PartsType(Ids, B)
  BY DEF PartsType, FileHeader
<1>6. HeaderEnds(u) \in PartsType(Ids, B)
  BY DEF PartsType, HeaderEnds
<1>7. Closed(u) \in PartsType(Ids, B)
  BY DEF PartsType, Closed
<1>8. QED BY <1>1, <1>2, <1>3, <1>4, <1>5, <1>6, <1>7

LEMMA EnteredIs ==
  ASSUME NEW Ids, NEW B, NEW u \in PartsType(Ids, B), NEW data \in Seq(B),
         NEW cleared \in BOOLEAN
  PROVE  Entered(u, data, cleared) \in PartsType(Ids, B)
<1>1. CASE data = << >>
  BY <1>1 DEF Entered
<1>2. CASE data # << >> /\ u.isFile
  <2>1. Entered(u, data, cleared) = [u EXCEPT !.files[u.var] = u.current]
    BY <1>2 DEF Entered
  <2>2. u.files \in [FileFields -> Ids \cup {0}] /\ u.current \in Ids \cup {0}
    BY PartsIs
  <2>3. [u.files EXCEPT ![u.var] = u.current] \in [FileFields -> Ids \cup {0}]
    BY <2>2
  <2>4. QED BY <2>1, <2>3 DEF PartsType
<1>3. CASE data # << >> /\ ~u.isFile
  <2> DEFINE b == IF cleared THEN << >> ELSE WithoutCRLF(data)
  <2>1. Entered(u, data, cleared) = [u EXCEPT !.vars[u.var] = b]
    BY <1>3 DEF Entered
  <2>2. u.vars \in [Names -> Seq(B)] /\ b \in Seq(B)
    BY PartsIs, WithoutIs
  <2> HIDE DEF b
  <2>3. [u.vars EXCEPT ![u.var] = b] \in [Names -> Seq(B)]
    BY <2>2
  <2>4. QED BY <2>1, <2>3 DEF PartsType
<1>4. QED BY <1>1, <1>2, <1>3

(***************************************************************************)
(* Types.                                                                  *)
(***************************************************************************)

FlowType ==
  /\ req \in Requests
  /\ pc \in {"select", "filter", "consume", "upload", "parsing", "eof",
             "handler", "freed", "crashed"}
  /\ state \in {"content", "ready", "complete"}
  /\ failed \in {"no", "chunk", "boundary", "write", "gone", "refused"}
BufferType ==
  /\ wire \in Seq(Bytes) /\ rxbuf \in Seq(Bytes) /\ input \in Seq(Bytes)
  /\ chunk \in [state : {"plain", "start", "data"}, remaining : Nat,
                eof : BOOLEAN, added : BOOLEAN]
  /\ got \in Seq(Bytes) /\ reads \in 0 .. 2
DiskType(d) == DOMAIN d \subseteq FileIds /\ \A i \in DOMAIN d : d[i] \in Seq(Bytes)
KeptType(k) ==
  DOMAIN k \subseteq FileFields \cup {PutName} /\ \A f \in DOMAIN k : k[f] \in Seq(Bytes)
FileType ==
  /\ putLen \in Nat /\ up \in PartsType(FileIds, Bytes)
  /\ DiskType(disk) /\ KeptType(kept) /\ lineLost \in BOOLEAN

LEMMA TypeParts ==
  /\ TypeOK <=> FlowType /\ BufferType /\ FileType
  /\ TypeOK' <=> FlowType' /\ BufferType' /\ FileType'
BY DEF TypeOK, FlowType, BufferType, FileType, DiskType, KeptType

LEMMA SameTypes ==
  /\ BufferType /\ UNCHANGED buffers => BufferType'
  /\ FileType /\ UNCHANGED files => FileType'
<1>1. BufferType /\ UNCHANGED buffers => BufferType'
  BY DEF BufferType, buffers
<1>2. FileType /\ UNCHANGED files => FileType'
  BY DEF FileType, files
<1>3. QED BY <1>1, <1>2

LEMMA FailType ==
  ASSUME FlowType, NEW why \in {"chunk", "boundary", "write", "gone", "refused"}, Fail(why)
  PROVE  /\ failed' \in {"no", "chunk", "boundary", "write", "gone", "refused"}
         /\ state' \in {"content", "ready", "complete"}
         /\ failed' # "no" /\ (failed # "no" => failed' = failed)
         /\ failed = "no" => failed' = why
BY DEF FlowType, Fail, Failed

\* Bytes written behind those of a file.
LEMMA Written ==
  ASSUME NEW d, DiskType(d), NEW k, NEW data \in Seq(Bytes)
  PROVE  /\ DiskType([d EXCEPT ![k] = @ \o data])
         /\ DOMAIN [d EXCEPT ![k] = @ \o data] = DOMAIN d
         /\ k \in DOMAIN d => [d EXCEPT ![k] = @ \o data][k] = d[k] \o data
<1> DEFINE e == [d EXCEPT ![k] = @ \o data]
<1>1. DOMAIN e = DOMAIN d /\ \A i \in DOMAIN d : e[i] = IF i = k THEN d[k] \o data ELSE d[i]
  OBVIOUS
<1>2. \A i \in DOMAIN d : d[i] \in Seq(Bytes)
  BY DEF DiskType
<1> HIDE DEF e
<1>3. ASSUME NEW i \in DOMAIN d PROVE e[i] \in Seq(Bytes)
  <2>1. d[i] \in Seq(Bytes)
    BY <1>2
  <2>2. d[i] \o data \in Seq(Bytes)
    BY <2>1
  <2>3. QED BY <1>1, <2>1, <2>2
<1>4. DiskType(e)
  BY <1>1, <1>3 DEF DiskType
<1>5. QED BY <1>1, <1>4 DEF e

\* A file more.
LEMMA Opened ==
  ASSUME NEW d, DiskType(d), NEW k \in FileIds
  PROVE  /\ DiskType(With(d, k, << >>))
         /\ DOMAIN With(d, k, << >>) = DOMAIN d \cup {k}
<1> DEFINE e == With(d, k, << >>)
<1>1. /\ DOMAIN e = DOMAIN d \cup {k}
      /\ \A i \in DOMAIN e : e[i] = IF i = k THEN << >> ELSE d[i]
  BY DEF With
<1>2. \A i \in DOMAIN d : d[i] \in Seq(Bytes)
  BY DEF DiskType
<1> HIDE DEF e
<1>3. ASSUME NEW i \in DOMAIN e PROVE e[i] \in Seq(Bytes)
  <2>1. CASE i # k
    BY <1>1, <1>2, <2>1
  <2>2. CASE i = k
    <3>1. e[i] = << >>
      BY <1>1, <1>3, <2>2
    <3>2. << >> \in Seq(Bytes)
      OBVIOUS
    <3>3. QED BY <3>1, <3>2
  <2>3. QED BY <2>1, <2>2
<1>4. DiskType(e)
  BY <1>1, <1>3 DEF DiskType
<1>5. QED BY <1>1, <1>4 DEF e

LEMMA KeepIs ==
  ASSUME KeptType(kept), NEW name \in FileFields \cup {PutName}, NEW content \in Seq(Bytes)
  PROVE  KeptType(Keep(name, content))
<1> DEFINE e == Keep(name, content)
<1>1. /\ DOMAIN e = DOMAIN kept \cup {name}
      /\ \A i \in DOMAIN e : e[i] = IF i = name THEN content ELSE kept[i]
  BY DEF Keep, With
<1>2. DOMAIN kept \subseteq FileFields \cup {PutName} /\ \A i \in DOMAIN kept : kept[i] \in Seq(Bytes)
  BY DEF KeptType
<1> HIDE DEF e
<1>3. ASSUME NEW i \in DOMAIN e PROVE e[i] \in Seq(Bytes)
  BY <1>1, <1>2, <1>3
<1>4. KeptType(e)
  BY <1>1, <1>2, <1>3 DEF KeptType
<1>5. QED BY <1>4 DEF e

\* What is left on disk.
LEMMA Freed ==
  ASSUME NEW d, DiskType(d), NEW I
  PROVE  DiskType([i \in DOMAIN d \ I |-> d[i]])
BY DEF DiskType

Places == {"select", "filter", "consume", "upload", "parsing", "eof",
           "handler", "freed", "crashed"}

\* A step that moves the thread and, maybe, fails.
LEMMA FlowIs ==
  ASSUME TypeOK, req' = req, pc' \in Places,
         \/ UNCHANGED <<failed, state>>
         \/ failed' = failed /\ state' \in {"content", "ready", "complete"}
         \/ \E why \in {"chunk", "boundary", "write", "gone", "refused"} : Fail(why)
  PROVE  FlowType'
<1>1. FlowType
  BY TypeParts
<1>2. /\ failed' \in {"no", "chunk", "boundary", "write", "gone", "refused"}
      /\ state' \in {"content", "ready", "complete"}
  <2>1. CASE \E why \in {"chunk", "boundary", "write", "gone", "refused"} : Fail(why)
    BY <1>1, <2>1, FailType
  <2>2. QED BY <1>1, <2>1 DEF FlowType
<1>3. QED BY <1>1, <1>2 DEF FlowType, Places

LEMMA TypedRead ==
  ASSUME RxInv, Read
  PROVE  TypeOK'
<1>1. TypeOK
  BY DEF RxInv
<1>2. PICK n \in 1 .. Smaller(ReadMax, Len(wire)) :
        rxbuf' = rxbuf \o Take(wire, n) /\ wire' = Drop(wire, n)
  BY DEF Read
<1>3. ReadMax \in Nat
  BY RxAssumption
<1>4. wire \in Seq(Bytes) /\ rxbuf \in Seq(Bytes) /\ Len(wire) \in Nat
  BY <1>1, ChunkTypes
<1>5. n \in 0 .. Len(wire)
  BY <1>2, <1>3, <1>4 DEF Smaller
<1>6. Take(wire, n) \in Seq(Bytes) /\ Drop(wire, n) \in Seq(Bytes)
  BY <1>4, <1>5, TakeIs, DropIs
<1>7. wire' \in Seq(Bytes) /\ rxbuf' \in Seq(Bytes)
  BY <1>2, <1>4, <1>6
<1>8. chunk' \in [state : {"plain", "start", "data"}, remaining : Nat,
                  eof : BOOLEAN, added : BOOLEAN]
  BY <1>1, TypeParts DEF Read, BufferType
<1>9. reads' \in 0 .. 2
  BY <1>1 DEF Read, TypeOK, Smaller
<1>10. BufferType'
  BY <1>1, <1>7, <1>8, <1>9 DEF Read, TypeOK, BufferType
<1>11. FlowType'
  BY <1>1, FlowIs DEF Read, Goto, Places
<1>12. FileType'
  BY <1>1, TypeParts, SameTypes DEF Read
<1>13. QED BY <1>10, <1>11, <1>12, TypeParts

LEMMA TypedQuiet ==
  ASSUME TypeOK, pc' \in Places, UNCHANGED <<req, state, failed, buffers, files>>
  PROVE  TypeOK'
<1>1. FlowType'
  BY FlowIs
<1>2. BufferType' /\ FileType'
  BY TypeParts, SameTypes
<1>3. QED BY <1>1, <1>2, TypeParts

\* The turns of the filter that take something.
LEMMA TypedBuffers ==
  ASSUME TypeOK, req' = req, pc' \in Places, UNCHANGED <<state, failed, files>>,
         wire' = wire, reads' = reads,
         rxbuf' \in Seq(Bytes), input' \in Seq(Bytes), got' \in Seq(Bytes),
         chunk' \in [state : {"plain", "start", "data"}, remaining : Nat,
                     eof : BOOLEAN, added : BOOLEAN]
  PROVE  TypeOK'
<1>1. FlowType'
  BY FlowIs
<1>2. FileType'
  BY TypeParts, SameTypes
<1>3. BufferType'
  BY DEF TypeOK, BufferType
<1>4. QED BY <1>1, <1>2, <1>3, TypeParts

LEMMA TypedBad ==
  ASSUME TypeOK, FilterBad
  PROVE  TypeOK'
<1>1. FlowType'
  BY FlowIs DEF FilterBad, Goto, Places
<1>2. BufferType' /\ FileType'
  BY TypeParts, SameTypes DEF FilterBad
<1>3. QED BY <1>1, <1>2, TypeParts

\* The end of a request, after an error or without one.
EndsAfter(error) == error \in {failed, "gone", "refused"} /\ (failed # "no" => error = failed)

LEMMA Ended ==
  ASSUME Handled \/ Complete \/ Gone
  PROVE  /\ TermWebs(failed') /\ EndsAfter(failed') /\ pc # "freed"
         /\ failed' = "no" => failed = "no" /\ pc = "handler"
<1>1. CASE Handled
  BY <1>1 DEF Handled, EndsAfter, Failed, At
<1>2. CASE Complete
  BY <1>2 DEF Complete, EndsAfter, At
<1>3. CASE Gone
  BY <1>3 DEF Gone, EndsAfter, Failed, At
<1>4. QED BY <1>1, <1>2, <1>3

LEMMA TypedTermWebs ==
  ASSUME TypeOK, BodyInv, pc # "freed", TermWebs(failed'), EndsAfter(failed')
  PROVE  TypeOK'
<1>1. FlowType'
  <2>1. FlowType
    BY TypeParts
  <2>2. QED BY <2>1 DEF TermWebs, EndsAfter, Goto, FlowType
<1>2. BufferType'
  BY TypeParts, SameTypes DEF TermWebs
<1>3. FileType
  BY TypeParts
<1>4. KeptType(kept')
  <2>1. CASE PutOpen(failed')
    <3>1. disk[PutFile] \in Seq(Bytes)
      BY <1>3, <2>1 DEF BodyInv, FileType, DiskType, PutOpen
    <3>2. kept' = Keep(PutName, disk[PutFile])
      BY <2>1 DEF TermWebs
    <3>3. PutName \in FileFields \cup {PutName} /\ KeptType(kept)
      BY <1>3 DEF FileType
    <3>4. QED BY <3>1, <3>2, <3>3, KeepIs
  <2>2. CASE ~PutOpen(failed')
    BY <1>3, <2>2 DEF TermWebs, FileType
  <2>3. QED BY <2>1, <2>2
<1>5. DiskType(disk')
  <2> DEFINE I == Unlinked(up) \cup IF PutOpen(failed') THEN {PutFile} ELSE {}
  <2>1. disk' = [i \in DOMAIN disk \ I |-> disk[i]]
    BY DEF TermWebs
  <2>2. DiskType(disk)
    BY <1>3 DEF FileType
  <2> HIDE DEF I
  <2>3. QED BY <2>1, <2>2, Freed
<1>6. up' \in PartsType(FileIds, Bytes)
  <2>1. up \in PartsType(FileIds, Bytes)
    BY <1>3 DEF FileType
  <2>2. QED BY <2>1, NewParts DEF TermWebs
<1>7. putLen' \in Nat /\ lineLost' \in BOOLEAN
  BY <1>3 DEF TermWebs, FileType
<1>8. FileType'
  BY <1>4, <1>5, <1>6, <1>7 DEF FileType, DiskType, KeptType
<1>9. QED BY <1>1, <1>2, <1>8, TypeParts

LEMMA ConsumedType ==
  ASSUME TypeOK, Cut, NEW n \in 0 .. Len(input), ConsumeInput(n), req' = req
  PROVE  BufferType'
<1>1. input' \in Seq(Bytes) /\ UNCHANGED <<wire, rxbuf, chunk, got, reads>>
  BY Consumed
<1>2. QED BY <1>1 DEF TypeOK, BufferType

LEMMA TypedConsumePut ==
  ASSUME RxInv, ConsumePut
  PROVE  TypeOK' /\ Cut'
<1>1. TypeOK /\ Cut
  BY DEF RxInv
<1>2. input \in Seq(Bytes) /\ Len(input) \in Nat /\ Len(input) \in 0 .. Len(input)
  BY <1>1, ChunkTypes
<1>3. ConsumeInput(Len(input)) /\ req' = req
  BY DEF ConsumePut
<1>4. BufferType' /\ Cut'
  BY <1>1, <1>2, <1>3, ConsumedType, Consumed
<1>5. FlowType'
  BY <1>1, FlowIs DEF ConsumePut, Goto, Places
<1>6. FileType
  BY <1>1, TypeParts
<1>7. DiskType(disk')
  BY <1>2, <1>6, Written DEF ConsumePut, FileType
<1>8. FileType'
  BY <1>2, <1>6, <1>7 DEF ConsumePut, FileType, DiskType, KeptType
<1>9. QED BY <1>4, <1>5, <1>8, TypeParts

LEMMA TypedRefusePut ==
  ASSUME TypeOK, RefusePut
  PROVE  TypeOK' /\ DOMAIN disk' = DOMAIN disk
<1>1. input \in Seq(Bytes) /\ Len(input) \in Nat
  BY ChunkTypes
<1>2. BufferType'
  BY TypeParts, SameTypes DEF RefusePut
<1>3. FlowType'
  BY FlowIs DEF RefusePut, Goto, Places
<1>4. FileType
  BY TypeParts
<1>5. DiskType(disk') /\ DOMAIN disk' = DOMAIN disk
  <2>1. CASE UNCHANGED disk
    BY <1>4, <2>1 DEF FileType
  <2>2. CASE \E n \in 0 .. Len(input) - 1 :
               disk' = [disk EXCEPT ![PutFile] = @ \o Take(input, n)]
    <3>1. PICK n \in 0 .. Len(input) - 1 :
            disk' = [disk EXCEPT ![PutFile] = @ \o Take(input, n)]
      BY <2>2
    <3>2. n \in 0 .. Len(input)
      BY <1>1
    <3>3. Take(input, n) \in Seq(Bytes) /\ DiskType(disk)
      BY <1>1, <1>4, <3>2, TakeIs DEF FileType
    <3>4. QED BY <3>1, <3>3, Written
  <2>3. QED BY <2>1, <2>2 DEF RefusePut
<1>6. FileType'
  BY <1>1, <1>4, <1>5 DEF RefusePut, FileType, DiskType, KeptType
<1>7. QED BY <1>2, <1>3, <1>5, <1>6, TypeParts

LEMMA TypedTestEof ==
  ASSUME TypeOK, TestEof
  PROVE  TypeOK'
<1>1. BufferType' /\ FileType'
  BY TypeParts, SameTypes DEF TestEof
<1>2. FlowType
  BY TypeParts
<1>3. pc' \in Places /\ state' \in {"content", "ready", "complete"}
  BY <1>2 DEF TestEof, Goto, Places, FlowType
<1>4. FlowType'
  BY <1>2, <1>3 DEF TestEof, FlowType, Places
<1>5. QED BY <1>1, <1>4, TypeParts

LEMMA TypedInit ==
  ASSUME TypeOK, UploadInit
  PROVE  TypeOK'
<1>1. BufferType'
  BY TypeParts, SameTypes DEF UploadInit
<1>2. FlowType' /\ FileType
  BY TypeParts DEF UploadInit, FlowType
<1>3. up \in PartsType(FileIds, Bytes)
  BY <1>2 DEF FileType
<1>4. up' \in PartsType(FileIds, Bytes)
  BY <1>3, NewParts DEF UploadInit
<1>5. FileType'
  BY <1>2, <1>4 DEF UploadInit, FileType, DiskType, KeptType
<1>6. QED BY <1>1, <1>2, <1>5, TypeParts

LEMMA LineType ==
  ASSUME TypeOK, NEW s, ReadsLine(s)
  PROVE  lineLost' \in BOOLEAN /\ LineEnd(input) \in 0 .. Len(input)
<1>1. input \in Seq(Bytes)
  BY ChunkTypes
<1>2. LineEnd(input) \in 0 .. Len(input)
  BY <1>1, LineEndIs
<1>3. lineLost' \in BOOLEAN
  BY DEF TypeOK, ReadsLine
<1>4. QED BY <1>2, <1>3

LEMMA TypedBoundary ==
  ASSUME TypeOK, Cut, UploadBoundary
  PROVE  TypeOK' /\ Cut'
<1>1. ReadsLine("boundary") /\ ConsumeInput(LineEnd(input)) /\ req' = req
  BY DEF UploadBoundary
<1>2. lineLost' \in BOOLEAN /\ LineEnd(input) \in 0 .. Len(input)
  BY <1>1, LineType
<1>3. BufferType' /\ Cut'
  BY <1>1, <1>2, ConsumedType, Consumed
<1>4. FlowType'
  BY <1>1, FlowIs DEF UploadBoundary, NoFailure, Goto, Places
<1>5. FileType
  BY TypeParts
<1>6. up' \in PartsType(FileIds, Bytes)
  <2>1. up \in PartsType(FileIds, Bytes)
    BY <1>5 DEF FileType
  <2>2. QED BY <2>1, NewParts DEF UploadBoundary
<1>7. FileType'
  BY <1>2, <1>5, <1>6 DEF UploadBoundary, FileType, DiskType, KeptType
<1>8. QED BY <1>3, <1>4, <1>7, TypeParts

LEMMA NextIdIs ==
  ASSUME IsFiniteSet(DOMAIN disk)
  PROVE  NextId \in FileIds
<1>1. Cardinality(DOMAIN disk) \in Nat
  BY FS_CardinalityType
<1>2. QED BY <1>1 DEF NextId, FileIds

LEMMA TypedHeader ==
  ASSUME TypeOK, Cut, IsFiniteSet(DOMAIN disk), UploadHeader
  PROVE  TypeOK' /\ Cut'
<1>1. ReadsLine("header") /\ ConsumeInput(LineEnd(input)) /\ req' = req
  BY DEF UploadHeader
<1>2. lineLost' \in BOOLEAN /\ LineEnd(input) \in 0 .. Len(input)
  BY <1>1, LineType
<1>3. BufferType' /\ Cut'
  BY <1>1, <1>2, ConsumedType, Consumed
<1>4. FlowType'
  BY <1>1, FlowIs DEF UploadHeader, Goto, Places
<1>5. FileType
  BY TypeParts
<1>6. up \in PartsType(FileIds, Bytes) /\ DiskType(disk)
  BY <1>5 DEF FileType
<1> DEFINE field == IF NextLine = << >> THEN NoName ELSE NextLine[1]
<1>7. \/ up' = HeaderEnds(up) /\ UNCHANGED disk
      \/ field \in Fields /\ up' = VarHeader(up, field) /\ UNCHANGED disk
      \/ /\ field \in FileFields /\ up' = FileHeader(up, field, NextId)
         /\ disk' = With(disk, NextId, << >>)
      \/ UNCHANGED <<up, disk>>
  BY DEF UploadHeader
<1> HIDE DEF field
<1>8. NextId \in FileIds
  BY NextIdIs
<1>9. up' \in PartsType(FileIds, Bytes)
  <2>1. /\ HeaderEnds(up) \in PartsType(FileIds, Bytes)
        /\ \A f \in Names : VarHeader(up, f) \in PartsType(FileIds, Bytes)
        /\ \A f \in Names : FileHeader(up, f, NextId) \in PartsType(FileIds, Bytes)
    BY <1>6, <1>8, NewParts
  <2>2. Fields \subseteq Names /\ FileFields \subseteq Names
    BY DEF Names
  <2>3. QED BY <1>6, <1>7, <2>1, <2>2
<1>10. DiskType(disk')
  BY <1>6, <1>7, <1>8, Opened
<1>11. FileType'
  BY <1>2, <1>5, <1>9, <1>10 DEF UploadHeader, FileType, DiskType, KeptType
<1>12. QED BY <1>3, <1>4, <1>11, TypeParts

LEMMA NextTurnIs ==
  ASSUME NEW s, NextTurn(s)
  PROVE  pc' \in {"eof", "parsing"}
BY DEF NextTurn, Goto

LEMMA TypedData ==
  ASSUME RxInv, UploadData
  PROVE  /\ TypeOK' /\ Cut' /\ DOMAIN disk' = DOMAIN disk
         /\ pc' \in {"eof", "parsing"}
<1>1. TypeOK /\ Cut
  BY DEF RxInv
<1> DEFINE n == Held(input)
           data == Take(input, n)
<1>2. input \in Seq(Bytes) /\ Len(input) >= boundaryLen
  BY <1>1, ChunkTypes DEF UploadData
<1>3. n \in 0 .. Len(input)
  BY <1>2, HeldIs
<1>4. data \in Seq(Bytes) /\ Len(data) = n
  BY <1>2, <1>3, TakeIs
<1>5. /\ FileHasRoom(data) /\ WriteToFile(data) /\ ConsumeInput(Len(data))
      /\ NextTurn(Drop(input, Len(data)))
      /\ UNCHANGED <<req, state, failed, putLen, up, kept, lineLost>>
  BY DEF UploadData
<1> HIDE DEF data, n
<1>6. BufferType' /\ Cut'
  BY <1>1, <1>3, <1>4, <1>5, ConsumedType, Consumed
<1>7. pc' \in {"eof", "parsing"}
  BY <1>5, NextTurnIs
<1>8. FlowType'
  BY <1>1, <1>5, <1>7, FlowIs DEF Places
<1>9. FileType
  BY <1>1, TypeParts
<1>10. DiskType(disk') /\ DOMAIN disk' = DOMAIN disk
  BY <1>4, <1>5, <1>9, Written DEF WriteToFile, FileType
<1>11. FileType'
  BY <1>5, <1>9, <1>10 DEF FileType, DiskType, KeptType
<1>12. QED BY <1>6, <1>7, <1>8, <1>10, <1>11, TypeParts

LEMMA TypedPart ==
  ASSUME RxInv, UploadPart
  PROVE  /\ TypeOK' /\ Cut' /\ DOMAIN disk' = DOMAIN disk
         /\ pc' \in {"eof", "parsing"}
<1>1. TypeOK /\ Cut /\ UpInv
  BY DEF RxInv
<1> DEFINE n == PartLen(input)
           data == Take(input, n)
           text == WithoutCRLF(data)
<1>2. input \in Seq(Bytes)
  BY <1>1, ChunkTypes
<1>3. n \in 0 .. Len(input)
  BY <1>2, PartLenIs
<1>4. data \in Seq(Bytes) /\ Len(data) = n /\ text \in Seq(Bytes)
  BY <1>2, <1>3, TakeIs, WithoutIs
<1>5. /\ IF up.isFile THEN WriteToFile(text) ELSE UNCHANGED disk
      /\ up' = Closed(Entered(up, data, Cleared(data)))
      /\ ConsumeInput(Len(data))
      /\ NextTurn(Drop(input, Len(data)))
      /\ kept' = IF up.isFile THEN Keep(up.var, disk'[up.current]) ELSE kept
      /\ UNCHANGED <<req, state, failed, putLen, lineLost>>
  BY DEF UploadPart
<1> HIDE DEF data, n, text
<1>6. BufferType' /\ Cut'
  BY <1>1, <1>3, <1>4, <1>5, ConsumedType, Consumed
<1>7. pc' \in {"eof", "parsing"}
  BY <1>5, NextTurnIs
<1>8. FlowType'
  BY <1>1, <1>5, <1>7, FlowIs DEF Places
<1>9. FileType
  BY <1>1, TypeParts
<1>10. DiskType(disk') /\ DOMAIN disk' = DOMAIN disk
  <2>1. DiskType(disk) /\ text \in Seq(Bytes)
    BY <1>4, <1>9 DEF FileType
  <2>2. CASE up.isFile
    <3>1. disk' = [disk EXCEPT ![up.upfd] = @ \o text]
      BY <1>5, <2>2 DEF WriteToFile
    <3>2. QED BY <2>1, <3>1, Written
  <2>3. CASE ~up.isFile
    BY <1>5, <2>1, <2>3
  <2>4. QED BY <2>2, <2>3
<1>11. up' \in PartsType(FileIds, Bytes)
  <2>1. up \in PartsType(FileIds, Bytes)
    BY <1>9 DEF FileType
  <2>2. Entered(up, data, Cleared(data)) \in PartsType(FileIds, Bytes)
    BY <1>4, <2>1, EnteredIs DEF Cleared, At
  <2>3. QED BY <1>5, <2>2, NewParts
<1>12. KeptType(kept')
  <2>1. CASE up.isFile
    <3>1. up.current \in DOMAIN disk /\ up.var \in FileFields
      BY <1>1, <2>1 DEF UpInv
    <3>2. disk'[up.current] \in Seq(Bytes)
      BY <1>10, <3>1 DEF DiskType
    <3>3. KeptType(kept) /\ up.var \in FileFields \cup {PutName}
      BY <1>9, <3>1 DEF FileType
    <3>4. KeptType(Keep(up.var, disk'[up.current]))
      BY <3>2, <3>3, KeepIs
    <3>5. QED BY <1>5, <2>1, <3>4
  <2>2. CASE ~up.isFile
    BY <1>5, <1>9, <2>2 DEF FileType
  <2>3. QED BY <2>1, <2>2
<1>13. FileType'
  BY <1>5, <1>9, <1>10, <1>11, <1>12 DEF FileType, DiskType, KeptType
<1>14. QED BY <1>6, <1>7, <1>8, <1>10, <1>13, TypeParts

LEMMA TypedFails ==
  ASSUME TypeOK, Cut, UploadFails
  PROVE  TypeOK' /\ Cut'
<1>1. PICK n \in 0 .. Len(input) : ConsumeInput(n)
  <2>1. input \in Seq(Bytes) /\ Len(input) \in Nat
    BY ChunkTypes
  <2>2. PartLen(input) \in 0 .. Len(input) /\ 0 \in 0 .. Len(input)
    BY <2>1, PartLenIs
  <2>3. ConsumeInput(PartLen(input)) \/ ConsumeInput(0)
    BY DEF UploadFails
  <2>4. QED BY <2>2, <2>3
<1>2. req' = req
  BY DEF UploadFails
<1>3. BufferType' /\ Cut'
  BY <1>1, <1>2, ConsumedType, Consumed
<1>4. FlowType'
  BY FlowIs DEF UploadFails, Goto, Places
<1>5. FileType'
  BY TypeParts, SameTypes DEF UploadFails
<1>6. QED BY <1>3, <1>4, <1>5, TypeParts

(***************************************************************************)
(* The filter.                                                             *)
(***************************************************************************)

LEMMA Whole ==
  /\ RxInv <=> TypeOK /\ Cut /\ BodyInv /\ UpInv /\ StreamInv
  /\ RxInv' <=> TypeOK' /\ Cut' /\ BodyInv' /\ UpInv' /\ StreamInv'
BY DEF RxInv

\* The consumers leave the stream alone.
LEMMA StreamKept ==
  ASSUME RxInv, UNCHANGED <<req, got, rest, position>>,
         UNCHANGED <<chunk.state, chunk.remaining, chunk.eof>>,
         Len(input') <= InputMax \/ input' = input,
         failed' = "chunk" => failed = "chunk",
         req.chunked /\ chunk.eof /\ pc' \in {"select", "filter"} => failed' # "no"
  PROVE  StreamInv'
<1>1. CASE req.chunked
  <2>1. ChunkInv
    BY <1>1 DEF RxInv, StreamInv
  <2>2. Len(input') <= InputMax
    BY <2>1 DEF ChunkInv
  <2>3. /\ chunk'.state \in {"start", "data"}
        /\ failed' = "chunk" => req'.malformed
    BY <2>1 DEF ChunkInv
  <2>6. ChunkInv'
    <3>1. CASE chunk.eof
      BY <1>1, <2>1, <2>2, <2>3, <3>1 DEF ChunkInv
    <3>2. CASE ~chunk.eof
      BY <1>1, <2>1, <2>2, <2>3, <3>2 DEF ChunkInv, Continues
    <3>3. QED BY <3>1, <3>2
  <2>7. QED BY <1>1, <2>6 DEF StreamInv
<1>2. CASE ~req.chunked
  <2>1. PlainInv /\ failed # "chunk"
    BY <1>2 DEF RxInv, StreamInv
  <2>2. PlainInv' /\ failed' # "chunk"
    BY <2>1 DEF PlainInv
  <2>3. QED BY <1>2, <2>2 DEF StreamInv
<1>3. QED BY <1>1, <1>2

\* The body moves to input, its consumers do nothing.
LEMMA BodyMoved ==
  ASSUME RxInv, NEW n \in 0 .. Len(rxbuf), Move(n), UNCHANGED <<req, failed, files>>,
         pc = "filter", pc' \in {"filter", "consume"}
  PROVE  BodyInv' /\ UpInv'
<1> DEFINE data == Take(rxbuf, n)
<1>1. TypeOK /\ BodyInv /\ UpInv
  BY DEF RxInv
<1>2. got' = got \o data /\ input' = input \o data
  BY DEF Move
<1>3. data \in Seq(Bytes) /\ input \in Seq(Bytes)
  BY <1>1, ChunkTypes, TakeIs
<1> HIDE DEF data
<1>4. req.consumer = "form" => input' = got'
  BY <1>1, <1>2 DEF BodyInv
<1>5. ASSUME req.consumer = "put"
      PROVE  DOMAIN disk = {PutFile} /\ (failed = "no" => disk[PutFile] \o input' = got')
  <2>1. DOMAIN disk = {PutFile} /\ (failed = "no" => disk[PutFile] \o input = got)
    BY <1>1, <1>5 DEF BodyInv
  <2>2. disk[PutFile] \in Seq(Bytes)
    BY <1>1, <2>1 DEF TypeOK
  <2>3. (disk[PutFile] \o input) \o data = disk[PutFile] \o (input \o data)
    <3> DEFINE file == disk[PutFile]
    <3>1. file \in Seq(Bytes) /\ input \in Seq(Bytes) /\ data \in Seq(Bytes)
      BY <1>3, <2>2
    <3> HIDE DEF file
    <3>2. (file \o input) \o data = file \o (input \o data)
      BY <3>1, Assoc
    <3>3. QED BY <3>2 DEF file
  <2>4. QED BY <1>2, <2>1, <2>3
<1>6. UNCHANGED <<disk, up>>
  BY DEF files
<1>7. BodyInv'
  BY <1>4, <1>5, <1>6 DEF BodyInv
<1>8. UpInv'
  BY <1>1, <1>6 DEF UpInv, InUpload, At
<1>9. QED BY <1>7, <1>8

\* Nothing moves.
LEMMA BodyKept ==
  ASSUME RxInv, UNCHANGED <<req, input, got, files>>,
         failed' = "no" => failed = "no",
         pc # "freed", pc' \in {"select", "filter", "consume"}
  PROVE  BodyInv' /\ UpInv'
<1>1. BodyInv /\ UpInv /\ UNCHANGED <<disk, up>>
  BY DEF RxInv, files
<1>2. BodyInv'
  BY <1>1 DEF BodyInv
<1>3. UpInv'
  BY <1>1 DEF UpInv, InUpload, At
<1>4. QED BY <1>2, <1>3

LEMMA StepRead ==
  ASSUME RxInv, Read
  PROVE  RxInv'
<1>1. TypeOK /\ Cut /\ BodyInv
  BY DEF RxInv
<1>2. TypeOK'
  BY TypedRead
<1>3. PICK n \in 1 .. Smaller(ReadMax, Len(wire)) :
        rxbuf' = rxbuf \o Take(wire, n) /\ wire' = Drop(wire, n)
  BY DEF Read
<1>4. wire \in Seq(Bytes) /\ rxbuf \in Seq(Bytes) /\ Len(wire) \in Nat /\ ReadMax \in Nat
  BY <1>1, ChunkTypes, RxAssumption
<1>5. n \in 0 .. Len(wire)
  BY <1>3, <1>4 DEF Smaller
<1>6. rxbuf' \o wire' = rxbuf \o wire
  BY <1>3, <1>4, <1>5, ReadKeeps
<1>7. UNCHANGED <<req, got, input, failed, files>> /\ pc = "select" /\ pc' = "filter"
  BY DEF Read, At, Goto
<1>8. UNCHANGED <<rest, position>>
  BY <1>6, <1>7 DEF rest, position
<1>9. Cut'
  BY <1>1, <1>7, <1>8 DEF Cut
<1>10. UNCHANGED <<chunk.state, chunk.remaining, chunk.eof>>
  BY <1>1, ChunkTypes DEF Read
<1>11. BodyInv' /\ UpInv'
  BY <1>7, BodyKept
<1>12. req.chunked /\ chunk.eof => failed # "no"
  BY <1>7 DEF RxInv, StreamInv, ChunkInv
<1>13. StreamInv'
  BY <1>7, <1>8, <1>10, <1>12, StreamKept
<1>14. QED BY <1>2, <1>9, <1>11, <1>13, Whole

LEMMA NextOfBody ==
  ASSUME TypeOK, Cut, PlainInv, ~req.chunked,
         NEW i \in 1 .. chunk.remaining
  PROVE  /\ Len(got) + i <= Len(req.body)
         /\ req.wire[position + i] = req.body[Len(got) + i]
<1>1. /\ req.body \in Seq(Bytes) /\ req.next \in Seq(Bytes) /\ Len(req.body) \in Nat
      /\ req.wire = req.body \o req.next
  BY ReqIs
<1>2. got \in Seq(Bytes) /\ Len(got) \in Nat
  BY ChunkTypes
<1>3. position = Len(got) /\ chunk.remaining = Len(req.body) - Len(got)
  BY DEF PlainInv
<1>4. Len(got) + i \in 1 .. Len(req.body)
  BY <1>1, <1>2, <1>3
<1>5. \A j \in 1 .. Len(req.body) : (req.body \o req.next)[j] = req.body[j]
  <2> DEFINE b == req.body
             x == req.next
  <2>1. b \in Seq(Bytes) /\ x \in Seq(Bytes)
    BY <1>1
  <2> HIDE DEF b, x
  <2>2. \A j \in 1 .. Len(b) : (b \o x)[j] = b[j]
    BY <2>1, PrefixIs
  <2>3. QED BY <2>2 DEF b, x
<1>6. QED BY <1>1, <1>3, <1>4, <1>5

LEMMA StepPlain ==
  ASSUME RxInv, FilterPlain
  PROVE  RxInv'
<1>1. TypeOK /\ Cut
  BY DEF RxInv
<1>2. ~req.chunked /\ PlainInv /\ failed # "chunk"
  BY DEF RxInv, StreamInv, ChunkInv, FilterPlain, Filtering
<1> DEFINE n == PlainLen
<1>3. Len(rxbuf) \in Nat /\ chunk.remaining \in Nat /\ rxbuf \in Seq(Bytes)
  BY <1>1, ChunkTypes
<1>4. n \in 0 .. Len(rxbuf) /\ n <= chunk.remaining /\ n \in Nat
  BY <1>3 DEF PlainLen, Smaller
<1>5. /\ Move(n) /\ UNCHANGED <<req, state, failed, files>>
      /\ pc = "filter" /\ pc' = "consume"
      /\ chunk' = [chunk EXCEPT !.remaining = @ - n, !.eof = @ \/ AtEof(chunk.remaining - n)]
  BY DEF FilterPlain, Filtering, At, Goto
<1> HIDE DEF n
<1>6. \A i \in 1 .. n : i \in 1 .. chunk.remaining
  BY <1>3, <1>4
<1>7. \A i \in 1 .. n : /\ Len(got) + i <= Len(req.body)
                        /\ req.wire[position + i] = req.body[Len(got) + i]
  BY <1>1, <1>2, <1>6, NextOfBody
<1>8. /\ Cut' /\ position' = position + n
      /\ Len(got') = Len(got) + n
      /\ rxbuf' \in Seq(Bytes) /\ got' \in Seq(Bytes) /\ input' \in Seq(Bytes)
  BY <1>1, <1>4, <1>5, <1>7, Moved
<1>9. /\ chunk.state \in {"plain", "start", "data"} /\ chunk.eof \in BOOLEAN
      /\ chunk.added \in BOOLEAN
      /\ chunk = [state |-> chunk.state, remaining |-> chunk.remaining,
                  eof |-> chunk.eof, added |-> chunk.added]
  BY <1>1, ChunkTypes
<1> DEFINE ends == chunk.eof \/ AtEof(chunk.remaining - n)
           left == chunk.remaining - n
<1>a. ends \in BOOLEAN
  BY DEF AtEof
<1>b. chunk' = [chunk EXCEPT !.remaining = left, !.eof = ends]
  BY <1>5
<1>c. left \in Nat /\ left = chunk.remaining - n
  BY <1>3, <1>4
<1>d. ends => chunk.eof \/ left <= 0
  BY DEF AtEof
<1> HIDE DEF ends, left
<1>10. chunk' = [state |-> chunk.state, remaining |-> left, eof |-> ends,
                 added |-> chunk.added]
  BY <1>9, <1>a, <1>b
<1>11. chunk' \in [state : {"plain", "start", "data"}, remaining : Nat,
                   eof : BOOLEAN, added : BOOLEAN]
  BY <1>9, <1>10, <1>a, <1>c
<1>12. wire' = wire /\ reads' = reads
  BY <1>5 DEF Move
<1>13. TypeOK'
  BY <1>1, <1>5, <1>8, <1>11, <1>12, TypedBuffers DEF Places
<1>14. BodyInv' /\ UpInv'
  BY <1>4, <1>5, BodyMoved
<1>15. PlainInv'
  <2>1. /\ chunk.state = "plain"
        /\ position = Len(got) /\ chunk.remaining = Len(req.body) - Len(got)
        /\ chunk.eof => chunk.remaining = 0
    BY <1>2 DEF PlainInv
  <2>2. Len(got) \in Nat /\ Len(req.body) \in Nat
    BY <1>1, ChunkTypes, ReqIs
  <2>3. /\ chunk'.state = "plain" /\ position' = Len(got')
    BY <1>8, <1>10, <2>1
  <2>4. chunk'.remaining = Len(req.body) - Len(got')
    <3>1. chunk'.remaining = left
      BY <1>10
    <3>2. QED BY <1>3, <1>4, <1>8, <1>c, <2>1, <2>2, <3>1
  <2>5. chunk'.eof => chunk'.remaining = 0
    <3>1. chunk'.remaining = left /\ (chunk'.eof => ends)
      BY <1>10
    <3>2. ends => left = 0
      BY <1>3, <1>4, <1>c, <1>d, <2>1
    <3>3. QED BY <3>1, <3>2
  <2>6. req' = req
    BY <1>5
  <2>7. QED BY <2>3, <2>4, <2>5, <2>6 DEF PlainInv
<1>16. StreamInv'
  BY <1>2, <1>5, <1>15 DEF StreamInv
<1>17. QED BY <1>8, <1>13, <1>14, <1>16, Whole

\* In the stream of a request with chunks, before a head.
LEMMA ChunkNext ==
  ASSUME TypeOK, Cut, ChunkInv, req.chunked, chunk.state = "start",
         ~ChunkWaits(rxbuf)
  PROVE  \/ chunk.eof /\ ~GoodChunk(rxbuf)
         \/ ~chunk.eof /\ req.malformed /\ ~GoodChunk(rxbuf)
         \/ /\ ~chunk.eof /\ GoodChunk(rxbuf)
            /\ LET n == ChunkLine(rxbuf)
                   size == HexOf[rxbuf[3]]
               IN /\ n \in 5 .. Len(rxbuf) /\ size \in Nat
                  /\ IF size = 0
                     THEN /\ ~req.malformed /\ Len(got) = Len(req.body)
                          /\ n + 2 <= Len(rxbuf) /\ Drop(rest, n + 2) = req.next
                     ELSE /\ \A i \in 1 .. size : n + i <= Len(rest) =>
                               /\ Len(got) + i <= Len(req.body)
                               /\ rest[n + i] = req.body[Len(got) + i]
                          /\ n + size <= Len(rest) =>
                               <<position + n + size, Len(got) + size>> \in req.chunks
<1>1. rxbuf \in Seq(Bytes) /\ wire \in Seq(Bytes)
  BY ChunkTypes
<1>2. GoodChunk(rxbuf) => BeginsChunk(rest)
  BY <1>1, ReadBegins DEF rest
<1>3. CASE chunk.eof
  <2>1. rest = req.next /\ ~BeginsChunk(req.next)
    BY <1>3, ReqIs DEF ChunkInv
  <2>2. QED BY <1>2, <1>3, <2>1
<1>4. CASE ~chunk.eof
  <2>1. <<position, Len(got)>> \in req.chunks
    BY <1>4 DEF ChunkInv
  <2>2. ChunkAt(req, position, Len(got))
    BY <2>1, ReqIs
  <2>3. rest = Drop(req.wire, position)
    BY DEF Cut
  <2>4. CASE req.malformed /\ ~BeginsChunk(rest)
    BY <1>2, <1>4, <2>4
  <2>5. CASE \E n \in 5 .. LineMax :
          /\ ChunkHead(rest, n)
          /\ IF HexOf[rest[3]] = 0
             THEN /\ ~req.malformed /\ Len(got) = Len(req.body)
                  /\ EmptyLine(rest, n) /\ Drop(rest, n + 2) = req.next
             ELSE /\ \A i \in 1 .. HexOf[rest[3]] : n + i <= Len(rest) =>
                       /\ Len(got) + i <= Len(req.body)
                       /\ rest[n + i] = req.body[Len(got) + i]
                  /\ n + HexOf[rest[3]] <= Len(rest) =>
                       <<position + n + HexOf[rest[3]], Len(got) + HexOf[rest[3]]>>
                         \in req.chunks
    <3>1. PICK n \in 5 .. LineMax :
          /\ ChunkHead(rest, n)
          /\ IF HexOf[rest[3]] = 0
             THEN /\ ~req.malformed /\ Len(got) = Len(req.body)
                  /\ EmptyLine(rest, n) /\ Drop(rest, n + 2) = req.next
             ELSE /\ \A i \in 1 .. HexOf[rest[3]] : n + i <= Len(rest) =>
                       /\ Len(got) + i <= Len(req.body)
                       /\ rest[n + i] = req.body[Len(got) + i]
                  /\ n + HexOf[rest[3]] <= Len(rest) =>
                       <<position + n + HexOf[rest[3]], Len(got) + HexOf[rest[3]]>>
                         \in req.chunks
      BY <2>5
    <3>2. LineMax \in Nat
      BY RxAssumption
    <3>3. n <= LineMax /\ (HexOf[rest[3]] = 0 => EmptyLine(rest, n))
      BY <3>1, <3>2
    <3>4. ChunkHead(rxbuf \o wire, n) /\ (HexOf[(rxbuf \o wire)[3]] = 0 => EmptyLine(rxbuf \o wire, n))
      BY <3>1, <3>3 DEF rest
    <3>5. /\ GoodChunk(rxbuf) /\ ChunkLine(rxbuf) = n /\ rest[3] = rxbuf[3]
          /\ n \in 5 .. Len(rxbuf) /\ HexOf[rxbuf[3]] \in Nat
          /\ HexOf[rxbuf[3]] = 0 => n + 2 <= Len(rxbuf)
      BY <1>1, <3>3, <3>4, HeadRead DEF rest
    <3>6. QED BY <1>4, <3>1, <3>5
  <2>6. QED BY <2>2, <2>3, <2>4, <2>5 DEF ChunkAt
<1>5. QED BY <1>3, <1>4, ChunkTypes

LEMMA InChunks ==
  ASSUME RxInv, chunk.state \in {"start", "data"}
  PROVE  TypeOK /\ Cut /\ req.chunked /\ ChunkInv
BY DEF RxInv, StreamInv, PlainInv

LEMMA StepBad ==
  ASSUME RxInv, FilterBad
  PROVE  RxInv'
<1>1. TypeOK /\ Cut /\ req.chunked /\ ChunkInv
  BY InChunks DEF FilterBad, Filtering
<1>2. /\ chunk.state = "start" /\ ~ChunkWaits(rxbuf) /\ ~GoodChunk(rxbuf)
      /\ Fail("chunk") /\ pc = "filter" /\ pc' = "select"
      /\ UNCHANGED <<req, buffers, files>>
  BY DEF FilterBad, Filtering, At, Goto
<1>3. chunk.eof \/ req.malformed
  BY <1>1, <1>2, ChunkNext
<1>4. TypeOK'
  BY <1>1, TypedBad
<1>5. UNCHANGED <<wire, rxbuf, input, chunk, got, reads>>
  BY <1>2 DEF buffers
<1>6. Cut' /\ UNCHANGED <<rest, position>>
  BY <1>1, <1>2, <1>5, SameBuffers
<1>7. failed' # "no" /\ (failed # "no" => failed' = failed)
  BY <1>1, <1>2, TypeParts, FailType
<1>8. BodyInv' /\ UpInv'
  BY <1>2, <1>5, <1>7, BodyKept
<1>9. ChunkInv'
  <2>1. failed' = "chunk" => req'.malformed
    BY <1>1, <1>2, <1>3, <1>7 DEF ChunkInv
  <2>2. CASE chunk.eof
    BY <1>1, <1>2, <1>5, <1>6, <1>7, <2>1, <2>2 DEF ChunkInv
  <2>3. CASE ~chunk.eof
    BY <1>1, <1>2, <1>5, <1>6, <2>1, <2>3 DEF ChunkInv
  <2>4. QED BY <2>2, <2>3
<1>10. StreamInv'
  BY <1>1, <1>2, <1>9 DEF StreamInv
<1>11. QED BY <1>4, <1>6, <1>8, <1>10, Whole

LEMMA StepStart ==
  ASSUME RxInv, FilterStart
  PROVE  RxInv'
<1> DEFINE n == ChunkLine(rxbuf)
           size == HexOf[rxbuf[3]]
           m == ChunkHeadLen(size)
<1>1. TypeOK /\ Cut /\ req.chunked /\ ChunkInv
  BY InChunks DEF FilterStart, Filtering
<1>2. /\ chunk.state = "start" /\ ~ChunkWaits(rxbuf) /\ GoodChunk(rxbuf)
      /\ pc = "filter" /\ pc' = IF size = 0 THEN "consume" ELSE "filter"
      /\ rxbuf' = Drop(rxbuf, m)
      /\ UNCHANGED <<req, state, failed, wire, input, got, reads, files>>
  BY DEF FilterStart, Filtering, At, Goto
<1>3. chunk' = [chunk EXCEPT !.state = IF size = 0 THEN @ ELSE "data",
                             !.remaining = size, !.eof = @ \/ size = 0]
  BY DEF FilterStart
<1>4. /\ ~chunk.eof
      /\ n \in 5 .. Len(rxbuf) /\ size \in Nat
      /\ IF size = 0
         THEN /\ ~req.malformed /\ Len(got) = Len(req.body)
              /\ n + 2 <= Len(rxbuf) /\ Drop(rest, n + 2) = req.next
         ELSE /\ \A i \in 1 .. size : n + i <= Len(rest) =>
                   /\ Len(got) + i <= Len(req.body)
                   /\ rest[n + i] = req.body[Len(got) + i]
              /\ n + size <= Len(rest) =>
                   <<position + n + size, Len(got) + size>> \in req.chunks
  BY <1>1, <1>2, ChunkNext
<1>5. m = IF size = 0 THEN n + 2 ELSE n
  BY DEF ChunkHeadLen
<1> HIDE DEF n, size, m
<1>6. Len(rxbuf) \in Nat /\ n \in Nat
  BY <1>1, <1>4, ChunkTypes
<1>7. m \in 0 .. Len(rxbuf)
  BY <1>4, <1>5, <1>6
<1>8. /\ rest' = Drop(rest, m) /\ rest' = Drop(req.wire, position')
      /\ position' = position + m /\ position' \in 0 .. Len(req.wire)
      /\ rxbuf' \in Seq(Bytes)
  BY <1>1, <1>2, <1>7, Skipped
<1>9. Cut'
  BY <1>1, <1>2, <1>8 DEF Cut
<1> DEFINE last == size = 0
<1>10. chunk = [state |-> "start", remaining |-> chunk.remaining,
                eof |-> FALSE, added |-> chunk.added] /\ chunk.added \in BOOLEAN
  BY <1>1, <1>2, <1>4, ChunkTypes
<1>11. chunk' = [state |-> IF last THEN "start" ELSE "data", remaining |-> size,
                 eof |-> last, added |-> chunk.added]
  <2>1. last \in BOOLEAN /\ (chunk.eof \/ last <=> last)
    BY <1>4
  <2>2. chunk' = [chunk EXCEPT !.state = IF last THEN @ ELSE "data",
                               !.remaining = size, !.eof = @ \/ last]
    BY <1>3
  <2> HIDE DEF last
  <2>3. chunk'.state = IF last THEN "start" ELSE "data"
    BY <1>10, <2>2
  <2>4. chunk' = [chunk EXCEPT !.state = IF last THEN "start" ELSE "data",
                               !.remaining = size, !.eof = last]
    <3>1. CASE last
      <4>1. (chunk.eof \/ last) = last
        BY <2>1, <3>1
      <4>2. QED BY <1>2, <2>2, <3>1, <4>1
    <3>2. CASE ~last
      <4>1. (chunk.eof \/ last) = last
        BY <2>1, <3>2, <1>4, <1>1, ChunkTypes
      <4>2. QED BY <2>2, <3>2, <4>1
    <3>3. QED BY <3>1, <3>2
  <2>5. QED BY <1>10, <2>1, <2>4
<1>12. last \in BOOLEAN /\ size \in Nat
  BY <1>4
<1>13. chunk' \in [state : {"plain", "start", "data"}, remaining : Nat,
                   eof : BOOLEAN, added : BOOLEAN]
  BY <1>10, <1>11, <1>12
<1>14. TypeOK'
  <2>1. input' \in Seq(Bytes) /\ got' \in Seq(Bytes)
    BY <1>1, <1>2, ChunkTypes
  <2>2. QED BY <1>1, <1>2, <1>8, <1>13, <2>1, TypedBuffers DEF Places
<1>15. BodyInv' /\ UpInv'
  BY <1>2, BodyKept
<1>16. ChunkInv'
  <2>1. Len(input') <= InputMax /\ (failed' = "chunk" => req'.malformed)
    BY <1>1, <1>2 DEF ChunkInv
  <2>2. CASE size = 0
    <3>1. chunk'.state = "start" /\ chunk'.eof
      BY <1>11, <2>2
    <3>2. ~req.malformed /\ Len(got) = Len(req.body) /\ rest' = req.next
      BY <1>4, <1>5, <1>8, <2>2
    <3>3. QED BY <1>2, <2>1, <2>2, <3>1, <3>2 DEF ChunkInv
  <2>3. CASE size # 0
    <3>1. chunk'.state = "data" /\ ~chunk'.eof /\ chunk'.remaining = size
      BY <1>11, <2>3
    <3>2. size > 0
      BY <1>4, <2>3
    <3>3. /\ rest \in Seq(Bytes) /\ Len(rest) \in Nat /\ position \in Nat
          /\ position + Len(rest) = Len(req.wire)
          /\ \A i \in 1 .. Len(rest) : rest[i] = req.wire[position + i]
      BY <1>1, RestIs
    <3>4. position' = position + n
      BY <1>5, <1>8, <2>3
    <3>5. Len(got) \in Nat
      BY <1>1, ChunkTypes
    <3>6. ASSUME NEW i \in 1 .. size, position + n + i <= Len(req.wire)
          PROVE  /\ Len(got) + i <= Len(req.body)
                 /\ req.wire[position + n + i] = req.body[Len(got) + i]
      <4>1. n + i <= Len(rest) /\ n + i \in 1 .. Len(rest)
            /\ position + (n + i) = position + n + i
        BY <1>4, <1>6, <3>3, <3>6
      <4>2. QED BY <1>4, <2>3, <3>3, <4>1
    <3>7. ASSUME position + n + size <= Len(req.wire)
          PROVE  <<position + n + size, Len(got) + size>> \in req.chunks
      <4>1. n + size <= Len(rest)
        BY <1>4, <1>6, <3>3, <3>7
      <4>2. QED BY <1>4, <2>3, <4>1
    <3>8. Continues(chunk.remaining)'
      BY <1>2, <3>1, <3>4, <3>6, <3>7 DEF Continues
    <3>9. QED BY <2>1, <3>1, <3>2, <3>8 DEF ChunkInv
  <2>4. QED BY <2>2, <2>3
<1>17. StreamInv'
  BY <1>1, <1>2, <1>16 DEF StreamInv
<1>18. QED BY <1>9, <1>14, <1>15, <1>17, Whole

LEMMA StepData ==
  ASSUME RxInv, FilterData
  PROVE  RxInv'
<1> DEFINE len == Smaller(chunk.remaining, Len(rxbuf))
           n == Smaller(InputMax - Len(input), len)
           left == chunk.remaining - n
<1>1. TypeOK /\ Cut /\ req.chunked /\ ChunkInv
  BY InChunks DEF FilterData, Filtering
<1>2. /\ chunk.state = "data" /\ Move(n)
      /\ pc = "filter" /\ pc' \in {"filter", "consume"}
      /\ UNCHANGED <<req, state, failed, files>>
  BY DEF FilterData, Filtering, At, Goto
<1>3. chunk' = [chunk EXCEPT !.state = IF n = chunk.remaining THEN "start" ELSE @,
                             !.remaining = @ - n, !.added = TRUE]
  BY DEF FilterData
<1>4. /\ Len(rxbuf) \in Nat /\ chunk.remaining \in Nat /\ Len(input) \in Nat
      /\ Len(input) <= InputMax /\ InputMax \in Nat /\ Len(got) \in Nat
  BY <1>1, ChunkTypes, RxAssumption DEF ChunkInv
<1>5. /\ n \in 0 .. Len(rxbuf) /\ n <= chunk.remaining /\ n \in Nat
      /\ Len(input) + n <= InputMax
  BY <1>4 DEF Smaller
<1>6. left \in Nat /\ left = chunk.remaining - n /\ (n # chunk.remaining => left > 0)
  BY <1>4, <1>5
<1> HIDE DEF n, left
<1>7. ~chunk.eof /\ chunk.remaining > 0 /\ Continues(chunk.remaining)
  BY <1>1, <1>2 DEF ChunkInv
<1>8. /\ position \in Nat /\ Len(rest) = Len(rxbuf) + Len(wire) /\ Len(wire) \in Nat
      /\ position + Len(rest) = Len(req.wire)
  BY <1>1, RestIs
<1>9. position + n <= Len(req.wire)
  BY <1>4, <1>5, <1>8
<1>10. /\ \A i \in 1 .. chunk.remaining : position + i <= Len(req.wire) =>
            /\ Len(got) + i <= Len(req.body)
            /\ req.wire[position + i] = req.body[Len(got) + i]
       /\ position + chunk.remaining <= Len(req.wire) =>
            <<position + chunk.remaining, Len(got) + chunk.remaining>> \in req.chunks
  BY <1>7 DEF Continues
<1>11. \A i \in 1 .. n : i \in 1 .. chunk.remaining /\ position + i <= Len(req.wire)
  BY <1>4, <1>5, <1>8
<1>12. \A i \in 1 .. n : /\ Len(got) + i <= Len(req.body)
                         /\ req.wire[position + i] = req.body[Len(got) + i]
  BY <1>10, <1>11
<1>13. /\ Cut' /\ position' = position + n
       /\ Len(got') = Len(got) + n /\ Len(input') = Len(input) + n
       /\ rxbuf' \in Seq(Bytes) /\ got' \in Seq(Bytes) /\ input' \in Seq(Bytes)
  BY <1>1, <1>2, <1>5, <1>12, Moved
<1>14. /\ chunk.eof \in BOOLEAN
       /\ chunk = [state |-> chunk.state, remaining |-> chunk.remaining,
                   eof |-> chunk.eof, added |-> chunk.added]
  BY <1>1, ChunkTypes
<1>15. chunk' = [state |-> IF n = chunk.remaining THEN "start" ELSE "data",
                 remaining |-> left, eof |-> chunk.eof, added |-> TRUE]
  <2>1. chunk' = [chunk EXCEPT !.state = IF n = chunk.remaining THEN "start" ELSE "data",
                               !.remaining = left, !.added = TRUE]
    BY <1>2, <1>3, <1>6
  <2>2. QED BY <1>14, <2>1
<1>16. chunk' \in [state : {"plain", "start", "data"}, remaining : Nat,
                   eof : BOOLEAN, added : BOOLEAN]
  BY <1>6, <1>14, <1>15
<1>17. wire' = wire /\ reads' = reads
  BY <1>2 DEF Move
<1>18. TypeOK'
  BY <1>1, <1>2, <1>13, <1>16, <1>17, TypedBuffers DEF Places
<1>19. BodyInv' /\ UpInv'
  BY <1>2, <1>5, BodyMoved
<1>20. ChunkInv'
  <2>1. Len(input') <= InputMax /\ (failed' = "chunk" => req'.malformed)
    BY <1>1, <1>2, <1>5, <1>13 DEF ChunkInv
  <2>2. ~chunk'.eof
    BY <1>7, <1>15
  <2>3. CASE n = chunk.remaining
    <3>1. chunk'.state = "start"
      BY <1>15, <2>3
    <3>2. <<position', Len(got')>> \in req'.chunks
      BY <1>2, <1>9, <1>10, <1>13, <2>3
    <3>3. QED BY <2>1, <2>2, <3>1, <3>2 DEF ChunkInv
  <2>4. CASE n # chunk.remaining
    <3>1. chunk'.state = "data" /\ chunk'.remaining = left /\ left > 0
      BY <1>6, <1>15, <2>4
    <3>2. ASSUME NEW i \in 1 .. left, position + n + i <= Len(req.wire)
          PROVE  /\ Len(got) + n + i <= Len(req.body)
                 /\ req.wire[position + n + i] = req.body[Len(got) + n + i]
      <4>1. /\ n + i \in 1 .. chunk.remaining
            /\ position + (n + i) = position + n + i
            /\ Len(got) + (n + i) = Len(got) + n + i
        BY <1>4, <1>5, <1>6, <1>8
      <4>2. /\ Len(got) + (n + i) <= Len(req.body)
            /\ req.wire[position + (n + i)] = req.body[Len(got) + (n + i)]
        BY <1>10, <3>2, <4>1
      <4>3. QED BY <4>1, <4>2
    <3>3. ASSUME position + n + left <= Len(req.wire)
          PROVE  <<position + n + left, Len(got) + n + left>> \in req.chunks
      <4>1. /\ position + n + left = position + chunk.remaining
            /\ Len(got) + n + left = Len(got) + chunk.remaining
        BY <1>4, <1>5, <1>6, <1>8
      <4>2. QED BY <1>10, <3>3, <4>1
    <3>4. Continues(chunk.remaining)'
      BY <1>2, <1>13, <3>1, <3>2, <3>3 DEF Continues
    <3>5. QED BY <2>1, <2>2, <3>1, <3>4 DEF ChunkInv
  <2>5. QED BY <2>3, <2>4
<1>21. StreamInv'
  BY <1>1, <1>2, <1>20 DEF StreamInv
<1>22. QED BY <1>13, <1>18, <1>19, <1>21, Whole

LEMMA StepQuiet ==
  ASSUME RxInv, UNCHANGED <<req, state, failed, buffers, files>>, pc' \in Places,
         pc # "freed",
         pc' \in {"select", "filter"} => ~chunk.eof \/ failed # "no" \/ ~req.chunked,
         pc' # "handler", pc' # "freed",
         pc' = "eof" => req.consumer # "put" \/ failed # "no",
         pc' \in {"upload", "parsing"} => req.consumer = "upload"
  PROVE  RxInv'
<1>1. TypeOK /\ Cut /\ BodyInv /\ UpInv
  BY DEF RxInv
<1>2. TypeOK'
  BY <1>1, TypedQuiet
<1>3. UNCHANGED <<wire, rxbuf, input, chunk, got, reads, disk, up>>
  BY DEF buffers, files
<1>4. Cut' /\ UNCHANGED <<rest, position>>
  BY <1>1, <1>3, SameBuffers
<1>5. StreamInv'
  <2>1. UNCHANGED <<chunk.state, chunk.remaining, chunk.eof>>
    BY <1>3
  <2>2. QED BY <1>3, <1>4, <2>1, StreamKept
<1>6. BodyInv'
  BY <1>1, <1>3 DEF BodyInv
<1>7. UpInv'
  BY <1>1, <1>3 DEF UpInv, InUpload, At
<1>8. QED BY <1>2, <1>4, <1>5, <1>6, <1>7, Whole

(***************************************************************************)
(* The consumers of the body.                                              *)
(***************************************************************************)

LEMMA StepWaits ==
  ASSUME RxInv,
         Filtered \/ FilterWaits \/ ConsumeForm \/ ConsumeUpload
           \/ UploadWaits \/ UploadDataWaits \/ UploadCrash
  PROVE  RxInv'
<1>1. UNCHANGED <<req, state, failed, buffers, files>>
  BY DEF Filtered, FilterWaits, ConsumeForm, ConsumeUpload, UploadWaits,
         UploadDataWaits, UploadCrash
<1>2. \/ pc = "filter" /\ pc' \in {"consume", "select"}
      \/ pc = "consume" /\ (req.consumer = "put" => failed # "no") /\ pc' = "eof"
      \/ pc = "consume" /\ req.consumer = "upload" /\ pc' = "upload"
      \/ pc \in {"upload", "parsing"} /\ pc' \in {"eof", "crashed"}
  BY DEF Filtered, FilterWaits, ConsumeForm, ConsumeUpload, UploadWaits,
         UploadDataWaits, UploadCrash, Filtering, Uploading, InUpload, At, Goto, PutOpen
<1>3. /\ pc \in {"upload", "parsing"} => req.consumer = "upload"
      /\ pc = "filter" /\ req.chunked /\ chunk.eof => failed # "no"
  BY DEF RxInv, StreamInv, UpInv, InUpload, At, ChunkInv
<1>4. QED BY <1>1, <1>2, <1>3, StepQuiet DEF Places

LEMMA StepConsumePut ==
  ASSUME RxInv, ConsumePut
  PROVE  RxInv'
<1> DEFINE file == disk[PutFile]
<1>1. TypeOK /\ Cut /\ BodyInv /\ UpInv
  BY DEF RxInv
<1>2. TypeOK' /\ Cut'
  BY TypedConsumePut
<1>3. /\ pc = "consume" /\ pc' = "eof" /\ req.consumer = "put"
      /\ disk' = [disk EXCEPT ![PutFile] = @ \o input]
      /\ ConsumeInput(Len(input)) /\ UNCHANGED <<req, failed, up>>
  BY DEF ConsumePut, At, Goto, PutOpen
<1>4. input \in Seq(Bytes) /\ Len(input) \in Nat /\ Len(input) \in 0 .. Len(input)
  BY <1>1, ChunkTypes
<1>5. /\ input' \in Seq(Bytes) /\ Len(input') = Len(input) - Len(input)
      /\ UNCHANGED <<chunk, got, rest, position>>
  BY <1>1, <1>3, <1>4, Consumed
<1>6. input' = << >> /\ Len(input') = 0
  BY <1>4, <1>5
<1>7. StreamInv'
  <2>1. Len(input') <= InputMax
    BY <1>6, RxAssumption
  <2>2. UNCHANGED <<chunk.state, chunk.remaining, chunk.eof>>
    BY <1>5
  <2>3. QED BY <1>3, <1>5, <2>1, <2>2, StreamKept
<1>8. DOMAIN disk = {PutFile} /\ (failed = "no" => file \o input = got)
  BY <1>1, <1>3 DEF BodyInv
<1>9. file \in Seq(Bytes)
  BY <1>1, <1>8 DEF TypeOK
<1>10. DOMAIN disk' = {PutFile} /\ disk'[PutFile] = file \o input
  BY <1>3, <1>8
<1>11. (file \o input) \o << >> = file \o input
  <2> HIDE DEF file
  <2>1. file \o input \in Seq(Bytes)
    BY <1>4, <1>9
  <2>2. QED BY <2>1
<1>12. BodyInv'
  BY <1>3, <1>5, <1>6, <1>8, <1>10, <1>11 DEF BodyInv
<1>13. UpInv'
  <2>1. DOMAIN disk' = DOMAIN disk
    BY <1>8, <1>10
  <2>2. QED BY <1>1, <1>3, <2>1 DEF UpInv, InUpload, At
<1>14. QED BY <1>2, <1>7, <1>12, <1>13, Whole

LEMMA StepRefusePut ==
  ASSUME RxInv, RefusePut
  PROVE  RxInv'
<1>1. TypeOK /\ Cut /\ BodyInv /\ UpInv
  BY DEF RxInv
<1>2. TypeOK' /\ DOMAIN disk' = DOMAIN disk
  BY <1>1, TypedRefusePut
<1>3. /\ pc = "consume" /\ pc' = "select" /\ req.consumer = "put" /\ Fail("write")
      /\ UNCHANGED <<req, buffers, up>>
  BY DEF RefusePut, At, Goto, PutOpen
<1>4. UNCHANGED <<wire, rxbuf, input, chunk, got, reads>>
  BY <1>3 DEF buffers
<1>5. Cut' /\ UNCHANGED <<rest, position>>
  BY <1>1, <1>3, <1>4, SameBuffers
<1>6. failed' # "no" /\ (failed # "no" => failed' = failed) /\ (failed = "no" => failed' = "write")
  BY <1>1, <1>3, TypeParts, FailType
<1>7. StreamInv'
  <2>1. failed' = "chunk" => failed = "chunk"
    BY <1>6
  <2>2. UNCHANGED <<chunk.state, chunk.remaining, chunk.eof>>
    BY <1>4
  <2>3. QED BY <1>3, <1>4, <1>5, <1>6, <2>1, <2>2, StreamKept
<1>8. BodyInv'
  BY <1>1, <1>2, <1>3, <1>4, <1>6 DEF BodyInv
<1>9. UpInv'
  BY <1>1, <1>2, <1>3 DEF UpInv, InUpload, At
<1>10. QED BY <1>2, <1>5, <1>7, <1>8, <1>9, Whole

LEMMA StepTestEof ==
  ASSUME RxInv, TestEof
  PROVE  RxInv'
<1>1. TypeOK /\ Cut /\ BodyInv /\ UpInv
  BY DEF RxInv
<1>2. TypeOK'
  BY <1>1, TypedTestEof
<1>3. /\ pc = "eof" /\ pc' = IF chunk.eof THEN "handler" ELSE "select"
      /\ UNCHANGED <<req, failed, buffers, files>>
  BY DEF TestEof, At, Goto
<1>4. UNCHANGED <<wire, rxbuf, input, chunk, got, reads, disk, up>>
  BY <1>3 DEF buffers, files
<1>5. Cut' /\ UNCHANGED <<rest, position>>
  BY <1>1, <1>3, <1>4, SameBuffers
<1>6. StreamInv'
  <2>1. UNCHANGED <<chunk.state, chunk.remaining, chunk.eof>>
    BY <1>4
  <2>2. QED BY <1>3, <1>4, <1>5, <2>1, StreamKept
<1>7. BodyInv'
  BY <1>1, <1>3, <1>4 DEF BodyInv
<1>8. UpInv'
  BY <1>1, <1>3, <1>4 DEF UpInv, InUpload, At
<1>9. QED BY <1>2, <1>5, <1>6, <1>7, <1>8, Whole

LEMMA StepTermWebs ==
  ASSUME RxInv, TermWebs(failed'), EndsAfter(failed'), pc # "freed"
  PROVE  RxInv'
<1>1. TypeOK /\ Cut /\ BodyInv /\ UpInv
  BY DEF RxInv
<1>2. TypeOK'
  BY <1>1, TypedTermWebs
<1>3. /\ pc' = "freed" /\ up' = NoParts /\ UNCHANGED <<req, buffers>>
      /\ disk' = [i \in DOMAIN disk \
                    (Unlinked(up) \cup IF PutOpen(failed') THEN {PutFile} ELSE {})
                  |-> disk[i]]
  BY DEF TermWebs, Goto
<1>4. UNCHANGED <<wire, rxbuf, input, chunk, got, reads>>
  BY <1>3 DEF buffers
<1>5. Cut' /\ UNCHANGED <<rest, position>>
  BY <1>1, <1>3, <1>4, SameBuffers
<1>6. StreamInv'
  <2>1. UNCHANGED <<chunk.state, chunk.remaining, chunk.eof>>
    BY <1>4
  <2>2. failed' = "chunk" => failed = "chunk"
    BY DEF EndsAfter
  <2>3. QED BY <1>3, <1>4, <1>5, <2>1, <2>2, StreamKept
<1>7. BodyInv'
  BY <1>1, <1>3, <1>4 DEF BodyInv
<1>8. UpInv'
  <2>1. DOMAIN disk' \subseteq DOMAIN disk
    BY <1>3
  <2>2. IsFiniteSet(DOMAIN disk')
    BY <1>1, <2>1, FS_Subset DEF UpInv
  <2>3. ~up'.isFile
    BY <1>3 DEF NoParts
  <2>4. QED BY <1>3, <2>2, <2>3 DEF UpInv, InUpload, At
<1>9. QED BY <1>2, <1>5, <1>6, <1>7, <1>8, Whole

LEMMA UploadKeeps ==
  ASSUME RxInv, NEW n \in 0 .. Len(input), ConsumeInput(n), req' = req,
         req.consumer = "upload", pc' \in {"upload", "parsing", "eof"},
         failed' = "chunk" => failed = "chunk", TypeOK', UpInv'
  PROVE  RxInv'
<1>1. TypeOK /\ Cut /\ BodyInv
  BY DEF RxInv
<1>2. /\ Cut' /\ input' \in Seq(Bytes) /\ Len(input') = Len(input) - n
      /\ UNCHANGED <<wire, rxbuf, chunk, got, reads, rest, position>>
  BY <1>1, Consumed
<1>3. StreamInv'
  <2>1. UNCHANGED <<chunk.state, chunk.remaining, chunk.eof>>
    BY <1>2
  <2>2. Len(input) <= InputMax => Len(input') <= InputMax
    <3>1. Len(input) \in Nat /\ InputMax \in Nat
      BY <1>1, ChunkTypes, RxAssumption
    <3>2. QED BY <1>2, <3>1
  <2>3. req.chunked => Len(input) <= InputMax
    BY DEF RxInv, StreamInv, ChunkInv
  <2>4. CASE req.chunked
    BY <1>2, <2>1, <2>2, <2>3, <2>4, StreamKept
  <2>5. CASE ~req.chunked
    <3>1. PlainInv /\ failed # "chunk"
      BY <2>5 DEF RxInv, StreamInv
    <3>2. PlainInv' /\ failed' # "chunk"
      BY <1>2, <3>1 DEF PlainInv
    <3>3. QED BY <2>5, <3>2 DEF StreamInv
  <2>6. QED BY <2>4, <2>5
<1>4. BodyInv'
  BY DEF BodyInv
<1>5. QED BY <1>2, <1>3, <1>4, Whole

LEMMA Uploads ==
  ASSUME RxInv, NEW s, Uploading(s)
  PROVE  req.consumer = "upload" /\ pc # "freed"
BY DEF RxInv, UpInv, Uploading, InUpload, At

LEMMA StepUploadInit ==
  ASSUME RxInv, UploadInit
  PROVE  RxInv'
<1>1. TypeOK /\ Cut /\ BodyInv /\ UpInv
  BY DEF RxInv
<1>2. TypeOK'
  BY <1>1, TypedInit
<1>3. /\ up' = [up EXCEPT !.state = "boundary"]
      /\ UNCHANGED <<req, pc, failed, buffers, disk>>
  BY DEF UploadInit
<1>4. UNCHANGED <<wire, rxbuf, input, chunk, got, reads>>
  BY <1>3 DEF buffers
<1>5. Cut' /\ UNCHANGED <<rest, position>>
  BY <1>1, <1>3, <1>4, SameBuffers
<1>6. req.consumer = "upload" /\ pc \in {"upload", "parsing"}
  BY Uploads DEF UploadInit, Uploading, InUpload, At
<1>7. StreamInv'
  <2>1. UNCHANGED <<chunk.state, chunk.remaining, chunk.eof>>
    BY <1>4
  <2>2. QED BY <1>3, <1>4, <1>5, <1>6, <2>1, StreamKept
<1>8. BodyInv'
  BY <1>1, <1>3, <1>4 DEF BodyInv
<1>9. UpInv'
  <2>1. up \in PartsType(FileIds, Bytes)
    BY <1>1 DEF TypeOK
  <2>2. UNCHANGED <<up.isFile, up.upfd, up.current, up.var>>
    BY <1>3, <2>1 DEF PartsType
  <2>3. QED BY <1>1, <1>3, <1>6, <2>2 DEF UpInv, InUpload, At
<1>10. QED BY <1>2, <1>5, <1>7, <1>8, <1>9, Whole

LEMMA StepUploadBoundary ==
  ASSUME RxInv, UploadBoundary
  PROVE  RxInv'
<1>1. TypeOK /\ Cut /\ UpInv
  BY DEF RxInv
<1>2. TypeOK'
  BY <1>1, TypedBoundary
<1>3. /\ ReadsLine("boundary") /\ ConsumeInput(LineEnd(input))
      /\ UNCHANGED <<req, disk>>
      /\ \/ up' = processContentBoundary(up, NextLine) /\ failed' = failed /\ pc' = "parsing"
         \/ up' = up /\ Fail("boundary") /\ pc' = "eof"
  BY DEF UploadBoundary, NoFailure, Goto
<1>4. req.consumer = "upload" /\ LineEnd(input) \in 0 .. Len(input)
  BY <1>1, <1>3, Uploads, LineType DEF ReadsLine
<1>5. up \in PartsType(FileIds, Bytes)
  BY <1>1 DEF TypeOK
<1>6. UNCHANGED <<up.isFile, up.upfd, up.current, up.var>>
  BY <1>3, <1>5 DEF PartsType, processContentBoundary
<1>7. UpInv'
  BY <1>1, <1>3, <1>4, <1>6 DEF UpInv
<1>8. failed' = "chunk" => failed = "chunk"
  <2>1. Fail("boundary") => failed' # "chunk" \/ failed = "chunk"
    BY DEF Fail, Failed
  <2>2. QED BY <1>3, <2>1
<1>9. pc' \in {"upload", "parsing", "eof"}
  BY <1>3
<1>10. QED BY <1>2, <1>3, <1>4, <1>7, <1>8, <1>9, UploadKeeps

LEMMA StepUploadHeader ==
  ASSUME RxInv, UploadHeader
  PROVE  RxInv'
<1>1. TypeOK /\ Cut /\ UpInv /\ IsFiniteSet(DOMAIN disk)
  BY DEF RxInv, UpInv
<1>2. TypeOK'
  BY <1>1, TypedHeader
<1>3. /\ ReadsLine("header") /\ ConsumeInput(LineEnd(input))
      /\ pc' = "parsing" /\ UNCHANGED <<req, failed>>
  BY DEF UploadHeader, Goto
<1>4. req.consumer = "upload" /\ LineEnd(input) \in 0 .. Len(input)
  BY <1>1, <1>3, Uploads, LineType DEF ReadsLine
<1>5. up \in PartsType(FileIds, Bytes) /\ DiskType(disk)
  BY <1>1, TypeParts DEF FileType
<1> DEFINE field == IF NextLine = << >> THEN NoName ELSE NextLine[1]
<1>6. \/ up' = HeaderEnds(up) /\ UNCHANGED disk
      \/ up' = VarHeader(up, field) /\ UNCHANGED disk
      \/ /\ field \in FileFields /\ up' = FileHeader(up, field, NextId)
         /\ disk' = With(disk, NextId, << >>)
      \/ UNCHANGED <<up, disk>>
  BY DEF UploadHeader
<1> HIDE DEF field
<1>7. CASE up' = HeaderEnds(up) /\ UNCHANGED disk
  <2>1. UNCHANGED <<up.isFile, up.upfd, up.current, up.var>>
    BY <1>5, <1>7 DEF PartsType, HeaderEnds
  <2>2. UpInv'
    BY <1>1, <1>3, <1>4, <1>7, <2>1 DEF UpInv
  <2>3. QED BY <1>2, <1>3, <1>4, <2>2, UploadKeeps
<1>8. CASE up' = VarHeader(up, field) /\ UNCHANGED disk
  <2>1. ~up'.isFile
    BY <1>5, <1>8 DEF PartsType, VarHeader
  <2>2. UpInv'
    BY <1>1, <1>3, <1>4, <1>8, <2>1 DEF UpInv
  <2>3. QED BY <1>2, <1>3, <1>4, <2>2, UploadKeeps
<1>9. CASE /\ field \in FileFields /\ up' = FileHeader(up, field, NextId)
           /\ disk' = With(disk, NextId, << >>)
  <2>1. up'.upfd = NextId /\ up'.current = NextId /\ up'.var = field
    BY <1>5, <1>9 DEF PartsType, FileHeader
  <2>2. DOMAIN disk' = DOMAIN disk \cup {NextId}
    BY <1>1, <1>5, <1>9, NextIdIs, Opened
  <2>3. IsFiniteSet(DOMAIN disk')
    BY <1>1, <2>2, FS_AddElement
  <2>4. UpInv'
    BY <1>3, <1>4, <1>9, <2>1, <2>2, <2>3 DEF UpInv
  <2>5. QED BY <1>2, <1>3, <1>4, <2>4, UploadKeeps
<1>10. CASE UNCHANGED <<up, disk>>
  <2>1. UpInv'
    BY <1>1, <1>3, <1>4, <1>10 DEF UpInv
  <2>2. QED BY <1>2, <1>3, <1>4, <2>1, UploadKeeps
<1>11. QED BY <1>6, <1>7, <1>8, <1>9, <1>10

LEMMA StepUploadData ==
  ASSUME RxInv, UploadData
  PROVE  RxInv'
<1>1. TypeOK /\ UpInv
  BY DEF RxInv
<1>2. TypeOK' /\ DOMAIN disk' = DOMAIN disk /\ pc' \in {"upload", "parsing", "eof"}
  BY TypedData
<1> DEFINE n == Held(input)
<1>3. input \in Seq(Bytes) /\ Len(input) >= boundaryLen
  BY <1>1, ChunkTypes DEF UploadData
<1>4. n \in 0 .. Len(input)
  BY <1>3, HeldIs
<1>5. Len(Take(input, n)) = n
  BY <1>3, <1>4, TakeIs
<1>6. /\ ConsumeInput(Len(Take(input, n))) /\ Uploading("data")
      /\ UNCHANGED <<req, failed, up>>
  BY DEF UploadData
<1> HIDE DEF n
<1>7. req.consumer = "upload"
  BY <1>6, Uploads
<1>8. UpInv'
  BY <1>1, <1>2, <1>6, <1>7 DEF UpInv
<1>9. ConsumeInput(n)
  BY <1>5, <1>6
<1>10. QED BY <1>2, <1>4, <1>6, <1>7, <1>8, <1>9, UploadKeeps

LEMMA StepUploadPart ==
  ASSUME RxInv, UploadPart
  PROVE  RxInv'
<1>1. TypeOK /\ UpInv
  BY DEF RxInv
<1>2. TypeOK' /\ DOMAIN disk' = DOMAIN disk /\ pc' \in {"upload", "parsing", "eof"}
  BY TypedPart
<1> DEFINE n == PartLen(input)
           data == Take(input, n)
<1>3. input \in Seq(Bytes)
  BY <1>1, ChunkTypes
<1>4. n \in 0 .. Len(input)
  BY <1>3, PartLenIs
<1>5. data \in Seq(Bytes) /\ Len(data) = n
  BY <1>3, <1>4, TakeIs
<1>6. /\ ConsumeInput(Len(data)) /\ Uploading("data")
      /\ up' = Closed(Entered(up, data, Cleared(data))) /\ UNCHANGED <<req, failed>>
  BY DEF UploadPart
<1> HIDE DEF data, n
<1>7. req.consumer = "upload"
  BY <1>6, Uploads
<1>8. ~up'.isFile
  <2>1. up \in PartsType(FileIds, Bytes)
    BY <1>1 DEF TypeOK
  <2>2. Entered(up, data, Cleared(data)) \in PartsType(FileIds, Bytes)
    BY <1>5, <2>1, EnteredIs DEF Cleared, At
  <2>3. QED BY <1>6, <2>2 DEF Closed, PartsType
<1>9. UpInv'
  BY <1>1, <1>2, <1>6, <1>7, <1>8 DEF UpInv
<1>10. ConsumeInput(n)
  BY <1>5, <1>6
<1>11. QED BY <1>2, <1>4, <1>6, <1>7, <1>9, <1>10, UploadKeeps

LEMMA StepUploadFails ==
  ASSUME RxInv, UploadFails
  PROVE  RxInv'
<1>1. TypeOK /\ Cut /\ UpInv
  BY DEF RxInv
<1>2. TypeOK'
  BY <1>1, TypedFails
<1>3. PICK n \in 0 .. Len(input) : ConsumeInput(n)
  <2>1. input \in Seq(Bytes) /\ Len(input) \in Nat
    BY <1>1, ChunkTypes
  <2>2. PartLen(input) \in 0 .. Len(input) /\ 0 \in 0 .. Len(input)
    BY <2>1, PartLenIs
  <2>3. ConsumeInput(PartLen(input)) \/ ConsumeInput(0)
    BY DEF UploadFails
  <2>4. QED BY <2>2, <2>3
<1>4. /\ Uploading("data") /\ Fail("write") /\ pc' = "eof"
      /\ UNCHANGED <<req, files>>
  BY DEF UploadFails, Goto
<1>5. req.consumer = "upload"
  BY <1>4, Uploads
<1>6. UpInv'
  BY <1>1, <1>4, <1>5 DEF UpInv, files
<1>7. failed' = "chunk" => failed = "chunk"
  BY <1>4 DEF Fail, Failed
<1>8. QED BY <1>2, <1>3, <1>4, <1>5, <1>6, <1>7, UploadKeeps

(***************************************************************************)
(* The invariant.                                                          *)
(***************************************************************************)

LEMMA RxInit == Init => RxInv
<1> SUFFICES ASSUME Init PROVE RxInv
  OBVIOUS
<1>1. /\ req \in Requests /\ pc = "select" /\ state = "content" /\ failed = "no"
      /\ wire = req.wire /\ rxbuf = << >> /\ input = << >> /\ got = << >>
      /\ chunk = [state |-> IF req.chunked THEN "start" ELSE "plain",
                  remaining |-> IF req.chunked THEN 0 ELSE Len(req.body),
                  eof |-> FALSE, added |-> FALSE]
      /\ putLen = 0 /\ up = NoParts /\ kept = << >>
      /\ disk = IF req.consumer = "put" THEN [i \in {PutFile} |-> << >>] ELSE << >>
      /\ reads = 0 /\ lineLost = FALSE
  BY DEF Init
<1>2. /\ req.wire \in Seq(Bytes) /\ req.body \in Seq(Bytes)
      /\ Len(req.wire) \in Nat /\ Len(req.body) \in Nat
      /\ req.chunked \in BOOLEAN
      /\ req.chunked => <<0, 0>> \in req.chunks
  <2>1. req.wire \in Seq(Bytes) /\ req.body \in Seq(Bytes) /\ req.chunked \in BOOLEAN
    BY <1>1, RxAssumption
  <2>2. req.chunked => <<0, 0>> \in req.chunks
    BY <1>1, RxAssumption
  <2>3. Len(req.wire) \in Nat /\ Len(req.body) \in Nat
    BY <2>1
  <2>4. QED BY <2>1, <2>2, <2>3
<1>3. << >> \in Seq(Bytes) /\ Len(<< >>) = 0 /\ DOMAIN << >> = {}
  OBVIOUS
<1>4. DOMAIN disk = IF req.consumer = "put" THEN {PutFile} ELSE {}
  BY <1>1, <1>3
<1>5. \A i \in DOMAIN disk : disk[i] = << >>
  BY <1>1, <1>3
<1>6. TypeOK
  <2>1. FlowType
    BY <1>1 DEF FlowType
  <2>2. chunk \in [state : {"plain", "start", "data"}, remaining : Nat,
                   eof : BOOLEAN, added : BOOLEAN]
    BY <1>1, <1>2
  <2>3. BufferType
    BY <1>1, <1>2, <1>3, <2>2 DEF BufferType
  <2>4. DiskType(disk)
    <3>1. DOMAIN disk \subseteq FileIds
      BY <1>4 DEF FileIds, PutFile
    <3>2. \A i \in DOMAIN disk : disk[i] \in Seq(Bytes)
      BY <1>3, <1>5
    <3>3. QED BY <3>1, <3>2 DEF DiskType
  <2>5. KeptType(kept)
    BY <1>1, <1>3 DEF KeptType
  <2>6. up \in PartsType(FileIds, Bytes)
    BY <1>1 DEF NoParts, PartsType
  <2>7. FileType
    BY <1>1, <2>4, <2>5, <2>6 DEF FileType
  <2>8. QED BY <2>1, <2>3, <2>7, TypeParts
<1>7. rest = req.wire
  <2> DEFINE w == req.wire
  <2>1. w \in Seq(Bytes)
    BY <1>2
  <2> HIDE DEF w
  <2>2. << >> \o w = w
    BY <2>1
  <2>3. QED BY <1>1, <2>2 DEF rest, w
<1>8. position = 0
  BY <1>2, <1>7 DEF position
<1>9. Drop(req.wire, 0) = req.wire
  <2> DEFINE w == req.wire
  <2>1. w \in Seq(Bytes) /\ 0 \in 0 .. Len(w) /\ Len(w) \in Nat
    BY <1>2
  <2> HIDE DEF w
  <2>2. /\ Drop(w, 0) \in Seq(Bytes) /\ Len(Drop(w, 0)) = Len(w) - 0
        /\ \A i \in 1 .. Len(w) - 0 : Drop(w, 0)[i] = w[0 + i]
    BY <2>1, DropIs
  <2>3. Len(Drop(w, 0)) = Len(w) /\ \A i \in 1 .. Len(Drop(w, 0)) : Drop(w, 0)[i] = w[i]
    BY <2>1, <2>2
  <2>4. Drop(w, 0) = w
    BY <2>1, <2>2, <2>3, SameSeq
  <2>5. QED BY <2>4 DEF w
<1>10. Cut
  BY <1>1, <1>2, <1>3, <1>7, <1>8, <1>9 DEF Cut
<1>11. BodyInv
  <2>1. ASSUME req.consumer = "put"
        PROVE  DOMAIN disk = {PutFile} /\ disk[PutFile] \o input = got
    <3>1. DOMAIN disk = {PutFile} /\ disk[PutFile] = << >>
      BY <1>4, <1>5, <2>1
    <3>2. << >> \o << >> = << >>
      OBVIOUS
    <3>3. QED BY <1>1, <3>1, <3>2
  <2>2. QED BY <1>1, <2>1 DEF BodyInv
<1>12. UpInv
  <2>1. IsFiniteSet(DOMAIN disk)
    BY <1>4, FS_EmptySet, FS_Singleton
  <2>2. QED BY <1>1, <2>1 DEF UpInv, InUpload, At, NoParts
<1>13. StreamInv
  <2>1. CASE req.chunked
    <3>1. chunk.state = "start" /\ ~chunk.eof
      BY <1>1, <2>1
    <3>2. Len(input) <= InputMax
      BY <1>1, <1>3, RxAssumption
    <3>3. <<position, Len(got)>> \in req.chunks
      BY <1>1, <1>2, <1>3, <1>8, <2>1
    <3>4. QED BY <1>1, <2>1, <3>1, <3>2, <3>3 DEF StreamInv, ChunkInv
  <2>2. CASE ~req.chunked
    <3>1. chunk.state = "plain" /\ chunk.remaining = Len(req.body) /\ ~chunk.eof
      BY <1>1, <2>2
    <3>2. QED BY <1>1, <1>2, <1>3, <1>8, <2>2, <3>1 DEF StreamInv, PlainInv
  <2>3. QED BY <2>1, <2>2
<1>14. QED BY <1>6, <1>10, <1>11, <1>12, <1>13, Whole

LEMMA RxNext == RxInv /\ [Next]_vars => RxInv'
<1> SUFFICES ASSUME RxInv, [Next]_vars PROVE RxInv'
  OBVIOUS
<1>1. CASE Filter
  <2>1. CASE Filtered \/ FilterWaits
    BY <2>1, StepWaits
  <2>2. QED BY <1>1, <2>1, StepPlain, StepBad, StepStart, StepData DEF Filter
<1>2. CASE Consume
  <2>1. CASE ConsumeForm \/ ConsumeUpload
    BY <2>1, StepWaits
  <2>2. QED BY <1>2, <2>1, StepConsumePut, StepRefusePut, StepTestEof DEF Consume
<1>3. CASE Parse
  <2>1. CASE UploadWaits \/ UploadDataWaits \/ UploadCrash
    BY <2>1, StepWaits
  <2>2. QED BY <1>3, <2>1, StepUploadInit, StepUploadBoundary, StepUploadHeader,
               StepUploadData, StepUploadPart, StepUploadFails DEF Parse
<1>4. CASE Handled \/ Complete \/ Gone
  BY <1>4, Ended, StepTermWebs
<1>5. CASE Read
  BY <1>5, StepRead
<1>6. CASE UNCHANGED vars
  <2>1. UNCHANGED <<req, pc, state, failed, buffers, files>>
    BY <1>6 DEF vars
  <2>2. UNCHANGED <<wire, rxbuf, input, chunk, got, reads, disk, up>>
    BY <2>1 DEF buffers, files
  <2>3. TypeOK /\ Cut /\ BodyInv /\ UpInv
    BY DEF RxInv
  <2>4. TypeOK'
    <3>1. pc' \in Places
      BY <2>1, <2>3 DEF TypeOK, Places
    <3>2. QED BY <2>1, <2>3, <3>1, TypedQuiet
  <2>5. Cut' /\ UNCHANGED <<rest, position>>
    BY <2>1, <2>2, <2>3, SameBuffers
  <2>6. BodyInv' /\ UpInv'
    BY <2>1, <2>2, <2>3 DEF BodyInv, UpInv, InUpload, At
  <2>7. UNCHANGED <<chunk.state, chunk.remaining, chunk.eof>>
    BY <2>2
  <2>8. req.chunked /\ chunk.eof /\ pc' \in {"select", "filter"} => failed' # "no"
    BY <2>1 DEF RxInv, StreamInv, ChunkInv
  <2>9. StreamInv'
    BY <2>1, <2>2, <2>5, <2>7, <2>8, StreamKept
  <2>10. QED BY <2>4, <2>5, <2>6, <2>9, Whole
<1>7. QED BY <1>1, <1>2, <1>3, <1>4, <1>5, <1>6 DEF Next, Thread

\* The buffers, the parts of a form and the temporary files keep their types.
THEOREM TypeCorrect == Spec => []TypeOK
<1>1. RxInv => TypeOK
  BY DEF RxInv
<1>2. QED BY <1>1, RxInit, RxNext, PTL DEF Spec

LEMMA WholeBody ==
  ASSUME RxInv, chunk.eof
  PROVE  got = req.body /\ ~req.malformed /\ rest = req.next
<1>1. TypeOK /\ Cut
  BY DEF RxInv
<1>2. /\ got \in Seq(Bytes) /\ req.body \in Seq(Bytes) /\ req.next \in Seq(Bytes)
      /\ Len(got) \in Nat /\ Len(req.body) \in Nat /\ Len(req.wire) \in Nat
  BY <1>1, ChunkTypes, ReqIs
<1>3. \A i \in 1 .. Len(got) : got[i] = req.body[i]
  BY <1>1 DEF Cut
<1>4. CASE req.chunked
  <2>1. Len(got) = Len(req.body) /\ ~req.malformed /\ rest = req.next
    BY <1>4 DEF RxInv, StreamInv, ChunkInv
  <2>2. QED BY <1>2, <1>3, <2>1, SameSeq
<1>5. CASE ~req.chunked
  <2>1. PlainInv
    BY <1>5 DEF RxInv, StreamInv
  <2>2. position = Len(got) /\ Len(got) = Len(req.body)
    BY <1>2, <2>1 DEF PlainInv
  <2>3. got = req.body
    BY <1>2, <1>3, <2>2, SameSeq
  <2>4. ~req.malformed
    <3>1. req \in Requests
      BY <1>1 DEF TypeOK
    <3>2. QED BY <1>5, <3>1, RxAssumption
  <2>5. rest = Drop(req.wire, Len(req.body)) /\ req.wire = req.body \o req.next
    BY <1>1, <1>5, <2>2, ReqIs DEF Cut
  <2> DEFINE b == req.body
             x == req.next
  <2>6. b \in Seq(Bytes) /\ x \in Seq(Bytes) /\ Len(b) \in Nat /\ Len(b) \in 0 .. Len(b)
    BY <1>2
  <2>7. rest = Drop(b \o x, Len(b))
    BY <2>5
  <2> HIDE DEF b, x
  <2>8. Drop(b \o x, Len(b)) = Drop(b, Len(b)) \o x
    BY <2>6, DropCat
  <2>9. Drop(b, Len(b)) = << >>
    <3>1. Drop(b, Len(b)) \in Seq(Bytes) /\ Len(Drop(b, Len(b))) = Len(b) - Len(b)
      BY <2>6, DropIs
    <3>2. QED BY <2>6, <3>1
  <2>10. << >> \o x = x
    BY <2>6
  <2>11. rest = x
    BY <2>7, <2>8, <2>9, <2>10
  <2>12. QED BY <2>3, <2>4, <2>11 DEF x
<1>6. QED BY <1>4, <1>5

\* filterChunkData takes the body, and nothing else, out of the stream, with
\* and without chunks, wherever the network cuts the stream: what it has given
\* to input begins the body, only malformed chunks are refused, and at the
\* end of the body it has all of it and has left the next request alone.
THEOREM BodyIsFiltered == Spec => []FilterExact
<1>1. RxInv => FilterExact
  <2> SUFFICES ASSUME RxInv PROVE FilterExact
    OBVIOUS
  <2>1. TypeOK /\ Cut
    BY DEF RxInv
  <2>2. IsPrefix(got, req.body)
    <3> DEFINE b == req.body
               k == Len(got)
    <3>1. /\ got \in Seq(Bytes) /\ b \in Seq(Bytes) /\ k \in Nat /\ Len(b) \in Nat
          /\ k <= Len(b) /\ \A i \in 1 .. k : got[i] = b[i]
          /\ k \in 0 .. Len(got) /\ k \in 0 .. Len(b) /\ Len(got) = k
      BY <2>1, ChunkTypes, ReqIs DEF Cut
    <3> HIDE DEF b, k
    <3>2. Take(got, k) \in Seq(Bytes) /\ Len(Take(got, k)) = k
          /\ \A i \in 1 .. k : Take(got, k)[i] = got[i]
      BY <3>1, TakeIs
    <3>3. Take(b, k) \in Seq(Bytes) /\ Len(Take(b, k)) = k
          /\ \A i \in 1 .. k : Take(b, k)[i] = b[i]
      BY <3>1, TakeIs
    <3>4. Take(got, k) = Take(b, k)
      BY <3>1, <3>2, <3>3, SameSeq
    <3>5. IsPrefix(got, b)
      BY <3>1, <3>4 DEF IsPrefix, Take
    <3>6. QED BY <3>5 DEF b
  <2>3. failed = "chunk" => req.malformed
    BY DEF RxInv, StreamInv, ChunkInv
  <2>4. QED BY <2>2, <2>3, WholeBody DEF FilterExact, rest
<1>2. QED BY <1>1, RxInit, RxNext, PTL DEF Spec

\* The body of a PUT is whole when its handler runs.
LEMMA PutIsWhole ==
  ASSUME RxInv, pc = "handler", failed = "no", req.consumer = "put"
  PROVE  disk[PutFile] = req.body
<1> DEFINE file == disk[PutFile]
<1>1. BodyInv /\ TypeOK
  BY DEF RxInv
<1>2. got = req.body
  BY <1>1, WholeBody DEF BodyInv
<1>3. DOMAIN disk = {PutFile} /\ file \o input = got /\ input = << >>
  BY <1>1 DEF BodyInv
<1>4. file \in Seq(Bytes)
  BY <1>1, <1>3 DEF TypeOK
<1> HIDE DEF file
<1>5. file \o << >> = file
  BY <1>4
<1>6. QED BY <1>2, <1>3, <1>5 DEF file

\* When processContent lets a handler run, the whole body is where the handler
\* looks for it: a form in input, a PUT in its temporary file.
THEOREM BodyIsHandled == Spec => []HandlerHasBody
<1>1. RxInv => HandlerHasBody
  <2> SUFFICES ASSUME RxInv, pc = "handler", failed = "no"
               PROVE  /\ req.consumer = "form" => input = req.body
                      /\ req.consumer = "put" => disk[PutFile] = req.body
    BY DEF HandlerHasBody, At
  <2>1. BodyInv /\ TypeOK
    BY DEF RxInv
  <2>2. got = req.body
    BY <2>1, WholeBody DEF BodyInv
  <2>3. req.consumer = "form" => input = req.body
    BY <2>1, <2>2 DEF BodyInv
  <2>4. req.consumer = "put" => disk[PutFile] = req.body
    BY PutIsWhole
  <2>5. QED BY <2>3, <2>4
<1>2. QED BY <1>1, RxInit, RxNext, PTL DEF Spec

(***************************************************************************)
(* Temporary files.                                                        *)
(***************************************************************************)

LEMMA GreatestIn ==
  ASSUME NEW L \in Nat, NEW T \in SUBSET (1 .. L), T # {}
  PROVE  Max(T) \in T /\ \A y \in T : Max(T) >= y
<1> DEFINE M == {n \in 0 .. L : L - n \in T}
<1>1. PICK x \in T : TRUE
  OBVIOUS
<1>2. L - x \in 0 .. L /\ L - (L - x) = x
  OBVIOUS
<1>3. L - x \in M
  BY <1>2
<1>a. \A n \in M : n \in Nat
  OBVIOUS
<1>4. M \in SUBSET Nat /\ M # {}
  <2> HIDE DEF M
  <2>1. QED BY <1>3, <1>a
<1>5. Min(M) \in M /\ \A y \in M : Min(M) <= y
  BY <1>4, LeastIn
<1> DEFINE m == L - Min(M)
<1>6. m \in T /\ Min(M) \in 0 .. L
  BY <1>5
<1>7. ASSUME NEW y \in T PROVE m >= y
  <2>1. L - y \in 0 .. L /\ L - (L - y) = y
    OBVIOUS
  <2>2. L - y \in M
    BY <2>1
  <2>3. Min(M) <= L - y
    BY <1>5, <2>2
  <2>4. QED BY <1>6, <2>3
<1>8. \E z \in T : \A y \in T : z >= y
  BY <1>6, <1>7
<1>9. QED BY <1>8, Zenon DEF Max

\* A line that is not empty begins where it begins in input.
LEMMA LineBegins ==
  ASSUME NEW S, NEW s \in Seq(S), NEW first, LineEnd(s) > 0, Line(s, first) # << >>
  PROVE  Line(s, first)[1] = s[1] /\ Len(s) >= 1
<1> DEFINE n == LineEnd(s)
           line == Take(s, n - 1)
           I == {i \in 1 .. Len(line) : line[i] # "cr"}
           k == SelectLastInSeq(line, LAMBDA b : b # "cr")
<1>1. n \in 1 .. Len(s) /\ Len(s) \in Nat
  BY LineEndIs
<1>2. Line(s, first) = Take(line, k)
  BY DEF Line, LineSent, Trimmed
<1>3. n - 1 \in 0 .. Len(s)
  BY <1>1
<1>4. line \in Seq(S) /\ Len(line) = n - 1 /\ \A i \in 1 .. n - 1 : line[i] = s[i]
  BY <1>3, TakeIs
<1>5. k = IF I # {} THEN Max(I) ELSE 0
  BY DEF SelectLastInSeq
<1>6. Len(line) \in Nat /\ I \in SUBSET (1 .. Len(line))
  BY <1>1, <1>4
<1>7. k \in 0 .. Len(line)
  <2>1. CASE I = {}
    BY <1>5, <1>6, <2>1
  <2>2. CASE I # {}
    <3>1. Max(I) \in I
      BY <1>6, <2>2, GreatestIn
    <3>2. QED BY <1>5, <1>6, <2>2, <3>1
  <2>3. QED BY <2>1, <2>2
<1> HIDE DEF line, k, n, I
<1>8. Take(line, k) \in Seq(S) /\ Len(Take(line, k)) = k
      /\ \A i \in 1 .. k : Take(line, k)[i] = line[i]
  BY <1>4, <1>7, TakeIs
<1>9. k # 0
  BY <1>2, <1>8
<1>10. 1 \in 1 .. k /\ 1 \in 1 .. n - 1
  BY <1>1, <1>4, <1>6, <1>7, <1>9
<1>11. QED BY <1>1, <1>2, <1>4, <1>8, <1>10

\* The steps that leave the file of the upload alone.
LEMMA LitterKept ==
  ASSUME RxInv, LitterInv, req' = req, TypeOK', Cut',
         Len(got') - Len(input') >= Len(got) - Len(input),
         req.consumer # "upload" => up' = up,
         up'.current = up.current, DOMAIN disk' = DOMAIN disk,
         pc # "freed", pc' # "freed"
  PROVE  LitterInv'
<1>1. TypeOK
  BY DEF RxInv
<1>2. /\ Len(got) \in Nat /\ Len(input) \in Nat
      /\ Len(got') \in Nat /\ Len(input') \in Nat /\ Len(req.body) \in Nat
  <2>1. got' \in Seq(Bytes) /\ input' \in Seq(Bytes)
    BY DEF TypeOK
  <2>2. QED BY <1>1, <2>1, ChunkTypes, ReqIs
<1>3. ASSUME req.consumer = "upload", up.current # 0,
             NEW p \in Len(got') - Len(input') + 1 .. Len(req.body)
      PROVE  req.body[p] \notin FileFields
  <2>1. p \in Len(got) - Len(input) + 1 .. Len(req.body)
    BY <1>2
  <2>2. QED BY <1>3, <2>1 DEF LitterInv
<1>4. /\ req'.consumer # "upload" => up' = NoParts
      /\ req'.consumer = "form" => DOMAIN disk' = {}
  BY DEF LitterInv
<1>5. /\ req'.consumer = "upload" => DOMAIN disk' = {up'.current} \ {0}
      /\ req'.consumer = "put" => DOMAIN disk' \subseteq {PutFile}
  BY DEF LitterInv
<1>6. QED BY <1>3, <1>4, <1>5 DEF LitterInv

LEMMA LitterTermWebs ==
  ASSUME RxInv, LitterInv, TermWebs(failed'), pc # "freed"
  PROVE  LitterInv'
<1> DEFINE I == Unlinked(up) \cup IF PutOpen(failed') THEN {PutFile} ELSE {}
<1>1. pc' = "freed" /\ up' = NoParts /\ disk' = [i \in DOMAIN disk \ I |-> disk[i]]
      /\ req' = req
  BY DEF TermWebs, Goto
<1>2. DOMAIN disk' = DOMAIN disk \ I
  BY <1>1
<1>3. up.current \in I
  BY DEF Unlinked
<1>4. req.consumer = "put" => DOMAIN disk = {PutFile} /\ (failed' = "no" => PutFile \in I)
  BY DEF RxInv, BodyInv, PutOpen
<1>5. req.consumer \in {"form", "put", "upload"}
  BY ReqIs DEF RxInv
<1> HIDE DEF I
<1>6. (req.consumer = "put" => failed' = "no") => DOMAIN disk' = {}
  BY <1>2, <1>3, <1>4, <1>5 DEF LitterInv
<1>7. QED BY <1>1, <1>2, <1>4, <1>6 DEF LitterInv

LEMMA LitterHeader ==
  ASSUME RxInv, LitterInv, OneFile, UploadHeader
  PROVE  LitterInv'
<1>1. TypeOK /\ Cut /\ IsFiniteSet(DOMAIN disk)
  BY DEF RxInv, UpInv
<1>2. TypeOK' /\ Cut'
  BY <1>1, TypedHeader
<1> DEFINE n == LineEnd(input)
<1>3. /\ ReadsLine("header") /\ ConsumeInput(n)
      /\ pc' = "parsing" /\ UNCHANGED <<req, failed>>
  BY DEF UploadHeader, Goto
<1>4. req.consumer = "upload" /\ pc # "freed" /\ n \in 0 .. Len(input) /\ n > 0
  BY <1>1, <1>3, Uploads, LineType DEF ReadsLine
<1>5. Len(input') = Len(input) - n /\ got' = got
  BY <1>1, <1>3, <1>4, Consumed
<1>6. /\ Len(got) \in Nat /\ Len(input) \in Nat /\ input \in Seq(Bytes)
      /\ Len(req.body) \in Nat
  BY <1>1, ChunkTypes, ReqIs
<1>7. up \in PartsType(FileIds, Bytes) /\ DiskType(disk)
  BY <1>1, TypeParts DEF FileType
<1> DEFINE line == NextLine
           field == IF line = << >> THEN NoName ELSE line[1]
<1>8. \/ up' = HeaderEnds(up) /\ UNCHANGED disk
      \/ up' = VarHeader(up, field) /\ UNCHANGED disk
      \/ /\ field \in FileFields /\ up' = FileHeader(up, field, NextId)
         /\ disk' = With(disk, NextId, << >>)
      \/ UNCHANGED <<up, disk>>
  BY DEF UploadHeader
<1>9. field \in FileFields => line # << >> /\ field = line[1]
  BY UploadAssumption DEF NoName
<1>10. line # << >> => line[1] = input[1] /\ Len(input) >= 1
  BY <1>4, <1>6, LineBegins DEF NextLine
<1> HIDE DEF n, line, field
<1>11. Len(got') - Len(input') >= Len(got) - Len(input)
  BY <1>4, <1>5, <1>6
<1>12. CASE up' = HeaderEnds(up) /\ UNCHANGED disk
  <2>1. up'.current = up.current
    BY <1>7, <1>12 DEF HeaderEnds, PartsType
  <2>2. QED BY <1>2, <1>3, <1>4, <1>11, <1>12, <2>1, LitterKept
<1>13. CASE up' = VarHeader(up, field) /\ UNCHANGED disk
  <2>1. up'.current = up.current
    BY <1>7, <1>13 DEF VarHeader, PartsType
  <2>2. QED BY <1>2, <1>3, <1>4, <1>11, <1>13, <2>1, LitterKept
<1>14. CASE UNCHANGED <<up, disk>>
  BY <1>2, <1>3, <1>4, <1>11, <1>14, LitterKept
<1>15. CASE /\ field \in FileFields /\ up' = FileHeader(up, field, NextId)
            /\ disk' = With(disk, NextId, << >>)
  <2> DEFINE p0 == Len(got) - Len(input) + 1
  <2>1. input[1] \in FileFields /\ Len(input) >= 1
    BY <1>9, <1>10, <1>15
  <2>2. /\ Len(got) <= Len(req.body) /\ \A i \in 1 .. Len(got) : got[i] = req.body[i]
        /\ Len(input) <= Len(got)
        /\ \A i \in 1 .. Len(input) : input[i] = got[Len(got) - Len(input) + i]
    BY <1>1 DEF Cut
  <2>3. p0 \in 1 .. Len(got) /\ 1 \in 1 .. Len(input) /\ p0 \in 1 .. Len(req.body)
        /\ p0 \in Len(got) - Len(input) + 1 .. Len(req.body)
    BY <1>6, <2>1, <2>2
  <2>4. req.body[p0] \in FileFields
    BY <2>1, <2>2, <2>3
  <2>5. up.current = 0
    BY <1>4, <2>3, <2>4 DEF LitterInv
  <2>6. DOMAIN disk = {}
    BY <1>4, <2>5 DEF LitterInv
  <2>7. NextId = 1
    BY <2>6, FS_EmptySet DEF NextId
  <2>8. up'.current = 1
    BY <1>7, <1>15, <2>7 DEF FileHeader, PartsType
  <2>9. DOMAIN disk' = {1}
    BY <1>1, <1>7, <1>15, <2>6, <2>7, NextIdIs, Opened
  <2>10. ASSUME NEW p \in Len(got') - Len(input') + 1 .. Len(req.body)
         PROVE  req.body[p] \notin FileFields
    <3>1. p \in 1 .. Len(req.body) /\ p > p0
      BY <1>4, <1>5, <1>6, <2>2
    <3>2. req \in Requests
      BY <1>1 DEF TypeOK
    <3>3. p # p0
      BY <2>3, <3>1
    <3>4. QED BY <2>3, <2>4, <3>1, <3>2, <3>3 DEF OneFile
  <2>11. QED BY <1>3, <1>4, <2>8, <2>9, <2>10 DEF LitterInv
<1>16. QED BY <1>8, <1>12, <1>13, <1>14, <1>15

LEMMA LitterSame ==
  ASSUME RxInv, RxInv', LitterInv, UNCHANGED <<req, got, input, up, disk>>,
         pc # "freed", pc' # "freed"
  PROVE  LitterInv'
<1>1. Len(got') - Len(input') >= Len(got) - Len(input)
  <2>1. Len(got) \in Nat /\ Len(input) \in Nat
    BY ChunkTypes DEF RxInv
  <2>2. QED BY <2>1
<1>2. TypeOK' /\ Cut'
  BY Whole
<1>3. QED BY <1>1, <1>2, LitterKept

LEMMA LitterMoved ==
  ASSUME RxInv, RxInv', LitterInv, NEW n \in 0 .. Len(rxbuf), Move(n),
         UNCHANGED <<req, up, disk>>, pc # "freed", pc' # "freed"
  PROVE  LitterInv'
<1> DEFINE data == Take(rxbuf, n)
<1>1. got \in Seq(Bytes) /\ input \in Seq(Bytes) /\ rxbuf \in Seq(Bytes)
  BY ChunkTypes DEF RxInv
<1>2. data \in Seq(Bytes)
  BY <1>1, TakeIs
<1>3. got' = got \o data /\ input' = input \o data
  BY DEF Move
<1> HIDE DEF data
<1>4. Len(got') = Len(got) + Len(data) /\ Len(input') = Len(input) + Len(data)
  BY <1>1, <1>2, <1>3
<1>5. Len(got) \in Nat /\ Len(input) \in Nat /\ Len(data) \in Nat
  BY <1>1, <1>2
<1>6. Len(got') - Len(input') >= Len(got) - Len(input)
  BY <1>4, <1>5
<1>7. TypeOK' /\ Cut'
  BY Whole
<1>8. QED BY <1>6, <1>7, LitterKept

LEMMA LitterConsumed ==
  ASSUME RxInv, RxInv', LitterInv, NEW n \in 0 .. Len(input), ConsumeInput(n),
         req' = req, req.consumer # "upload" => up' = up,
         up'.current = up.current, DOMAIN disk' = DOMAIN disk,
         pc # "freed", pc' # "freed"
  PROVE  LitterInv'
<1>1. TypeOK /\ Cut
  BY DEF RxInv
<1>2. Len(input') = Len(input) - n /\ got' = got
  BY <1>1, Consumed
<1>3. Len(got) \in Nat /\ Len(input) \in Nat
  BY <1>1, ChunkTypes
<1>4. Len(got') - Len(input') >= Len(got) - Len(input)
  BY <1>2, <1>3
<1>5. TypeOK' /\ Cut'
  BY Whole
<1>6. QED BY <1>4, <1>5, LitterKept

LEMMA LitterInit == Init => LitterInv
<1> SUFFICES ASSUME Init PROVE LitterInv
  OBVIOUS
<1>1. RxInv
  BY RxInit
<1>2. /\ pc = "select" /\ up = NoParts
      /\ disk = IF req.consumer = "put" THEN [i \in {PutFile} |-> << >>] ELSE << >>
  BY DEF Init
<1>3. req.consumer # "put" => DOMAIN disk = {}
  <2>1. DOMAIN << >> = {}
    OBVIOUS
  <2>2. QED BY <1>2, <2>1
<1>4. up.current = 0
  BY <1>2 DEF NoParts
<1>5. QED BY <1>2, <1>3, <1>4 DEF LitterInv

LEMMA LitterFilter ==
  ASSUME RxInv, RxInv', LitterInv, Filter
  PROVE  LitterInv'
<1>1. pc = "filter" /\ pc' # "freed" /\ UNCHANGED <<req, up, disk>>
  BY DEF Filter, Filtered, FilterPlain, FilterWaits, FilterBad, FilterStart,
         FilterData, Filtering, At, Goto, files
<1>2. Len(rxbuf) \in Nat /\ chunk.remaining \in Nat /\ Len(input) \in Nat /\ InputMax \in Nat
  BY ChunkTypes, RxAssumption DEF RxInv
<1>3. CASE Filtered \/ FilterWaits \/ FilterBad \/ FilterStart
  <2>1. UNCHANGED <<got, input>>
    BY <1>3 DEF Filtered, FilterWaits, FilterBad, FilterStart, buffers
  <2>2. QED BY <1>1, <2>1, LitterSame
<1>4. CASE FilterPlain
  <2>1. Move(PlainLen) /\ PlainLen \in 0 .. Len(rxbuf)
    BY <1>2, <1>4 DEF FilterPlain, PlainLen, Smaller
  <2>2. QED BY <1>1, <2>1, LitterMoved
<1>5. CASE FilterData
  <2> DEFINE n == Smaller(InputMax - Len(input), Smaller(chunk.remaining, Len(rxbuf)))
  <2>1. Move(n)
    BY <1>5 DEF FilterData
  <2>2. Len(input) <= InputMax
    BY <1>5, InChunks DEF FilterData, Filtering, ChunkInv
  <2>3. n \in 0 .. Len(rxbuf)
    BY <1>2, <2>2 DEF Smaller
  <2> HIDE DEF n
  <2>4. QED BY <1>1, <2>1, <2>3, LitterMoved
<1>6. QED BY <1>3, <1>4, <1>5 DEF Filter

LEMMA LitterConsume ==
  ASSUME RxInv, RxInv', LitterInv, Consume
  PROVE  LitterInv'
<1>1. pc \in {"consume", "eof"} /\ pc' # "freed" /\ UNCHANGED <<req, up>>
  BY DEF Consume, ConsumeForm, ConsumePut, RefusePut, ConsumeUpload, TestEof,
         At, Goto, files
<1>2. CASE ConsumeForm \/ ConsumeUpload \/ TestEof
  <2>1. UNCHANGED <<got, input, disk>>
    BY <1>2 DEF ConsumeForm, ConsumeUpload, TestEof, buffers, files
  <2>2. QED BY <1>1, <2>1, LitterSame
<1>3. CASE ConsumePut
  <2>1. ConsumeInput(Len(input)) /\ req.consumer = "put"
    BY <1>3 DEF ConsumePut, PutOpen
  <2>2. Len(input) \in 0 .. Len(input)
    <3>1. Len(input) \in Nat
      BY ChunkTypes DEF RxInv
    <3>2. QED BY <3>1
  <2>3. DOMAIN disk' = {PutFile} /\ DOMAIN disk = {PutFile}
    BY <1>1, <2>1 DEF RxInv, BodyInv
  <2>4. QED BY <1>1, <2>1, <2>2, <2>3, LitterConsumed
<1>4. CASE RefusePut
  <2>1. UNCHANGED <<got, input>> /\ req.consumer = "put"
    BY <1>4 DEF RefusePut, PutOpen, buffers
  <2>2. DOMAIN disk' = {PutFile} /\ DOMAIN disk = {PutFile}
    BY <1>1, <2>1 DEF RxInv, BodyInv
  <2>3. Len(got') - Len(input') >= Len(got) - Len(input)
    <3>1. Len(got) \in Nat /\ Len(input) \in Nat
      BY ChunkTypes DEF RxInv
    <3>2. QED BY <2>1, <3>1
  <2>4. TypeOK' /\ Cut'
    BY Whole
  <2>5. QED BY <1>1, <2>2, <2>3, <2>4, LitterKept
<1>5. QED BY <1>2, <1>3, <1>4 DEF Consume

LEMMA LitterParse ==
  ASSUME RxInv, RxInv', LitterInv, OneFile, Parse
  PROVE  LitterInv'
<1>1. pc \in {"upload", "parsing"} /\ req' = req
  BY DEF Parse, UploadWaits, UploadInit, UploadBoundary, UploadHeader,
         UploadDataWaits, UploadData, UploadPart, UploadCrash, UploadFails,
         ReadsLine, Uploading, InUpload, At
<1>2. TypeOK /\ Cut /\ input \in Seq(Bytes) /\ up \in PartsType(FileIds, Bytes)
  BY ChunkTypes, TypeParts DEF RxInv, FileType
<1>3. CASE UploadWaits \/ UploadDataWaits \/ UploadCrash
  <2>1. UNCHANGED <<got, input, up, disk>> /\ pc' # "freed"
    BY <1>3 DEF UploadWaits, UploadDataWaits, UploadCrash, buffers, files, Goto
  <2>2. QED BY <1>1, <2>1, LitterSame
<1>4. CASE UploadInit
  <2>1. up' = [up EXCEPT !.state = "boundary"] /\ UNCHANGED <<pc, got, input, disk>>
    BY <1>4 DEF UploadInit, buffers
  <2>2. up'.current = up.current
    BY <1>2, <2>1 DEF PartsType
  <2>3. req.consumer = "upload"
    BY <1>4, Uploads DEF UploadInit
  <2>4. Len(got') - Len(input') >= Len(got) - Len(input)
    <3>1. Len(got) \in Nat /\ Len(input) \in Nat
      BY ChunkTypes DEF RxInv
    <3>2. QED BY <2>1, <3>1
  <2>5. TypeOK' /\ Cut'
    BY Whole
  <2>6. QED BY <1>1, <2>1, <2>2, <2>3, <2>4, <2>5, LitterKept
<1>5. CASE UploadBoundary
  <2>1. /\ ReadsLine("boundary") /\ ConsumeInput(LineEnd(input)) /\ disk' = disk
        /\ up' = processContentBoundary(up, NextLine) \/ up' = up
        /\ pc' # "freed"
    BY <1>5 DEF UploadBoundary, Goto
  <2>2. req.consumer = "upload" /\ LineEnd(input) \in 0 .. Len(input)
    BY <1>2, <2>1, Uploads, LineType DEF ReadsLine
  <2>3. up'.current = up.current
    BY <1>2, <2>1 DEF processContentBoundary, PartsType
  <2>4. QED BY <1>1, <2>1, <2>2, <2>3, LitterConsumed
<1>6. CASE UploadHeader
  BY <1>6, LitterHeader
<1>7. CASE UploadData
  <2> DEFINE n == Held(input)
  <2>1. Len(input) >= boundaryLen /\ ConsumeInput(Len(Take(input, n))) /\ up' = up
    BY <1>7 DEF UploadData
  <2>2. n \in 0 .. Len(input)
    BY <1>2, <2>1, HeldIs
  <2>3. Len(Take(input, n)) = n
    BY <1>2, <2>2, TakeIs
  <2>4. DOMAIN disk' = DOMAIN disk /\ pc' # "freed"
    BY <1>7, TypedData
  <2> HIDE DEF n
  <2>5. ConsumeInput(n)
    BY <2>1, <2>3
  <2>6. QED BY <1>1, <2>1, <2>2, <2>4, <2>5, LitterConsumed
<1>8. CASE UploadPart
  <2> DEFINE n == PartLen(input)
             data == Take(input, n)
  <2>1. n \in 0 .. Len(input)
    BY <1>2, PartLenIs
  <2>2. data \in Seq(Bytes) /\ Len(data) = n
    BY <1>2, <2>1, TakeIs
  <2>3. /\ ConsumeInput(Len(data)) /\ Uploading("data")
        /\ up' = Closed(Entered(up, data, Cleared(data)))
    BY <1>8 DEF UploadPart
  <2>4. DOMAIN disk' = DOMAIN disk /\ pc' # "freed"
    BY <1>8, TypedPart
  <2> HIDE DEF n, data
  <2>5. ConsumeInput(n) /\ req.consumer = "upload"
    BY <2>2, <2>3, Uploads
  <2>6. Entered(up, data, Cleared(data)) \in PartsType(FileIds, Bytes)
    BY <1>2, <2>2, EnteredIs DEF Cleared, At
  <2>7. Entered(up, data, Cleared(data)).current = up.current
    BY <1>2 DEF Entered, PartsType
  <2>8. up'.current = up.current
    BY <2>3, <2>6, <2>7 DEF Closed, PartsType
  <2>9. QED BY <1>1, <2>1, <2>4, <2>5, <2>8, LitterConsumed
<1>9. CASE UploadFails
  <2>1. PICK n \in 0 .. Len(input) : ConsumeInput(n)
    <3>1. Len(input) \in Nat
      BY <1>2
    <3>2. PartLen(input) \in 0 .. Len(input) /\ 0 \in 0 .. Len(input)
      BY <1>2, <3>1, PartLenIs
    <3>3. ConsumeInput(PartLen(input)) \/ ConsumeInput(0)
      BY <1>9 DEF UploadFails
    <3>4. QED BY <3>2, <3>3
  <2>2. UNCHANGED <<up, disk>> /\ pc' # "freed"
    BY <1>9 DEF UploadFails, files, Goto
  <2>3. QED BY <1>1, <2>1, <2>2, LitterConsumed
<1>10. QED BY <1>3, <1>4, <1>5, <1>6, <1>7, <1>8, <1>9 DEF Parse

LEMMA LitterNext ==
  RxInv /\ LitterInv /\ OneFile /\ [Next]_vars => LitterInv'
<1> SUFFICES ASSUME RxInv, LitterInv, OneFile, [Next]_vars PROVE LitterInv'
  OBVIOUS
<1>1. RxInv'
  BY RxNext
<1>2. CASE Handled \/ Complete \/ Gone
  BY <1>2, Ended, LitterTermWebs
<1>3. CASE Read
  <2>1. UNCHANGED <<req, got, input, up, disk>> /\ pc # "freed" /\ pc' # "freed"
    BY <1>3 DEF Read, At, Goto, files
  <2>2. QED BY <1>1, <2>1, LitterSame
<1>4. CASE UNCHANGED vars
  <2>1. UNCHANGED <<req, pc, failed, got, input, up, disk>>
    BY <1>4 DEF vars, buffers, files
  <2>2. QED BY <2>1 DEF LitterInv
<1>5. QED BY <1>1, <1>2, <1>3, <1>4, LitterFilter, LitterConsume, LitterParse
          DEF Next, Thread

LEMMA KeptInit == Init => KeptInv
<1>1. DOMAIN << >> = {}
  OBVIOUS
<1>2. QED BY <1>1 DEF Init, KeptInv

LEMMA KeptTermWebs ==
  ASSUME RxInv, KeptInv, Handled \/ Complete \/ Gone
  PROVE  KeptInv'
<1>1. /\ TermWebs(failed') /\ pc # "freed"
      /\ failed' = "no" => failed = "no" /\ pc = "handler"
  BY Ended
<1>2. pc' = "freed" /\ req' = req
      /\ kept' = IF PutOpen(failed') THEN Keep(PutName, disk[PutFile]) ELSE kept
  BY <1>1 DEF TermWebs, Goto
<1>3. ASSUME req.consumer = "put", failed' = "no"
      PROVE  DOMAIN kept' = {PutName} /\ kept'[PutName] = req.body
  <2>1. disk[PutFile] = req.body
    BY <1>1, <1>3, PutIsWhole
  <2>2. DOMAIN kept = {}
    BY <1>1, <1>3 DEF KeptInv
  <2>3. kept' = Keep(PutName, disk[PutFile])
    BY <1>2, <1>3 DEF PutOpen
  <2>4. QED BY <2>1, <2>2, <2>3 DEF Keep, With
<1>4. ASSUME req.consumer = "put", failed' # "no" PROVE DOMAIN kept' = {}
  BY <1>1, <1>2, <1>4 DEF KeptInv, PutOpen
<1>5. QED BY <1>2, <1>3, <1>4 DEF KeptInv

LEMMA KeptNext == RxInv /\ KeptInv /\ [Next]_vars => KeptInv'
<1> SUFFICES ASSUME RxInv, KeptInv, [Next]_vars PROVE KeptInv'
  OBVIOUS
<1>1. CASE Filter
  BY <1>1 DEF Filter, Filtered, FilterPlain, FilterWaits, FilterBad, FilterStart,
              FilterData, Filtering, At, Goto, files, KeptInv
<1>2. CASE Consume
  BY <1>2 DEF Consume, ConsumeForm, ConsumePut, RefusePut, ConsumeUpload, TestEof,
              At, Goto, files, KeptInv
<1>3. CASE Parse
  <2>1. req.consumer = "upload"
    BY <1>3, Uploads DEF Parse, UploadWaits, UploadInit, UploadBoundary, UploadHeader,
       UploadDataWaits, UploadData, UploadPart, UploadCrash, UploadFails, ReadsLine,
       Uploading, RxInv, UpInv
  <2>2. req' = req
    BY <1>3 DEF Parse, UploadWaits, UploadInit, UploadBoundary, UploadHeader,
       UploadDataWaits, UploadData, UploadPart, UploadCrash, UploadFails
  <2>3. QED BY <2>1, <2>2 DEF KeptInv
<1>4. CASE Read
  BY <1>4 DEF Read, At, Goto, files, KeptInv
<1>5. CASE UNCHANGED vars
  BY <1>5 DEF vars, files, KeptInv
<1>6. QED BY <1>1, <1>2, <1>3, <1>4, <1>5, KeptTermWebs DEF Next, Thread

\* However a body is cut, whatever fails and whoever ends the request: when a
\* form has one file, websFreeUpload unlinks every temporary file that
\* processUploadHeader has opened; termWebs gives a PUT's document the whole
\* body and no temporary file stays, unless websError was called: then the
\* document is as it was, and the one temporary file may stay.
THEOREM FilesAreSettled ==
  ASSUME OneFile
  PROVE  Spec => []FilesSettled
<1> DEFINE Inv == RxInv /\ LitterInv /\ KeptInv
<1>1. Init => Inv
  BY RxInit, LitterInit, KeptInit
<1>2. Inv /\ [Next]_vars => Inv'
  BY RxNext, LitterNext, KeptNext
<1>3. Inv => FilesSettled
  BY DEF LitterInv, KeptInv, FilesSettled, At
<1> HIDE DEF Inv
<1>4. QED BY <1>1, <1>2, <1>3, PTL DEF Spec
(***************************************************************************)
(* Forms.                                                                  *)
(***************************************************************************)

\* What the filter has parsed.
cursor == Len(got) - Len(input)

\* Where the part whose content begins at p ends.
PartEnd(p) == p.at + getBoundary(Drop(req.body, p.at)) - 1

Named(field) == field # NoName /\ up.var = field /\ up.isFile = (field \in FileFields)

\* s is n bytes of the body, from at on.
Copied(s, at, n) == Len(s) = n /\ \A i \in 1 .. n : s[i] = req.body[at + i]

\* The parser is at p, or in the content that begins there: all of it that
\* was parsed is in the file, unless a write has failed.
Standing(p) ==
  /\ p \in req.places /\ p.kind = up.state
  /\ p.kind = "header" =>
       /\ p.at = cursor
       /\ p.field # NoName => Named(p.field)
       /\ p.field = NoName => ~up.isFile
       /\ up.isFile => disk[up.current] = << >>
  /\ p.kind = "data" =>
       /\ Named(p.field) /\ cursor \in p.at .. PartEnd(p)
       /\ IF up.isFile
          THEN \/ Copied(disk[up.current], p.at, cursor - p.at)
               \/ failed # "no" /\ cursor = PartEnd(p)
          ELSE cursor = p.at

\* The parser follows the form, and no file is written that was entered.
Reading ==
  /\ up.state \in {"header", "data"} => \E p \in req.places : Standing(p)
  /\ up.state \in {"start", "boundary"} => ~up.isFile
  /\ DOMAIN disk = 1 .. Cardinality(DOMAIN disk)
  /\ \A f \in FileFields : up.files[f] # 0 =>
       up.files[f] \in DOMAIN disk /\ (up.isFile => up.files[f] # up.current)

FormInv ==
  /\ PartsBounded
  /\ req.consumer = "upload" /\ ~lineLost /\ pc # "freed" => Reading

\* The field f has its content.
Exact(f) == PartIs(f, {req.parts[f]})
AllExact == \A f \in DOMAIN req.parts : Exact(f)

(***************************************************************************)
(* When the whole form has come in one read.                               *)
(***************************************************************************)

Fresh == up = NoParts /\ input = got /\ ~lineLost /\ failed = "no"

\* Nothing was parsed.
AtStart ==
  /\ up.state \in {"start", "boundary"} /\ up = [NoParts EXCEPT !.state = up.state]
  /\ input = got /\ ~lineLost /\ failed = "no"

\* All fields before the place p are there.
DoneAt(p) == \A f \in DOMAIN req.parts \ (p.left \cup {p.field}) : Exact(f)

Underway ==
  /\ ~lineLost /\ failed = "no"
  /\ \/ up.state = "end" /\ AllExact
     \/ \E p \in req.places : Standing(p) /\ p.at = cursor /\ DoneAt(p)

WholeInv ==
  req.consumer = "upload" =>
    /\ reads = 0 => pc = "freed" \/ (Fresh /\ pc = "select")
    /\ reads = 1 /\ pc \in {"filter", "consume"} => Fresh
    /\ reads = 1 /\ chunk.eof =>
         /\ pc = "upload" => AtStart
         /\ pc = "parsing" => Underway
         /\ pc \in {"eof", "handler"} => failed = "write" \/ (failed = "no" /\ AllExact)

(***************************************************************************)
(* Lines and boundaries in what has arrived.                               *)
(***************************************************************************)

LEMMA StartIs ==
  ASSUME NEW S, NEW p \in Seq(S), NEW s \in Seq(S)
  PROVE  IsPrefix(p, s) <=> Len(p) <= Len(s) /\ \A i \in 1 .. Len(p) : s[i] = p[i]
<1>1. Len(p) \in Nat /\ Len(s) \in Nat
  OBVIOUS
<1>2. CASE Len(p) <= Len(s)
  <2>1. Len(p) \in 0 .. Len(p) /\ Len(p) \in 0 .. Len(s)
    BY <1>1, <1>2
  <2>2. /\ Take(p, Len(p)) \in Seq(S) /\ Len(Take(p, Len(p))) = Len(p)
        /\ \A i \in 1 .. Len(p) : Take(p, Len(p))[i] = p[i]
    BY <2>1, TakeIs
  <2>3. /\ Take(s, Len(p)) \in Seq(S) /\ Len(Take(s, Len(p))) = Len(p)
        /\ \A i \in 1 .. Len(p) : Take(s, Len(p))[i] = s[i]
    BY <2>1, TakeIs
  <2>4. IsPrefix(p, s) <=> Take(p, Len(p)) = Take(s, Len(p))
    BY <1>2 DEF IsPrefix, Take
  <2>5. (\A i \in 1 .. Len(p) : s[i] = p[i]) => Take(p, Len(p)) = Take(s, Len(p))
    BY <2>2, <2>3, SameSeq
  <2>6. QED BY <1>2, <2>2, <2>3, <2>4, <2>5
<1>3. QED BY <1>2 DEF IsPrefix

LEMMA LineEndAt ==
  ASSUME NEW S, NEW s \in Seq(S)
  PROVE  /\ LineEnd(s) \in 0 .. Len(s)
         /\ LineEnd(s) > 0 => s[LineEnd(s)] = "lf"
         /\ \A i \in 1 .. LineEnd(s) - 1 : s[i] # "lf"
         /\ \A n \in 1 .. Len(s) :
              s[n] = "lf" /\ (\A i \in 1 .. n - 1 : s[i] # "lf") => LineEnd(s) = n
<1> DEFINE T == {i \in 1 .. Len(s) : s[i] = "lf"}
           m == LineEnd(s)
<1>1. LineEnd(s) = IF T # {} THEN Min(T) ELSE 0
  BY DEF LineEnd, SelectInSeq
<1>2. T \in SUBSET Nat /\ Len(s) \in Nat
  OBVIOUS
<1>3. T # {} => m \in T /\ \A y \in T : m <= y
  BY <1>1, <1>2, LeastIn
<1>4. T = {} => m = 0
  BY <1>1
<1>5. m \in 0 .. Len(s)
  BY LineEndIs
<1> HIDE DEF m
<1>6. m > 0 => s[m] = "lf"
  BY <1>3, <1>4
<1>7. ASSUME NEW i \in 1 .. m - 1 PROVE s[i] # "lf"
  <2>1. i \in 1 .. Len(s) /\ i < m
    BY <1>2, <1>5
  <2>2. QED BY <1>3, <1>5, <2>1
<1>8. ASSUME NEW n \in 1 .. Len(s), s[n] = "lf", \A i \in 1 .. n - 1 : s[i] # "lf"
      PROVE  m = n
  <2>1. n \in T
    BY <1>8
  <2>2. m \in T /\ m <= n
    BY <1>3, <2>1
  <2>3. ~(m < n)
    BY <1>8, <2>2
  <2>4. QED BY <1>5, <2>2, <2>3
<1>9. QED BY <1>5, <1>6, <1>7, <1>8 DEF m

LEMMA TrimmedIs ==
  ASSUME NEW S, NEW w \in Seq(S), NEW line \in Seq(S), Len(line) = Len(w) + 1,
         line[Len(line)] = "cr",
         \A i \in 1 .. Len(w) : line[i] = w[i] /\ w[i] # "cr"
  PROVE  Trimmed(line) = w
<1> DEFINE I == {i \in 1 .. Len(line) : line[i] # "cr"}
           k == SelectLastInSeq(line, LAMBDA b : b # "cr")
<1>1. k = IF I # {} THEN Max(I) ELSE 0
  BY DEF SelectLastInSeq
<1>2. Len(w) \in Nat
  OBVIOUS
<1>3. k = Len(w)
  <2>1. CASE Len(w) = 0
    <3>1. I = {}
      BY <1>2, <2>1
    <3>2. QED BY <1>1, <2>1, <3>1
  <2>2. CASE Len(w) # 0
    <3>1. Len(w) \in I
      BY <1>2, <2>2
    <3>2. Len(line) \in Nat /\ I \in SUBSET (1 .. Len(line)) /\ I # {}
      BY <1>2, <3>1
    <3>3. Max(I) \in I /\ Max(I) >= Len(w)
      BY <3>1, <3>2, GreatestIn
    <3>4. Max(I) # Len(line) /\ Max(I) \in 1 .. Len(line)
      BY <3>3
    <3>5. QED BY <1>1, <1>2, <3>2, <3>3, <3>4
  <2>3. QED BY <2>1, <2>2
<1> HIDE DEF k
<1>4. Len(w) \in 0 .. Len(line)
  BY <1>2
<1>5. /\ Take(line, Len(w)) \in Seq(S) /\ Len(Take(line, Len(w))) = Len(w)
      /\ \A i \in 1 .. Len(w) : Take(line, Len(w))[i] = line[i]
  BY <1>4, TakeIs
<1>6. Take(line, Len(w)) = w
  BY <1>5, SameSeq
<1>7. QED BY <1>3, <1>6 DEF Trimmed, k

\* A line that s begins with.
LEMMA LineIs ==
  ASSUME NEW S, NEW w \in Seq(S), NEW s \in Seq(S), {"cr", "lf"} \subseteq S,
         IsPrefix(LineEndBehind(w), s), \A i \in 1 .. Len(w) : w[i] \notin {"cr", "lf"}
  PROVE  /\ LineEnd(s) = Len(w) + 2 /\ LineSent(s) = w /\ Len(w) + 2 <= Len(s)
         /\ \A i \in 1 .. Len(w) : s[i] = w[i]
<1> DEFINE p == LineEndBehind(w)
           n == Len(w) + 2
           line == Take(s, n - 1)
<1>1. <<"cr", "lf">> \in Seq(S) /\ Len(<<"cr", "lf">>) = 2
  OBVIOUS
<1>2. p \in Seq(S) /\ Len(p) = n /\ p[n - 1] = "cr" /\ p[n] = "lf"
      /\ \A i \in 1 .. Len(w) : p[i] = w[i]
  BY <1>1 DEF LineEndBehind
<1> HIDE DEF p
<1>3. n <= Len(s) /\ \A i \in 1 .. n : s[i] = p[i]
  BY <1>2, StartIs DEF p
<1>4. Len(w) \in Nat /\ Len(s) \in Nat
  OBVIOUS
<1>5. s[n - 1] = "cr" /\ s[n] = "lf" /\ \A i \in 1 .. Len(w) : s[i] = w[i]
  BY <1>2, <1>3, <1>4
<1>6. n \in 1 .. Len(s) /\ \A i \in 1 .. n - 1 : s[i] # "lf"
  BY <1>3, <1>4, <1>5
<1>7. LineEnd(s) = n
  BY <1>5, <1>6, LineEndAt
<1>8. n - 1 \in 0 .. Len(s)
  BY <1>3, <1>4
<1>9. line \in Seq(S) /\ Len(line) = n - 1 /\ \A i \in 1 .. n - 1 : line[i] = s[i]
  BY <1>8, TakeIs
<1> HIDE DEF line
<1>10. /\ Len(line) = Len(w) + 1 /\ line[Len(line)] = "cr"
       /\ \A i \in 1 .. Len(w) : line[i] = w[i] /\ w[i] # "cr"
  BY <1>4, <1>5, <1>9
<1>11. Trimmed(line) = w
  BY <1>9, <1>10, TrimmedIs
<1>12. QED BY <1>3, <1>5, <1>7, <1>11 DEF LineSent, line

\* What follows does not change a line.
LEMMA LineKept ==
  ASSUME NEW S, NEW t \in Seq(S), NEW u \in Seq(S), LineEnd(t) > 0
  PROVE  LineEnd(t \o u) = LineEnd(t) /\ LineSent(t \o u) = LineSent(t)
<1> DEFINE s == t \o u
           n == LineEnd(t)
<1>1. /\ s \in Seq(S) /\ Len(s) = Len(t) + Len(u) /\ Len(t) \in Nat /\ Len(u) \in Nat
      /\ \A i \in 1 .. Len(t) : s[i] = t[i]
  BY PrefixIs
<1>2. n \in 1 .. Len(t) /\ t[n] = "lf" /\ \A i \in 1 .. n - 1 : t[i] # "lf"
  BY <1>1, LineEndAt
<1> HIDE DEF s, n
<1>3. n \in 1 .. Len(s) /\ s[n] = "lf" /\ \A i \in 1 .. n - 1 : s[i] # "lf"
  BY <1>1, <1>2
<1>4. LineEnd(s) = n
  BY <1>1, <1>3, LineEndAt
<1>5. n - 1 \in 0 .. Len(s) /\ n - 1 \in 0 .. Len(t)
  BY <1>1, <1>2
<1>6. /\ Take(s, n - 1) \in Seq(S) /\ Len(Take(s, n - 1)) = n - 1
      /\ \A i \in 1 .. n - 1 : Take(s, n - 1)[i] = s[i]
  BY <1>1, <1>5, TakeIs
<1>7. /\ Take(t, n - 1) \in Seq(S) /\ Len(Take(t, n - 1)) = n - 1
      /\ \A i \in 1 .. n - 1 : Take(t, n - 1)[i] = t[i]
  BY <1>1, <1>5, TakeIs
<1>8. \A i \in 1 .. n - 1 : Take(s, n - 1)[i] = Take(t, n - 1)[i]
  BY <1>1, <1>2, <1>6, <1>7
<1>9. Take(s, n - 1) = Take(t, n - 1)
  BY <1>6, <1>7, <1>8, SameSeq
<1>10. QED BY <1>4, <1>9 DEF LineSent, s, n

\* Where a boundary is.
LEMMA OccursIs ==
  ASSUME NEW S, NEW s \in Seq(S), NEW i \in Nat \ {0}
  PROVE  i \in BoundariesIn(s) <=>
           /\ i + boundaryLen - 1 <= Len(s)
           /\ \A j \in 1 .. boundaryLen : s[i - 1 + j] = Boundary[j]
<1> DEFINE d == Drop(s, i - 1)
           R == S \cup Range(Boundary)
<1>1. boundaryLen \in Nat /\ boundaryLen > 0 /\ Len(s) \in Nat
  BY BoundaryIs
<1>2. i \in BoundariesIn(s) <=> i + boundaryLen - 1 <= Len(s) /\ IsPrefix(Boundary, d)
  BY <1>1 DEF BoundariesIn
<1>3. CASE i + boundaryLen - 1 <= Len(s)
  <2>1. i - 1 \in 0 .. Len(s)
    BY <1>1, <1>3
  <2>2. /\ d \in Seq(S) /\ Len(d) = Len(s) - (i - 1)
        /\ \A j \in 1 .. Len(s) - (i - 1) : d[j] = s[i - 1 + j]
    BY <2>1, DropIs
  <2>3. Boundary \in Seq(Range(Boundary)) /\ boundaryLen = Len(Boundary)
    BY UploadAssumption DEF boundaryLen
  <2> HIDE DEF d
  <2>4. Boundary \in Seq(R) /\ d \in Seq(R)
    BY <2>2, <2>3
  <2> HIDE DEF R
  <2>5. IsPrefix(Boundary, d) <=> Len(Boundary) <= Len(d) /\ \A j \in 1 .. Len(Boundary) : d[j] = Boundary[j]
    BY <2>4, StartIs
  <2>6. boundaryLen <= Len(d)
    BY <1>1, <1>3, <2>2
  <2>7. \A j \in 1 .. boundaryLen : d[j] = s[i - 1 + j]
    BY <1>1, <2>2, <2>6
  <2>8. QED BY <1>2, <1>3, <2>3, <2>5, <2>6, <2>7
<1>4. QED BY <1>2, <1>3

LEMMA FirstBoundary ==
  ASSUME NEW S, NEW s \in Seq(S)
  PROVE  /\ getBoundary(s) \in 0 .. Len(s)
         /\ getBoundary(s) = 0 => BoundariesIn(s) = {}
         /\ getBoundary(s) > 0 =>
              getBoundary(s) \in BoundariesIn(s) /\ \A j \in BoundariesIn(s) : getBoundary(s) <= j
         /\ BoundariesIn(s) \subseteq Nat \ {0}
<1>1. getBoundary(s) \in 0 .. Len(s)
  BY GetBoundaryIs
<1>2. BoundariesIn(s) \subseteq Nat \ {0}
  BY BoundaryIs DEF BoundariesIn
<1>3. CASE BoundariesIn(s) = {}
  BY <1>1, <1>2, <1>3 DEF getBoundary
<1>4. CASE BoundariesIn(s) # {}
  <2>1. BoundariesIn(s) \in SUBSET Nat
    BY <1>2
  <2>2. \E i \in BoundariesIn(s) : \A j \in BoundariesIn(s) : i <= j
    BY <2>1, <1>4, LeastIn
  <2>3. getBoundary(s) \in BoundariesIn(s) /\ \A j \in BoundariesIn(s) : getBoundary(s) <= j
    BY <2>2, <1>4, Zenon DEF getBoundary
  <2>4. getBoundary(s) # 0
    BY <1>2, <2>3
  <2>5. QED BY <1>1, <1>2, <2>3, <2>4
<1>5. QED BY <1>3, <1>4

\* The line end before a boundary.
LEMMA WithoutAt ==
  ASSUME NEW S, NEW s \in Seq(S)
  PROVE  /\ Len(s) >= 2 /\ s[Len(s) - 1] = "cr" /\ s[Len(s)] = "lf" =>
              WithoutCRLF(s) = Take(s, Len(s) - 2)
         /\ ~(Len(s) >= 2 /\ s[Len(s) - 1] = "cr" /\ s[Len(s)] = "lf") =>
              WithoutCRLF(s) = s
<1> DEFINE e == <<"cr", "lf">>
           re == Reverse(e)
           rs == Reverse(s)
           R == S \cup {"cr", "lf"}
<1>1. Len(s) \in Nat
  OBVIOUS
<1>2. re \in Seq(R) /\ Len(re) = 2 /\ re[1] = "lf" /\ re[2] = "cr"
  BY DEF Reverse
<1>3. s \in Seq(R)
  OBVIOUS
<1> HIDE DEF R, re
<1>4. rs \in Seq(R) /\ Len(rs) = Len(s) /\ \A i \in 1 .. Len(s) : rs[i] = s[Len(s) - i + 1]
  BY <1>3 DEF Reverse
<1> HIDE DEF rs
<1>5. IsPrefix(re, rs) <=> Len(re) <= Len(rs) /\ \A i \in 1 .. Len(re) : rs[i] = re[i]
  BY <1>2, <1>4, StartIs
<1>6. IsPrefix(re, rs) <=> Len(s) >= 2 /\ rs[1] = "lf" /\ rs[2] = "cr"
  <2>1. (\A i \in 1 .. 2 : rs[i] = re[i]) <=> rs[1] = re[1] /\ rs[2] = re[2]
    OBVIOUS
  <2>2. QED BY <1>1, <1>2, <1>4, <1>5, <2>1
<1>7. Len(s) >= 2 => rs[1] = s[Len(s)] /\ rs[2] = s[Len(s) - 1]
  BY <1>1, <1>4
<1>8. IsSuffix(e, s) <=> IsPrefix(re, rs)
  BY DEF IsSuffix, re, rs
<1>9. IsSuffix(<<"cr", "lf">>, s) <=> Len(s) >= 2 /\ s[Len(s) - 1] = "cr" /\ s[Len(s)] = "lf"
  BY <1>6, <1>7, <1>8
<1>10. QED BY <1>9 DEF WithoutCRLF

(***************************************************************************)
(* Where the parser is in the form.                                        *)
(***************************************************************************)

LEMMA InputIs ==
  ASSUME TypeOK, Cut
  PROVE  /\ cursor \in Nat /\ cursor + Len(input) = Len(got) /\ Len(got) <= Len(req.body)
         /\ Len(input) \in Nat /\ Len(got) \in Nat
         /\ cursor \in 0 .. Len(req.body) /\ Len(got) \in 0 .. Len(req.body)
         /\ input \in Seq(Bytes) /\ Drop(req.body, Len(got)) \in Seq(Bytes)
         /\ Drop(req.body, cursor) = input \o Drop(req.body, Len(got))
         /\ \A i \in 1 .. Len(input) : input[i] = req.body[cursor + i]
<1> DEFINE b == req.body
           c == cursor
           u == Drop(b, Len(got))
           d == Drop(b, c)
<1>1. input \in Seq(Bytes) /\ got \in Seq(Bytes) /\ b \in Seq(Bytes)
  BY ChunkTypes, ReqIs
<1>2. /\ Len(got) <= Len(b) /\ \A i \in 1 .. Len(got) : got[i] = b[i]
      /\ Len(input) <= Len(got)
      /\ \A i \in 1 .. Len(input) : input[i] = got[Len(got) - Len(input) + i]
  BY DEF Cut
<1>3. c = Len(got) - Len(input)
  BY DEF cursor
<1> HIDE DEF b, c
<1>4. /\ Len(input) \in Nat /\ Len(got) \in Nat /\ Len(b) \in Nat
  BY <1>1
<1>5. /\ c \in Nat /\ c + Len(input) = Len(got)
      /\ c \in 0 .. Len(b) /\ Len(got) \in 0 .. Len(b)
  BY <1>2, <1>3, <1>4
<1>6. ASSUME NEW i \in 1 .. Len(input) PROVE input[i] = b[c + i]
  <2>1. c + i \in 1 .. Len(got)
    BY <1>4, <1>5
  <2>2. QED BY <1>2, <1>3, <2>1
<1>7. u \in Seq(Bytes) /\ Len(u) = Len(b) - Len(got)
      /\ \A i \in 1 .. Len(b) - Len(got) : u[i] = b[Len(got) + i]
  BY <1>1, <1>5, DropIs
<1>8. d \in Seq(Bytes) /\ Len(d) = Len(b) - c
      /\ \A i \in 1 .. Len(b) - c : d[i] = b[c + i]
  BY <1>1, <1>5, DropIs
<1> HIDE DEF u, d
<1>9. /\ input \o u \in Seq(Bytes) /\ Len(input \o u) = Len(input) + Len(u)
      /\ \A i \in 1 .. Len(input) : (input \o u)[i] = input[i]
      /\ \A i \in 1 .. Len(u) : (input \o u)[Len(input) + i] = u[i]
  <2>1. input \in Seq(Bytes) /\ u \in Seq(Bytes)
    BY <1>1, <1>7
  <2>2. QED BY <2>1, PrefixIs
<1>a. Len(u) = Len(b) - Len(got) /\ Len(d) = Len(b) - c
  BY <1>7, <1>8
<1>10. Len(input \o u) = Len(d)
  <2>1. Len(input \o u) = Len(input) + Len(u)
    BY <1>9
  <2>2. QED BY <1>4, <1>5, <1>a, <2>1
<1>11. ASSUME NEW i \in 1 .. Len(d) PROVE d[i] = (input \o u)[i]
  <2>1. i \in 1 .. Len(b) - c /\ i \in Nat
    BY <1>8
  <2>2. CASE i <= Len(input)
    <3>1. i \in 1 .. Len(input)
      BY <1>4, <2>1, <2>2
    <3>2. QED BY <1>6, <1>8, <1>9, <2>1, <3>1
  <2>3. CASE i > Len(input)
    <3> DEFINE k == i - Len(input)
    <3>1. k \in 1 .. Len(u) /\ i = Len(input) + k /\ c + i = Len(got) + k
          /\ k \in 1 .. Len(b) - Len(got)
      BY <1>4, <1>5, <1>a, <2>1, <2>3
    <3> HIDE DEF k
    <3>2. (input \o u)[i] = u[k] /\ u[k] = b[Len(got) + k]
      BY <1>7, <1>9, <3>1
    <3>3. QED BY <1>8, <2>1, <3>1, <3>2
  <2>4. i <= Len(input) \/ i > Len(input)
    BY <1>4, <2>1
  <2>5. QED BY <2>2, <2>3, <2>4
<1>12. d = input \o u
  BY <1>8, <1>9, <1>10, <1>11, SameSeq
<1>13. QED BY <1>1, <1>2, <1>4, <1>5, <1>6, <1>7, <1>12 DEF b, c, u, d

\* What lines are made of.
Symbols == Bytes \cup Range(Boundary) \cup Names \cup {"cr", "lf", "--"}

LEMMA BoundaryLine ==
  /\ Boundary \in Seq(Symbols) /\ Len(Boundary) = boundaryLen
  /\ \A i \in 1 .. boundaryLen : Boundary[i] \notin {"cr", "lf"}
  /\ Append(Boundary, "--") \in Seq(Symbols) /\ Len(Append(Boundary, "--")) = boundaryLen + 1
  /\ \A i \in 1 .. boundaryLen + 1 : Append(Boundary, "--")[i] \notin {"cr", "lf"}
  /\ Drop(Boundary, boundaryLen) = << >>
  /\ Drop(Append(Boundary, "--"), boundaryLen) = <<"--">>
<1>1. /\ Boundary \in Seq(Range(Boundary))
      /\ {"cr", "lf"} \cap (Range(Boundary) \cup Fields \cup FileFields) = {}
  BY UploadAssumption
<1> DEFINE R == Range(Boundary)
           closing == Append(Boundary, "--")
<1> HIDE DEF R
<1>2. Boundary \in Seq(R) /\ R \subseteq Symbols /\ "--" \in Symbols
  BY <1>1 DEF R, Symbols
<1>3. Boundary \in Seq(Symbols) /\ Len(Boundary) \in Nat
  BY <1>2
<1>4. ASSUME NEW i \in 1 .. Len(Boundary) PROVE Boundary[i] \notin {"cr", "lf"}
  BY <1>1, <1>2 DEF R
<1> HIDE DEF Symbols
<1>5. /\ closing \in Seq(Symbols) /\ Len(closing) = Len(Boundary) + 1
      /\ \A i \in 1 .. Len(Boundary) : closing[i] = Boundary[i]
      /\ closing[Len(Boundary) + 1] = "--"
  BY <1>2, <1>3
<1> HIDE DEF closing
<1>6. ASSUME NEW i \in 1 .. Len(Boundary) + 1 PROVE closing[i] \notin {"cr", "lf"}
  <2>1. CASE i \in 1 .. Len(Boundary)
    BY <1>4, <1>5, <2>1
  <2>2. CASE i = Len(Boundary) + 1
    BY <1>5, <2>2
  <2>3. QED BY <1>3, <2>1, <2>2
<1>7. Drop(Boundary, Len(Boundary)) = << >>
  BY <1>3 DEF Drop
<1>8. Drop(closing, Len(Boundary)) = <<"--">>
  <2>1. Len(Boundary) \in 0 .. Len(closing)
    BY <1>3, <1>5
  <2>2. /\ Drop(closing, Len(Boundary)) \in Seq(Symbols)
        /\ Len(Drop(closing, Len(Boundary))) = Len(closing) - Len(Boundary)
        /\ \A i \in 1 .. Len(closing) - Len(Boundary) :
             Drop(closing, Len(Boundary))[i] = closing[Len(Boundary) + i]
    BY <1>5, <2>1, DropIs
  <2> DEFINE d == Drop(closing, Len(Boundary))
  <2> HIDE DEF d
  <2>3. d \in Seq(Symbols) /\ Len(d) = 1 /\ d[1] = "--"
    BY <1>3, <1>5, <2>2 DEF d
  <2>4. d = <<"--">>
    BY <2>3
  <2>5. QED BY <2>4 DEF d
<1>9. QED BY <1>3, <1>4, <1>5, <1>6, <1>7, <1>8 DEF boundaryLen, closing

LEMMA SentIs ==
  ASSUME NEW S, NEW s \in Seq(S), LineEnd(s) > 0
  PROVE  /\ LineSent(s) \in Seq(S) /\ Len(LineSent(s)) <= LineEnd(s) - 1
         /\ LineEnd(s) <= Len(s)
         /\ \A i \in 1 .. Len(LineSent(s)) : LineSent(s)[i] = s[i]
<1> DEFINE n == LineEnd(s)
           line == Take(s, n - 1)
           I == {i \in 1 .. Len(line) : line[i] # "cr"}
           k == SelectLastInSeq(line, LAMBDA b : b # "cr")
<1>1. n \in 1 .. Len(s) /\ Len(s) \in Nat
  BY LineEndIs
<1>2. LineSent(s) = Take(line, k)
  BY DEF LineSent, Trimmed
<1>3. n - 1 \in 0 .. Len(s)
  BY <1>1
<1>4. line \in Seq(S) /\ Len(line) = n - 1 /\ \A i \in 1 .. n - 1 : line[i] = s[i]
  BY <1>3, TakeIs
<1>5. k = IF I # {} THEN Max(I) ELSE 0
  BY DEF SelectLastInSeq
<1>6. Len(line) \in Nat /\ I \in SUBSET (1 .. Len(line))
  BY <1>1, <1>4
<1>7. k \in 0 .. Len(line)
  <2>1. CASE I = {}
    BY <1>5, <1>6, <2>1
  <2>2. CASE I # {}
    <3>1. Max(I) \in I
      BY <1>6, <2>2, GreatestIn
    <3>2. QED BY <1>5, <1>6, <2>2, <3>1
  <2>3. QED BY <2>1, <2>2
<1> HIDE DEF line, k, n, I
<1>8. Take(line, k) \in Seq(S) /\ Len(Take(line, k)) = k
      /\ \A i \in 1 .. k : Take(line, k)[i] = line[i]
  BY <1>4, <1>7, TakeIs
<1>9. k <= n - 1 /\ \A i \in 1 .. k : i \in 1 .. n - 1
  BY <1>1, <1>4, <1>7
<1>10. \A i \in 1 .. k : Take(line, k)[i] = s[i]
  BY <1>4, <1>8, <1>9
<1>11. QED BY <1>1, <1>2, <1>8, <1>9, <1>10 DEF n

LEMMA FormIs ==
  ASSUME TypeOK, FormsSent, req.consumer = "upload"
  PROVE  Form(req)
BY DEF TypeOK, FormsSent

LEMMA PlaceIs ==
  ASSUME Form(req), NEW p \in req.places
  PROVE  p.at \in 0 .. Len(req.body) /\ p.left \subseteq DOMAIN req.parts /\ Follows(req, p)
BY DEF Form

\* A boundary is only read where a part begins or the form ends.
LEMMA BoundaryPlace ==
  ASSUME TypeOK, Cut, Form(req), LineEnd(input) > 0, IsPrefix(Boundary, LineSent(input))
  PROVE  \E p \in req.places : p.kind = "boundary" /\ p.at = cursor
<1> DEFINE b == req.body
           line == LineSent(input)
<1>1. /\ cursor \in Nat /\ cursor + Len(input) = Len(got) /\ Len(got) <= Len(b)
      /\ Len(input) \in Nat /\ Len(got) \in Nat /\ input \in Seq(Bytes)
      /\ \A i \in 1 .. Len(input) : input[i] = b[cursor + i]
  BY InputIs
<1>2. b \in Seq(Bytes) /\ Len(b) \in Nat
  BY ReqIs
<1>3. /\ line \in Seq(Bytes) /\ Len(line) <= Len(input)
      /\ \A i \in 1 .. Len(line) : line[i] = input[i]
  <2>1. /\ line \in Seq(Bytes) /\ Len(line) <= LineEnd(input) - 1
        /\ LineEnd(input) <= Len(input)
        /\ \A i \in 1 .. Len(line) : line[i] = input[i]
    BY <1>1, SentIs
  <2>2. LineEnd(input) \in 0 .. Len(input)
    BY <1>1, LineEndIs
  <2> HIDE DEF line
  <2>3. Len(line) \in Nat
    BY <2>1
  <2>4. QED BY <1>1, <2>1, <2>2, <2>3
<1> HIDE DEF line, b
<1>4. line \in Seq(Symbols) /\ Boundary \in Seq(Symbols) /\ Len(Boundary) = boundaryLen
  BY <1>3, BoundaryLine DEF Symbols
<1>5. boundaryLen <= Len(line) /\ \A i \in 1 .. boundaryLen : line[i] = Boundary[i]
  BY <1>4, StartIs DEF line
<1>6. boundaryLen \in Nat /\ Len(line) \in Nat
  BY <1>3, BoundaryIs
<1>7. ASSUME NEW j \in 1 .. boundaryLen PROVE b[cursor + 1 - 1 + j] = Boundary[j]
  <2>1. j \in 1 .. Len(line) /\ j \in 1 .. Len(input) /\ cursor + 1 - 1 + j = cursor + j
    BY <1>1, <1>3, <1>5, <1>6
  <2>2. QED BY <1>1, <1>3, <1>5, <2>1
<1> DEFINE q == cursor + 1
<1>8. q \in Nat \ {0} /\ q + boundaryLen - 1 <= Len(b) /\ q - 1 = cursor
  BY <1>1, <1>2, <1>3, <1>5, <1>6
<1>a. \A j \in 1 .. boundaryLen : b[q - 1 + j] = Boundary[j]
  BY <1>1, <1>7
<1> HIDE DEF q
<1>9. q \in BoundariesIn(b)
  <2>1. b \in Seq(Bytes) /\ q \in Nat \ {0}
    BY <1>2, <1>8
  <2>2. q \in BoundariesIn(b) <=>
          q + boundaryLen - 1 <= Len(b) /\ \A j \in 1 .. boundaryLen : b[q - 1 + j] = Boundary[j]
    BY <2>1, OccursIs
  <2>3. QED BY <1>8, <1>a, <2>2
<1>10. \E p \in req.places : p.kind = "boundary" /\ p.at = q - 1
  BY <1>9, Zenon DEF Form, b
<1>11. QED BY <1>8, <1>10

LEMMA Reads ==
  ASSUME TypeOK, Cut, NEW w \in Seq(Symbols), \A i \in 1 .. Len(w) : w[i] \notin {"cr", "lf"},
         IsPrefix(LineEndBehind(w), Drop(req.body, cursor))
  PROVE  /\ LineEnd(Drop(req.body, cursor)) = Len(w) + 2
         /\ LineEnd(input) > 0 => LineEnd(input) = Len(w) + 2 /\ LineSent(input) = w
<1> DEFINE u == Drop(req.body, Len(got))
           s == Drop(req.body, cursor)
<1>1. input \in Seq(Bytes) /\ u \in Seq(Bytes) /\ s = input \o u
  BY InputIs
<1> HIDE DEF u, s
<1>2. input \in Seq(Symbols) /\ u \in Seq(Symbols)
  BY <1>1 DEF Symbols
<1>3. s \in Seq(Symbols) /\ {"cr", "lf"} \subseteq Symbols
  BY <1>1, <1>2 DEF Symbols
<1>4. LineEnd(s) = Len(w) + 2 /\ LineSent(s) = w
  BY <1>3, LineIs DEF s
<1>5. LineEnd(input) > 0 => LineEnd(s) = LineEnd(input) /\ LineSent(s) = LineSent(input)
  BY <1>1, <1>2, LineKept
<1>6. QED BY <1>4, <1>5 DEF s

LEMMA BoundaryRead ==
  ASSUME TypeOK, Cut, Form(req), NEW p \in req.places, p.kind = "boundary", p.at = cursor
  PROVE  /\ LineEnd(Drop(req.body, cursor)) > 0
         /\ LineEnd(input) > 0 =>
              \/ /\ LineSent(input) = Boundary /\ LineEnd(input) = boundaryLen + 2
                 /\ Place(cursor + (boundaryLen + 2), "header", NoName, p.left) \in req.places
              \/ LineSent(input) = Append(Boundary, "--") /\ p.left = {}
<1> DEFINE s == Drop(req.body, cursor)
<1>1. \/ /\ IsPrefix(LineEndBehind(Boundary), s)
         /\ Place(cursor + (boundaryLen + 2), "header", NoName, p.left) \in req.places
      \/ IsPrefix(LineEndBehind(Append(Boundary, "--")), s) /\ p.left = {}
  BY PlaceIs DEF Follows
<1>2. boundaryLen \in Nat
  BY BoundaryIs
<1>3. CASE IsPrefix(LineEndBehind(Boundary), s)
           /\ Place(cursor + (boundaryLen + 2), "header", NoName, p.left) \in req.places
  <2>1. Boundary \in Seq(Symbols) /\ Len(Boundary) = boundaryLen
        /\ \A i \in 1 .. boundaryLen : Boundary[i] \notin {"cr", "lf"}
    BY BoundaryLine
  <2>2. QED BY <1>2, <1>3, <2>1, Reads
<1>4. CASE IsPrefix(LineEndBehind(Append(Boundary, "--")), s) /\ p.left = {}
  <2> DEFINE w == Append(Boundary, "--")
  <2>1. w \in Seq(Symbols) /\ Len(w) = boundaryLen + 1
        /\ \A i \in 1 .. boundaryLen + 1 : w[i] \notin {"cr", "lf"}
    BY BoundaryLine
  <2> HIDE DEF w
  <2>2. IsPrefix(LineEndBehind(w), Drop(req.body, cursor))
    BY <1>4 DEF w
  <2>3. /\ LineEnd(Drop(req.body, cursor)) = Len(w) + 2
        /\ LineEnd(input) > 0 => LineEnd(input) = Len(w) + 2 /\ LineSent(input) = w
    BY <2>1, <2>2, Reads
  <2>4. QED BY <1>2, <1>4, <2>1, <2>3 DEF w
<1>5. QED BY <1>1, <1>3, <1>4

LEMMA LineOfBody ==
  ASSUME TypeOK, Cut
  PROVE  LineEnd(Drop(req.body, cursor)) \in Nat
<1>1. req.body \in Seq(Bytes) /\ cursor \in 0 .. Len(req.body)
  BY InputIs, ReqIs
<1>2. Drop(req.body, cursor) \in Seq(Bytes)
  BY <1>1, DropIs
<1>3. QED BY <1>2, LineEndIs

LEMMA HeaderRead ==
  ASSUME TypeOK, Cut, Form(req), NEW p \in req.places, p.kind = "header", p.at = cursor
  PROVE  /\ LineEnd(Drop(req.body, cursor)) > 0
         /\ LineEnd(input) > 0 =>
              \/ /\ LineSent(input) = << >> /\ LineEnd(input) = 2 /\ p.field # NoName
                 /\ Place(cursor + 2, "data", p.field, p.left) \in req.places
              \/ \E f \in p.left :
                   /\ LineSent(input) = <<f>> /\ LineEnd(input) = 3 /\ p.field = NoName
                   /\ Place(cursor + 3, "header", f, p.left \ {f}) \in req.places
              \/ /\ LineSent(input) # << >> /\ LineSent(input)[1] \notin Names
                 /\ Place(cursor + LineEnd(input), "header", p.field, p.left) \in req.places
<1> DEFINE s == Drop(req.body, cursor)
           u == Drop(req.body, Len(got))
<1>1. \/ /\ IsPrefix(<<"cr", "lf">>, s) /\ p.field # NoName
         /\ Place(cursor + 2, "data", p.field, p.left) \in req.places
      \/ \E f \in p.left :
           /\ IsPrefix(<<f, "cr", "lf">>, s) /\ p.field = NoName
           /\ Place(cursor + 3, "header", f, p.left \ {f}) \in req.places
      \/ /\ LineEnd(s) > 1 /\ s[1] \notin Names \cup {"cr"}
         /\ Place(cursor + LineEnd(s), "header", p.field, p.left) \in req.places
  BY PlaceIs DEF Follows
<1>2. CASE /\ IsPrefix(<<"cr", "lf">>, s) /\ p.field # NoName
           /\ Place(cursor + 2, "data", p.field, p.left) \in req.places
  <2>1. << >> \in Seq(Symbols) /\ Len(<< >>) = 0 /\ LineEndBehind(<< >>) = <<"cr", "lf">>
    BY DEF LineEndBehind
  <2> DEFINE w == << >>
  <2>2. /\ w \in Seq(Symbols) /\ Len(w) = 0 /\ IsPrefix(LineEndBehind(w), s)
        /\ \A i \in 1 .. Len(w) : w[i] \notin {"cr", "lf"}
    BY <1>2, <2>1
  <2> HIDE DEF w
  <2>a. /\ LineEnd(s) = Len(w) + 2
        /\ LineEnd(input) > 0 => LineEnd(input) = Len(w) + 2 /\ LineSent(input) = w
    BY <2>2, Reads
  <2>3. /\ LineEnd(s) = 2
        /\ LineEnd(input) > 0 => LineEnd(input) = 2 /\ LineSent(input) = << >>
    BY <2>2, <2>a DEF w
  <2>4. QED BY <1>2, <2>3
<1>3. CASE \E f \in p.left :
             /\ IsPrefix(<<f, "cr", "lf">>, s) /\ p.field = NoName
             /\ Place(cursor + 3, "header", f, p.left \ {f}) \in req.places
  <2>1. PICK f \in p.left : /\ IsPrefix(<<f, "cr", "lf">>, s) /\ p.field = NoName
                            /\ Place(cursor + 3, "header", f, p.left \ {f}) \in req.places
    BY <1>3
  <2>2. f \in Names
    BY PlaceIs, RxAssumption DEF TypeOK
  <2>3. f \in Symbols /\ f \notin {"cr", "lf"}
    BY <2>2, UploadAssumption DEF Symbols, Names
  <2> DEFINE w == <<f>>
  <2>a. w \in Seq(Symbols) /\ Len(w) = 1 /\ w[1] = f
    BY <2>3
  <2>b. LineEndBehind(w) = <<f, "cr", "lf">>
    <3> DEFINE e == <<"cr", "lf">>
               x == <<f, "cr", "lf">>
    <3>1. /\ e \in Seq(Symbols) /\ Len(e) = 2 /\ e[1] = "cr" /\ e[2] = "lf"
          /\ x \in Seq(Symbols) /\ Len(x) = 3 /\ x[1] = f /\ x[2] = "cr" /\ x[3] = "lf"
      BY <2>3 DEF Symbols
    <3> HIDE DEF e, x, w
    <3>2. w \in Seq(Symbols) /\ e \in Seq(Symbols)
      BY <2>a, <3>1
    <3>3. /\ w \o e \in Seq(Symbols) /\ Len(w \o e) = Len(w) + Len(e)
          /\ \A i \in 1 .. Len(w) : (w \o e)[i] = w[i]
          /\ \A i \in 1 .. Len(e) : (w \o e)[Len(w) + i] = e[i]
      BY <3>2, PrefixIs
    <3>4. /\ Len(w \o e) = 3 /\ (w \o e)[1] = f /\ (w \o e)[1 + 1] = "cr"
          /\ (w \o e)[1 + 2] = "lf"
      BY <2>a, <3>1, <3>3
    <3>5. \A i \in 1 .. 3 : i \in {1, 2, 3}
      OBVIOUS
    <3>6. \A i \in 1 .. Len(x) : x[i] = (w \o e)[i]
      BY <3>1, <3>4, <3>5
    <3>7. x = w \o e
      BY <3>1, <3>3, <3>4, <3>6, SameSeq
    <3>8. QED BY <3>7 DEF LineEndBehind, x, e
  <2>4. w \in Seq(Symbols) /\ Len(w) = 1 /\ LineEndBehind(w) = <<f, "cr", "lf">> /\ w[1] = f
    BY <2>a, <2>b
  <2> HIDE DEF w
  <2>5. \A i \in 1 .. Len(w) : w[i] \notin {"cr", "lf"}
    BY <2>3, <2>4
  <2>6. /\ LineEnd(s) = Len(w) + 2
        /\ LineEnd(input) > 0 => LineEnd(input) = Len(w) + 2 /\ LineSent(input) = w
    BY <2>1, <2>4, <2>5, Reads
  <2>7. /\ LineEnd(s) = 3
        /\ LineEnd(input) > 0 => LineEnd(input) = 3 /\ LineSent(input) = <<f>>
    BY <2>4, <2>6 DEF w
  <2>8. LineEnd(input) > 0 =>
          \E g \in p.left :
            /\ LineSent(input) = <<g>> /\ LineEnd(input) = 3 /\ p.field = NoName
            /\ Place(cursor + 3, "header", g, p.left \ {g}) \in req.places
    BY <2>1, <2>7
  <2>9. LineEnd(s) > 0
    BY <2>7
  <2>10. QED BY <2>8, <2>9, Zenon
<1>4. CASE /\ LineEnd(s) > 1 /\ s[1] \notin Names \cup {"cr"}
           /\ Place(cursor + LineEnd(s), "header", p.field, p.left) \in req.places
  <2>a. LineEnd(s) > 0
    <3>1. LineEnd(s) \in Nat
      BY LineOfBody
    <3>2. QED BY <1>4, <3>1
  <2> SUFFICES ASSUME LineEnd(input) > 0
               PROVE  /\ LineSent(input) # << >> /\ LineSent(input)[1] \notin Names
                      /\ LineEnd(input) = LineEnd(s)
    BY <1>4, <2>a
  <2>1. input \in Seq(Bytes) /\ u \in Seq(Bytes) /\ s = input \o u
    BY InputIs
  <2> HIDE DEF s, u
  <2>2. LineEnd(s) = LineEnd(input)
    BY <2>1, LineKept
  <2>3. /\ s \in Seq(Bytes) /\ Len(input) \in Nat
        /\ \A i \in 1 .. Len(input) : s[i] = input[i]
    BY <2>1, PrefixIs
  <2> DEFINE n == LineEnd(input)
             line == Take(input, n - 1)
             I == {i \in 1 .. Len(line) : line[i] # "cr"}
             k == SelectLastInSeq(line, LAMBDA b : b # "cr")
  <2>4. n \in 0 .. Len(input) /\ n > 1
    BY <1>4, <2>1, <2>2, LineEndIs
  <2>5. n - 1 \in 0 .. Len(input) /\ 1 \in 1 .. n - 1 /\ 1 \in 1 .. Len(input)
    BY <2>3, <2>4
  <2>6. line \in Seq(Bytes) /\ Len(line) = n - 1 /\ \A i \in 1 .. n - 1 : line[i] = input[i]
    BY <2>1, <2>5, TakeIs
  <2>7. k = IF I # {} THEN Max(I) ELSE 0
    BY DEF SelectLastInSeq
  <2>8. LineSent(input) = Take(line, k)
    BY DEF LineSent, Trimmed
  <2> HIDE DEF n, line, k
  <2>9. line[1] = s[1] /\ line[1] # "cr" /\ line[1] \notin Names
    BY <1>4, <2>3, <2>5, <2>6
  <2>10. 1 \in I /\ Len(line) \in Nat /\ I \in SUBSET (1 .. Len(line)) /\ I # {}
    BY <2>3, <2>4, <2>5, <2>6, <2>9
  <2> HIDE DEF I
  <2>11. Max(I) \in I /\ Max(I) >= 1
    BY <2>10, GreatestIn
  <2>c. k = Max(I) /\ k \in 1 .. Len(line)
    <3>1. k = Max(I)
      BY <2>7, <2>10
    <3>2. Max(I) \in 1 .. Len(line)
      BY <2>10, <2>11
    <3>3. QED BY <3>1, <3>2
  <2>12. k \in 1 .. Len(line) /\ k \in 0 .. Len(line) /\ 1 \in 1 .. k
    BY <2>10, <2>c
  <2>13. /\ Take(line, k) \in Seq(Bytes) /\ Len(Take(line, k)) = k
         /\ \A i \in 1 .. k : Take(line, k)[i] = line[i]
    BY <2>6, <2>12, TakeIs
  <2>14. Take(line, k)[1] = line[1] /\ Take(line, k) # << >>
    BY <2>12, <2>13
  <2>15. QED BY <2>2, <2>8, <2>9, <2>14 DEF n
<1>5. QED BY <1>1, <1>2, <1>3, <1>4

\* The content of a part, the line end and the boundary behind it.
LEMMA ContentIs ==
  ASSUME TypeOK, Form(req), NEW p \in req.places, p.kind = "data"
  PROVE  /\ p.at \in Nat /\ PartEnd(p) \in Nat /\ p.at + 2 <= PartEnd(p)
         /\ PartEnd(p) + boundaryLen <= Len(req.body)
         /\ req.body[PartEnd(p) - 1] = "cr" /\ req.body[PartEnd(p)] = "lf"
         /\ \A j \in 1 .. boundaryLen : req.body[PartEnd(p) + j] = Boundary[j]
         /\ \A o \in p.at .. PartEnd(p) - 1 :
              \E j \in 1 .. boundaryLen : req.body[o + j] # Boundary[j]
         /\ req.parts[p.field] \in Seq(Bytes)
         /\ Len(req.parts[p.field]) = PartEnd(p) - 2 - p.at
         /\ \A i \in 1 .. PartEnd(p) - 2 - p.at : req.parts[p.field][i] = req.body[p.at + i]
         /\ Place(PartEnd(p), "boundary", NoName, p.left) \in req.places
<1> DEFINE b == req.body
           P == p.at
           s == Drop(b, P)
           g == getBoundary(s)
           n == g - 1
           B == PartEnd(p)
           content == req.parts[p.field]
<1>1. b \in Seq(Bytes) /\ Len(b) \in Nat
  BY ReqIs
<1>2. P \in 0 .. Len(b)
  BY PlaceIs
<1>3. /\ n >= 2 /\ SubSeq(s, n - 1, n) = <<"cr", "lf">>
      /\ content = Take(s, n - 2)
      /\ Place(P + n, "boundary", NoName, p.left) \in req.places
  BY PlaceIs DEF Follows
<1>4. B = P + g - 1
  BY DEF PartEnd
<1> HIDE DEF b, P, B, content
<1>5. /\ s \in Seq(Bytes) /\ Len(s) = Len(b) - P
      /\ \A i \in 1 .. Len(b) - P : s[i] = b[P + i]
  BY <1>1, <1>2, DropIs
<1>6. boundaryLen \in Nat /\ boundaryLen > 0
  BY BoundaryIs
<1>7. /\ g \in 0 .. Len(s)
      /\ g > 0 => g \in BoundariesIn(s) /\ \A j \in BoundariesIn(s) : g <= j
  BY <1>5, FirstBoundary
<1> HIDE DEF s, g
<1>8. g \in Nat \ {0} /\ P \in Nat /\ n = g - 1 /\ g >= 3
  BY <1>1, <1>2, <1>3, <1>5, <1>7
<1>9. \A i \in Nat \ {0} :
        i \in BoundariesIn(s) <=>
          i + boundaryLen - 1 <= Len(s) /\ \A j \in 1 .. boundaryLen : s[i - 1 + j] = Boundary[j]
  BY <1>5, OccursIs
<1>10. g + boundaryLen - 1 <= Len(s) /\ \A j \in 1 .. boundaryLen : s[g - 1 + j] = Boundary[j]
  BY <1>7, <1>8, <1>9
<1>11. Len(s) = Len(b) - P
  BY <1>5
<1>12. B \in Nat /\ P + 2 <= B /\ B + boundaryLen <= Len(b) /\ B = P + n /\ n \in Nat
  BY <1>1, <1>4, <1>6, <1>8, <1>10, <1>11
<1>13. ASSUME NEW j \in 1 .. boundaryLen PROVE b[B + j] = Boundary[j]
  <2>1. g - 1 + j \in 1 .. Len(b) - P /\ P + (g - 1 + j) = B + j
    BY <1>1, <1>4, <1>6, <1>8, <1>10, <1>11
  <2>2. s[g - 1 + j] = b[P + (g - 1 + j)]
    BY <1>5, <2>1
  <2>3. QED BY <1>10, <2>1, <2>2
<1>14. ASSUME NEW o \in P .. B - 1
       PROVE  \E j \in 1 .. boundaryLen : b[o + j] # Boundary[j]
  <2> SUFFICES ASSUME \A j \in 1 .. boundaryLen : b[o + j] = Boundary[j]
               PROVE  FALSE
    OBVIOUS
  <2> DEFINE i == o - P + 1
  <2>1. /\ i \in Nat \ {0} /\ i < g /\ i + boundaryLen - 1 <= Len(s)
        /\ o \in Nat /\ P + i = o + 1 /\ i <= n
    BY <1>4, <1>6, <1>8, <1>10, <1>12
  <2> HIDE DEF i
  <2>2. ASSUME NEW j \in 1 .. boundaryLen PROVE s[i - 1 + j] = Boundary[j]
    <3>1. i - 1 + j \in 1 .. Len(b) - P /\ P + (i - 1 + j) = o + j
      BY <1>1, <1>6, <1>8, <1>11, <2>1
    <3>2. s[i - 1 + j] = b[P + (i - 1 + j)]
      BY <1>5, <3>1
    <3>3. QED BY <3>1, <3>2
  <2>3. i \in BoundariesIn(s)
    BY <1>9, <2>1, <2>2
  <2>4. g <= i
    BY <1>7, <1>8, <2>3
  <2>5. QED BY <1>8, <2>1, <2>4
<1>15. n \in 1 .. Len(s) /\ n - 1 \in 1 .. Len(s) /\ n - 2 \in 0 .. Len(s) /\ n <= Len(s)
  BY <1>1, <1>2, <1>6, <1>8, <1>10, <1>11
<1>16. s[n - 1] = "cr" /\ s[n] = "lf"
  <2> DEFINE e == SubSeq(s, n - 1, n)
  <2>1. e[1] = s[n - 1] /\ e[2] = s[n]
    BY <1>5, <1>8, <1>15
  <2>2. e = <<"cr", "lf">>
    BY <1>3
  <2> HIDE DEF e
  <2>3. e[1] = "cr" /\ e[2] = "lf"
    BY <2>2
  <2>4. QED BY <2>1, <2>3
<1>17. b[B - 1] = "cr" /\ b[B] = "lf"
  <2>1. /\ n \in 1 .. Len(b) - P /\ n - 1 \in 1 .. Len(b) - P
        /\ P + n = B /\ P + (n - 1) = B - 1
    BY <1>8, <1>11, <1>12, <1>15
  <2>2. s[n] = b[P + n] /\ s[n - 1] = b[P + (n - 1)]
    BY <1>5, <2>1
  <2>3. QED BY <1>16, <2>1, <2>2
<1>18. /\ content \in Seq(Bytes) /\ Len(content) = n - 2
       /\ \A i \in 1 .. n - 2 : content[i] = s[i]
  BY <1>3, <1>5, <1>15, TakeIs
<1>19. B - 2 - P = n - 2
  BY <1>8, <1>12
<1>20. ASSUME NEW i \in 1 .. B - 2 - P PROVE content[i] = b[P + i]
  <2>1. i \in 1 .. n - 2 /\ i \in 1 .. Len(b) - P
    BY <1>8, <1>11, <1>15, <1>19
  <2>2. QED BY <1>5, <1>18, <2>1
<1>21. Place(B, "boundary", NoName, p.left) \in req.places
  BY <1>3, <1>12
<1>22. QED BY <1>8, <1>12, <1>13, <1>14, <1>17, <1>18, <1>19, <1>20, <1>21
           DEF b, P, B, content

\* The parser meets the boundary behind a part when all of it has arrived.
LEMMA InSight ==
  ASSUME TypeOK, Cut, Form(req), NEW p \in req.places, p.kind = "data",
         cursor \in p.at .. PartEnd(p)
  PROVE  /\ getBoundary(input) > 0 <=> PartEnd(p) + boundaryLen <= Len(got)
         /\ getBoundary(input) > 0 => getBoundary(input) = PartEnd(p) - cursor + 1
         /\ getBoundary(input) \in Nat
<1> DEFINE b == req.body
           P == p.at
           B == PartEnd(p)
           g == getBoundary(input)
           c == cursor
<1>1. /\ c \in Nat /\ c + Len(input) = Len(got) /\ Len(input) \in Nat /\ Len(got) \in Nat
      /\ input \in Seq(Bytes) /\ \A i \in 1 .. Len(input) : input[i] = b[c + i]
  BY InputIs
<1>2. /\ P \in Nat /\ B \in Nat
      /\ \A j \in 1 .. boundaryLen : b[B + j] = Boundary[j]
      /\ \A o \in P .. B - 1 : \E j \in 1 .. boundaryLen : b[o + j] # Boundary[j]
  BY ContentIs
<1>3. boundaryLen \in Nat /\ boundaryLen > 0
  BY BoundaryIs
<1>4. c >= P /\ c <= B
  BY <1>1, <1>2
<1>5. /\ g \in 0 .. Len(input) /\ (g = 0 => BoundariesIn(input) = {})
      /\ g > 0 => g \in BoundariesIn(input) /\ \A j \in BoundariesIn(input) : g <= j
  BY <1>1, FirstBoundary
<1>6. \A i \in Nat \ {0} :
        i \in BoundariesIn(input) <=>
          /\ i + boundaryLen - 1 <= Len(input)
          /\ \A j \in 1 .. boundaryLen : input[i - 1 + j] = Boundary[j]
  BY <1>1, OccursIs
<1> HIDE DEF b, P, B, g, c
<1>7. g \in Nat
  BY <1>1, <1>5
<1>8. ASSUME g > 0 PROVE g >= B - c + 1 /\ g + boundaryLen - 1 <= Len(input)
  <2>1. g \in Nat \ {0}
    BY <1>7, <1>8
  <2>2. /\ g + boundaryLen - 1 <= Len(input)
        /\ \A j \in 1 .. boundaryLen : input[g - 1 + j] = Boundary[j]
    BY <1>5, <1>6, <1>8, <2>1
  <2>3. SUFFICES ASSUME g < B - c + 1 PROVE FALSE
    BY <1>1, <1>2, <2>1, <2>2
  <2> DEFINE o == c + g - 1
  <2>4. o \in P .. B - 1 /\ o \in Nat /\ o = c + g - 1 /\ c \in Nat
    BY <1>1, <1>2, <1>4, <2>1, <2>3
  <2> HIDE DEF o
  <2>5. PICK j \in 1 .. boundaryLen : b[o + j] # Boundary[j]
    BY <1>2, <2>4
  <2>6. g - 1 + j \in 1 .. Len(input) /\ c + (g - 1 + j) = o + j
    <3>1. g + boundaryLen - 1 <= Len(input) /\ Len(input) \in Nat /\ j \in Nat /\ 1 <= j /\ j <= boundaryLen
      BY <1>1, <1>3, <2>2
    <3>2. QED BY <1>3, <2>1, <2>4, <3>1
  <2>7. input[g - 1 + j] = b[c + (g - 1 + j)]
    BY <1>1, <2>6
  <2>8. QED BY <2>2, <2>5, <2>6, <2>7
<1>9. ASSUME B + boundaryLen <= Len(got) PROVE g > 0 /\ g <= B - c + 1
  <2> DEFINE i == B - c + 1
  <2>1. /\ i \in Nat \ {0} /\ i + boundaryLen - 1 <= Len(input) /\ c + i = B + 1
    BY <1>1, <1>2, <1>3, <1>4, <1>9
  <2> HIDE DEF i
  <2>2. ASSUME NEW j \in 1 .. boundaryLen PROVE input[i - 1 + j] = Boundary[j]
    <3>1. i - 1 + j \in 1 .. Len(input) /\ c + (i - 1 + j) = B + j
      BY <1>1, <1>2, <1>3, <2>1
    <3>2. input[i - 1 + j] = b[c + (i - 1 + j)]
      BY <1>1, <3>1
    <3>3. QED BY <1>2, <3>1, <3>2
  <2>3. i \in BoundariesIn(input)
    BY <1>6, <2>1, <2>2
  <2>4. g # 0
    BY <1>5, <2>3
  <2>5. g > 0 /\ g <= i
    BY <1>5, <1>7, <2>3, <2>4
  <2>6. QED BY <2>5 DEF i
<1>10. g > 0 => B + boundaryLen <= Len(got)
  BY <1>1, <1>2, <1>3, <1>4, <1>7, <1>8
<1>11. g > 0 => g = B - c + 1
  BY <1>1, <1>2, <1>7, <1>8, <1>9, <1>10
<1>12. QED BY <1>7, <1>9, <1>10, <1>11 DEF B, g, c

\* Bytes of a part, and of the line end and the boundary behind it.
LEMMA PartCopied ==
  ASSUME TypeOK, Form(req), NEW p \in req.places, p.kind = "data",
         NEW s \in Seq(Bytes), NEW n \in Nat, n <= PartEnd(p) + boundaryLen - p.at,
         Copied(s, p.at, n)
  PROVE  /\ s \in Prefixes(LineEndBehind(req.parts[p.field]) \o Boundary)
         /\ n = PartEnd(p) - 2 - p.at => s = req.parts[p.field]
         /\ n = PartEnd(p) - p.at => s = LineEndBehind(req.parts[p.field])
<1> DEFINE b == req.body
           P == p.at
           B == PartEnd(p)
           content == req.parts[p.field]
           line == LineEndBehind(content)
           whole == line \o Boundary
           l == boundaryLen
<1>1. /\ P \in Nat /\ B \in Nat /\ P + 2 <= B /\ B + l <= Len(b)
      /\ b[B - 1] = "cr" /\ b[B] = "lf"
      /\ \A j \in 1 .. l : b[B + j] = Boundary[j]
      /\ content \in Seq(Bytes) /\ Len(content) = B - 2 - P
      /\ \A i \in 1 .. B - 2 - P : content[i] = b[P + i]
  BY ContentIs
<1>2. Len(s) = n /\ \A i \in 1 .. n : s[i] = b[P + i]
  BY DEF Copied
<1>3. Boundary \in Seq(Symbols) /\ Len(Boundary) = l /\ l \in Nat
  BY BoundaryLine, BoundaryIs
<1>4. {"cr", "lf"} \subseteq Symbols /\ Bytes \subseteq Symbols
  BY DEF Symbols
<1> HIDE DEF b, P, B, content, l, Symbols
<1>5. content \in Seq(Symbols) /\ s \in Seq(Symbols) /\ <<"cr", "lf">> \in Seq(Symbols)
  BY <1>1, <1>4
<1>6. /\ line \in Seq(Symbols) /\ Len(line) = Len(content) + Len(<<"cr", "lf">>)
      /\ \A i \in 1 .. Len(content) : line[i] = content[i]
      /\ \A i \in 1 .. Len(<<"cr", "lf">>) : line[Len(content) + i] = <<"cr", "lf">>[i]
  BY <1>5, PrefixIs DEF LineEndBehind
<1>7. Len(<<"cr", "lf">>) = 2 /\ <<"cr", "lf">>[1] = "cr" /\ <<"cr", "lf">>[2] = "lf"
  OBVIOUS
<1>8. line[Len(content) + 1] = "cr" /\ line[Len(content) + 2] = "lf" /\ Len(line) = B - P
  <2>1. 1 \in 1 .. 2 /\ 2 \in 1 .. 2
    OBVIOUS
  <2>2. QED BY <1>1, <1>6, <1>7, <2>1
<1> HIDE DEF line
<1>9. /\ whole \in Seq(Symbols) /\ Len(whole) = Len(line) + Len(Boundary)
      /\ \A i \in 1 .. Len(line) : whole[i] = line[i]
      /\ \A i \in 1 .. Len(Boundary) : whole[Len(line) + i] = Boundary[i]
  <2>1. line \in Seq(Symbols) /\ Boundary \in Seq(Symbols)
    BY <1>3, <1>6
  <2>2. QED BY <2>1, PrefixIs
<1> HIDE DEF whole
<1>10. ASSUME NEW i \in 1 .. B - P PROVE line[i] = b[P + i]
  <2>1. P \in Nat /\ B \in Nat /\ Len(content) = B - 2 - P
    BY <1>1
  <2>2. CASE i <= B - 2 - P
    <3>1. i \in 1 .. B - 2 - P
      BY <2>1, <2>2
    <3>2. QED BY <1>1, <1>6, <3>1
  <2>3. CASE i = B - 1 - P
    <3>1. i = Len(content) + 1 /\ P + i = B - 1
      BY <2>1, <2>3
    <3>2. QED BY <1>1, <1>8, <3>1
  <2>4. CASE i = B - P
    <3>1. i = Len(content) + 2 /\ P + i = B
      BY <2>1, <2>4
    <3>2. QED BY <1>1, <1>8, <3>1
  <2>5. i <= B - 2 - P \/ i = B - 1 - P \/ i = B - P
    BY <2>1
  <2>6. QED BY <2>2, <2>3, <2>4, <2>5
<1>11. ASSUME NEW i \in 1 .. B + l - P PROVE whole[i] = b[P + i]
  <2>1. CASE i <= B - P
    <3>1. i \in 1 .. B - P
      BY <1>1, <1>3, <2>1
    <3>2. QED BY <1>8, <1>9, <1>10, <3>1
  <2>2. CASE i > B - P
    <3> DEFINE j == i - (B - P)
    <3>1. j \in 1 .. l /\ i = (B - P) + j /\ P + i = B + j
      BY <1>1, <1>3, <2>2
    <3> HIDE DEF j
    <3>2. whole[i] = Boundary[j]
      BY <1>3, <1>8, <1>9, <3>1
    <3>3. QED BY <1>1, <3>1, <3>2
  <2>3. i <= B - P \/ i > B - P
    BY <1>1, <1>3
  <2>4. QED BY <2>1, <2>2, <2>3
<1>12. n <= B + l - P
  BY DEF B, l, P
<1>13. n \in 0 .. Len(whole) /\ Len(whole) = B + l - P
  BY <1>1, <1>3, <1>8, <1>9, <1>12
<1>14. s = SubSeq(whole, 1, n)
  <2>1. /\ Take(whole, n) \in Seq(Symbols) /\ Len(Take(whole, n)) = n
        /\ \A i \in 1 .. n : Take(whole, n)[i] = whole[i]
    BY <1>9, <1>13, TakeIs
  <2>2. \A i \in 1 .. n : i \in 1 .. B + l - P
    BY <1>1, <1>3, <1>12
  <2>3. \A i \in 1 .. Len(s) : s[i] = Take(whole, n)[i]
    BY <1>2, <1>11, <2>1, <2>2
  <2>4. s = Take(whole, n)
    BY <1>2, <1>5, <2>1, <2>3, SameSeq
  <2>5. QED BY <2>4 DEF Take
<1>15. s \in Prefixes(whole)
  BY <1>13, <1>14 DEF Prefixes
<1>16. ASSUME n = B - 2 - P PROVE s = content
  <2>1. \A i \in 1 .. Len(s) : s[i] = content[i]
    BY <1>1, <1>2, <1>16
  <2>2. Len(s) = Len(content)
    BY <1>1, <1>2, <1>16
  <2>3. QED BY <1>5, <2>1, <2>2, SameSeq
<1>17. ASSUME n = B - P PROVE s = line
  <2>1. \A i \in 1 .. Len(s) : s[i] = line[i]
    BY <1>2, <1>10, <1>17
  <2>2. Len(s) = Len(line)
    BY <1>2, <1>8, <1>17
  <2>3. QED BY <1>5, <1>6, <2>1, <2>2, SameSeq
<1>18. QED BY <1>15, <1>16, <1>17 DEF content, line, whole, B, P

\* What is taken from the input.
LEMMA Taken ==
  ASSUME TypeOK, Cut, NEW n \in 0 .. Len(input)
  PROVE  /\ Take(input, n) \in Seq(Bytes) /\ Copied(Take(input, n), cursor, n)
<1>1. /\ input \in Seq(Bytes) /\ \A i \in 1 .. Len(input) : input[i] = req.body[cursor + i]
      /\ Len(input) \in Nat
  BY InputIs
<1>2. /\ Take(input, n) \in Seq(Bytes) /\ Len(Take(input, n)) = n
      /\ \A i \in 1 .. n : Take(input, n)[i] = input[i]
  BY <1>1, TakeIs
<1>3. \A i \in 1 .. n : i \in 1 .. Len(input)
  BY <1>1
<1>4. QED BY <1>1, <1>2, <1>3 DEF Copied

LEMMA CopiedMore ==
  ASSUME NEW s \in Seq(Bytes), NEW t \in Seq(Bytes), NEW at \in Nat, NEW n \in Nat,
         NEW k \in Nat, Copied(s, at, n), Copied(t, at + n, k)
  PROVE  s \o t \in Seq(Bytes) /\ Copied(s \o t, at, n + k)
<1>1. /\ s \o t \in Seq(Bytes) /\ Len(s \o t) = Len(s) + Len(t)
      /\ \A i \in 1 .. Len(s) : (s \o t)[i] = s[i]
      /\ \A i \in 1 .. Len(t) : (s \o t)[Len(s) + i] = t[i]
  BY PrefixIs
<1>2. /\ Len(s) = n /\ \A i \in 1 .. n : s[i] = req.body[at + i]
      /\ Len(t) = k /\ \A i \in 1 .. k : t[i] = req.body[at + n + i]
  BY DEF Copied
<1> DEFINE c == s \o t
<1> HIDE DEF c
<1>3. ASSUME NEW i \in 1 .. n + k PROVE c[i] = req.body[at + i]
  <2>1. CASE i <= n
    <3>1. i \in 1 .. n
      BY <2>1
    <3>2. QED BY <1>1, <1>2, <3>1 DEF c
  <2>2. CASE i > n
    <3> DEFINE j == i - n
    <3>1. j \in 1 .. k /\ i = n + j /\ at + i = at + n + j
      BY <2>2
    <3> HIDE DEF j
    <3>2. QED BY <1>1, <1>2, <3>1 DEF c
  <2>3. QED BY <2>1, <2>2
<1>4. QED BY <1>1, <1>2, <1>3 DEF Copied, c

\* Less of it.
LEMMA CopiedLess ==
  ASSUME NEW s \in Seq(Bytes), NEW at \in Nat, NEW n \in Nat, NEW k \in 0 .. n,
         Copied(s, at, n)
  PROVE  Take(s, k) \in Seq(Bytes) /\ Copied(Take(s, k), at, k)
<1>1. Len(s) = n /\ \A i \in 1 .. n : s[i] = req.body[at + i]
  BY DEF Copied
<1>2. /\ Take(s, k) \in Seq(Bytes) /\ Len(Take(s, k)) = k
      /\ \A i \in 1 .. k : Take(s, k)[i] = s[i]
  BY <1>1, TakeIs
<1>3. QED BY <1>1, <1>2 DEF Copied

\* The line end before a boundary is not content.
LEMMA TextIs ==
  ASSUME TypeOK, Cut, NEW n \in 0 .. Len(input)
  PROVE  \E m \in 0 .. n :
           /\ WithoutCRLF(Take(input, n)) \in Seq(Bytes)
           /\ Copied(WithoutCRLF(Take(input, n)), cursor, m)
           /\ \/ m = n
              \/ n >= 2 /\ m = n - 2
           /\ n >= 2 /\ req.body[cursor + n - 1] = "cr" /\ req.body[cursor + n] = "lf" => m = n - 2
<1> DEFINE d == Take(input, n)
<1>1. d \in Seq(Bytes) /\ Copied(d, cursor, n)
  BY Taken
<1>2. cursor \in Nat /\ n \in Nat /\ Len(input) \in Nat
  BY InputIs
<1>3. Len(d) = n /\ \A i \in 1 .. n : d[i] = req.body[cursor + i]
  BY <1>1 DEF Copied
<1> HIDE DEF d
<1> DEFINE ends == Len(d) >= 2 /\ d[Len(d) - 1] = "cr" /\ d[Len(d)] = "lf"
<1>4. /\ ends => WithoutCRLF(d) = Take(d, Len(d) - 2)
      /\ ~ends => WithoutCRLF(d) = d
  BY <1>1, WithoutAt
<1>5. ASSUME n >= 2, req.body[cursor + n - 1] = "cr", req.body[cursor + n] = "lf" PROVE ends
  <2>1. n \in 1 .. n /\ n - 1 \in 1 .. n /\ cursor + (n - 1) = cursor + n - 1
    BY <1>2, <1>5
  <2>2. QED BY <1>3, <1>5, <2>1
<1>6. ends => n >= 2
  BY <1>3
<1> HIDE DEF ends
<1>7. CASE ends
  <2> DEFINE k == n - 2
  <2>1. k \in 0 .. n
    BY <1>2, <1>6, <1>7
  <2>2. Take(d, k) \in Seq(Bytes) /\ Copied(Take(d, k), cursor, k)
    BY <1>1, <1>2, <2>1, CopiedLess
  <2>3. WithoutCRLF(d) = Take(d, k)
    BY <1>3, <1>4, <1>7
  <2> HIDE DEF k
  <2>4. WithoutCRLF(d) \in Seq(Bytes) /\ Copied(WithoutCRLF(d), cursor, k)
    BY <2>2, <2>3
  <2>5. k = n - 2
    BY DEF k
  <2>6. QED BY <1>6, <1>7, <2>1, <2>4, <2>5 DEF d
<1>8. CASE ~ends
  <2>1. n \in 0 .. n
    BY <1>2
  <2>2. WithoutCRLF(d) \in Seq(Bytes) /\ Copied(WithoutCRLF(d), cursor, n)
    BY <1>1, <1>4, <1>8
  <2>3. QED BY <1>5, <1>8, <2>1, <2>2 DEF d
<1>9. QED BY <1>7, <1>8

\* A file that ends has its content; when the end was cut, a line end too.
LEMMA FileEnds ==
  ASSUME TypeOK, Cut, Form(req), NEW p \in req.places, p.kind = "data",
         cursor \in p.at .. PartEnd(p), PartEnd(p) <= Len(got),
         NEW w \in Seq(Bytes), Copied(w, p.at, cursor - p.at)
  PROVE  LET text == w \o WithoutCRLF(Take(input, PartEnd(p) - cursor))
         IN /\ text \in Extended(req.parts[p.field])
            /\ cursor = p.at => text = req.parts[p.field]
<1> DEFINE P == p.at
           B == PartEnd(p)
           c == cursor
           n == B - c
           e == WithoutCRLF(Take(input, n))
           text == w \o e
           content == req.parts[p.field]
<1>1. /\ c \in Nat /\ c + Len(input) = Len(got) /\ Len(input) \in Nat /\ Len(got) \in Nat
  BY InputIs
<1>2. /\ P \in Nat /\ B \in Nat /\ P + 2 <= B
      /\ req.body[B - 1] = "cr" /\ req.body[B] = "lf"
  BY ContentIs
<1>3. boundaryLen \in Nat
  BY BoundaryIs
<1>4. c >= P /\ c <= B /\ B <= Len(got)
  BY <1>2
<1>5. n \in 0 .. Len(input) /\ c + n = B /\ c + n - 1 = B - 1
  BY <1>1, <1>2, <1>4
<1>6. PICK m \in 0 .. n :
           /\ e \in Seq(Bytes) /\ Copied(e, c, m)
           /\ m = n \/ (n >= 2 /\ m = n - 2)
           /\ n >= 2 /\ req.body[c + n - 1] = "cr" /\ req.body[c + n] = "lf" => m = n - 2
  BY <1>5, TextIs
<1> HIDE DEF e
<1>7. n >= 2 => m = n - 2
  BY <1>2, <1>5, <1>6
<1>8. Copied(w, P, c - P)
  OBVIOUS
<1>a. m \in 0 .. n
  OBVIOUS
<1> HIDE DEF P, B, c
<1>9. c - P \in Nat /\ m \in Nat /\ P + (c - P) = c
  BY <1>1, <1>2, <1>4, <1>5, <1>a
<1> DEFINE k == (c - P) + m
<1>10. text \in Seq(Bytes) /\ Copied(text, P, k)
  BY <1>2, <1>6, <1>8, <1>9, CopiedMore
<1> HIDE DEF text
<1>11. k \in Nat /\ k <= B + boundaryLen - P /\ (k = B - 2 - P \/ k = B - P)
       /\ (c = P => k = B - 2 - P)
  BY <1>1, <1>2, <1>3, <1>4, <1>5, <1>6, <1>7, <1>9
<1> HIDE DEF k
<1>12. /\ k = B - 2 - P => text = content
       /\ k = B - P => text = LineEndBehind(content)
  BY <1>10, <1>11, PartCopied DEF P, B
<1>13. text \in Extended(content) /\ (c = P => text = content)
  BY <1>11, <1>12 DEF Extended
<1>14. QED BY <1>13 DEF text, e, n, B, c, P

\* A variable that ends has its content, or the start of it, line end and
\* boundary.
LEMMA VarEnds ==
  ASSUME TypeOK, Cut, Form(req), NEW p \in req.places, p.kind = "data",
         cursor = p.at, NEW n \in 0 .. Len(input), n <= PartEnd(p) + boundaryLen - p.at
  PROVE  LET text == WithoutCRLF(Take(input, n))
         IN /\ text \in Prefixes(LineEndBehind(req.parts[p.field]) \o Boundary)
            /\ n = PartEnd(p) - p.at => text = req.parts[p.field]
<1> DEFINE P == p.at
           B == PartEnd(p)
           text == WithoutCRLF(Take(input, n))
           content == req.parts[p.field]
<1>1. Len(input) \in Nat /\ n \in Nat
  BY InputIs
<1>2. /\ P \in Nat /\ B \in Nat /\ P + 2 <= B
      /\ req.body[B - 1] = "cr" /\ req.body[B] = "lf"
  BY ContentIs
<1>3. boundaryLen \in Nat
  BY BoundaryIs
<1>4. PICK m \in 0 .. n :
           /\ text \in Seq(Bytes) /\ Copied(text, P, m)
           /\ m = n \/ (n >= 2 /\ m = n - 2)
           /\ n >= 2 /\ req.body[P + n - 1] = "cr" /\ req.body[P + n] = "lf" => m = n - 2
  BY TextIs
<1> HIDE DEF text
<1>5. n <= B + boundaryLen - P
  OBVIOUS
<1> HIDE DEF P, B
<1>6. n = B - P => m = B - 2 - P
  <2> SUFFICES ASSUME n = B - P PROVE m = B - 2 - P
    OBVIOUS
  <2>1. n >= 2 /\ P + n - 1 = B - 1 /\ P + n = B /\ n - 2 = B - 2 - P
    BY <1>2
  <2>2. QED BY <1>2, <1>4, <2>1
<1>7. m \in Nat /\ m <= B + boundaryLen - P
  BY <1>1, <1>2, <1>3, <1>4, <1>5
<1>8. /\ text \in Prefixes(LineEndBehind(content) \o Boundary)
      /\ m = B - 2 - P => text = content
  BY <1>4, <1>7, PartCopied DEF P, B
<1>9. QED BY <1>6, <1>8 DEF text, P, B

LEMMA PartNames ==
  ASSUME TypeOK, NEW f \in DOMAIN req.parts
  PROVE  f \in Names
BY RxAssumption DEF TypeOK

LEMMA EmptyPrefix ==
  ASSUME NEW text \in Seq(Bytes)
  PROVE  << >> \in Prefixes(LineEndBehind(text) \o Boundary)
<1> DEFINE s == LineEndBehind(text) \o Boundary
<1>1. text \in Seq(Bytes)
  OBVIOUS
<1>2. Boundary \in Seq(Symbols) /\ text \in Seq(Symbols) /\ <<"cr", "lf">> \in Seq(Symbols)
  <2>1. {"cr", "lf"} \subseteq Symbols /\ Bytes \subseteq Symbols
    BY DEF Symbols
  <2> HIDE DEF Symbols
  <2>2. QED BY <1>1, <2>1, BoundaryLine
<1>3. s \in Seq(Symbols)
  BY <1>2 DEF LineEndBehind
<1> HIDE DEF s
<1>4. Len(s) \in Nat
  BY <1>3
<1>5. 0 \in 0 .. Len(s) /\ SubSeq(s, 1, 0) = << >>
  BY <1>3, <1>4
<1>6. << >> \in Prefixes(s)
  BY <1>5 DEF Prefixes
<1>7. QED BY <1>6 DEF s

(***************************************************************************)
(* Each step keeps to the form.                                            *)
(***************************************************************************)

LEMMA FormSame ==
  ASSUME FormInv, UNCHANGED <<req, up, disk, kept, lineLost>>, cursor' = cursor,
         failed' = "no" => failed = "no", pc # "freed"
  PROVE  FormInv'
<1>1. PartsBounded'
  BY DEF FormInv, PartsBounded, PartIs
<1>2. ASSUME NEW p \in req.places, Standing(p) PROVE Standing(p)'
  BY <1>2 DEF Standing, Named, Copied, PartEnd
<1>3. Reading => Reading'
  BY <1>2 DEF Reading
<1>4. QED BY <1>1, <1>3 DEF FormInv

\* What has been entered stays, if its files do.
LEMMA BoundedKept ==
  ASSUME TypeOK, PartsBounded, UNCHANGED <<req, kept>>, failed' = "no" => failed = "no",
         lineLost => lineLost', up'.vars = up.vars, up'.files = up.files,
         ~lineLost' => \A f \in FileFields :
           up.files[f] # 0 => disk'[up.files[f]] = disk[up.files[f]]
  PROVE  PartsBounded'
<1> SUFFICES ASSUME req.consumer = "upload", ~lineLost', NEW f \in DOMAIN req.parts
             PROVE  IF f \in Fields
                    THEN PartIs(f, Prefixes(LineEndBehind(req.parts[f]) \o Boundary))'
                    ELSE /\ up'.files[f] # 0 => PartIs(f, Extended(req.parts[f]))'
                         /\ failed' = "no" /\ f \in DOMAIN kept' =>
                              kept'[f] \in Extended(req.parts[f])
  BY DEF PartsBounded
<1>1. IF f \in Fields
      THEN PartIs(f, Prefixes(LineEndBehind(req.parts[f]) \o Boundary))
      ELSE /\ up.files[f] # 0 => PartIs(f, Extended(req.parts[f]))
           /\ failed = "no" /\ f \in DOMAIN kept => kept[f] \in Extended(req.parts[f])
  BY DEF PartsBounded
<1>2. CASE f \in Fields
  BY <1>1, <1>2 DEF PartIs
<1>3. CASE f \notin Fields
  <2>1. f \in FileFields
    BY <1>3, PartNames DEF Names
  <2>2. QED BY <1>1, <1>3, <2>1 DEF PartIs
<1>4. QED BY <1>2, <1>3

LEMMA FormTermWebs ==
  ASSUME TypeOK, FormInv, TermWebs(failed'), EndsAfter(failed')
  PROVE  FormInv'
<1>1. /\ up' = NoParts /\ pc' = "freed" /\ UNCHANGED <<req, lineLost>>
      /\ kept' = IF PutOpen(failed') THEN Keep(PutName, disk[PutFile]) ELSE kept
      /\ failed' = "no" => failed = "no"
  BY DEF TermWebs, Goto, EndsAfter
<1>2. ASSUME req.consumer = "upload", ~lineLost, NEW f \in DOMAIN req.parts
      PROVE  IF f \in Fields
             THEN PartIs(f, Prefixes(LineEndBehind(req.parts[f]) \o Boundary))'
             ELSE /\ up'.files[f] # 0 => PartIs(f, Extended(req.parts[f]))'
                  /\ failed' = "no" /\ f \in DOMAIN kept' => kept'[f] \in Extended(req.parts[f])
  <2>1. f \in Names
    BY PartNames
  <2>2. CASE f \in Fields
    <3>1. up'.vars[f] = << >>
      BY <1>1, <2>1 DEF NoParts
    <3>2. << >> \in Prefixes(LineEndBehind(req.parts[f]) \o Boundary)
      <4>1. req.parts[f] \in Seq(Bytes)
        BY RxAssumption DEF TypeOK
      <4>2. QED BY <4>1, EmptyPrefix
    <3>3. QED BY <1>1, <2>2, <3>1, <3>2 DEF PartIs
  <2>3. CASE f \notin Fields
    <3>1. up'.files[f] = 0
      BY <1>1, <2>1, <2>3 DEF NoParts, Names
    <3>2. kept' = kept
      BY <1>1, <1>2 DEF PutOpen
    <3>3. failed = "no" /\ f \in DOMAIN kept => kept[f] \in Extended(req.parts[f])
      BY <1>2, <2>3 DEF FormInv, PartsBounded
    <3>4. QED BY <1>1, <2>3, <3>1, <3>2, <3>3
  <2>4. QED BY <2>2, <2>3
<1>3. PartsBounded'
  BY <1>1, <1>2 DEF PartsBounded
<1>4. QED BY <1>1, <1>3 DEF FormInv

LEMMA FormInit ==
  ASSUME TypeOK, Init
  PROVE  FormInv
<1>1. up = NoParts /\ kept = << >> /\ pc = "select"
      /\ disk = IF req.consumer = "put" THEN [i \in {PutFile} |-> << >>] ELSE << >>
  BY DEF Init
<1>2. DOMAIN kept = {}
  BY <1>1
<1>3. ASSUME NEW f \in DOMAIN req.parts
      PROVE  IF f \in Fields
             THEN PartIs(f, Prefixes(LineEndBehind(req.parts[f]) \o Boundary))
             ELSE /\ up.files[f] # 0 => PartIs(f, Extended(req.parts[f]))
                  /\ failed = "no" /\ f \in DOMAIN kept => kept[f] \in Extended(req.parts[f])
  <2>1. f \in Names
    BY PartNames
  <2>2. CASE f \in Fields
    <3>1. up.vars[f] = << >>
      BY <1>1, <2>1 DEF NoParts
    <3>2. << >> \in Prefixes(LineEndBehind(req.parts[f]) \o Boundary)
      <4>1. req.parts[f] \in Seq(Bytes)
        BY RxAssumption DEF TypeOK
      <4>2. QED BY <4>1, EmptyPrefix
    <3>3. QED BY <2>2, <3>1, <3>2 DEF PartIs
  <2>3. CASE f \notin Fields
    <3>1. up.files[f] = 0
      BY <1>1, <2>1, <2>3 DEF NoParts, Names
    <3>2. QED BY <1>2, <2>3, <3>1
  <2>4. QED BY <2>2, <2>3
<1>4. PartsBounded
  BY <1>3 DEF PartsBounded
<1>5. up.state = "start" /\ ~up.isFile /\ \A f \in FileFields : up.files[f] = 0
  BY <1>1 DEF NoParts
<1>6. ASSUME req.consumer = "upload" PROVE DOMAIN disk = 1 .. Cardinality(DOMAIN disk)
  <2>1. disk = << >>
    BY <1>1, <1>6
  <2>2. DOMAIN << >> = {} /\ Cardinality({}) = 0 /\ 1 .. 0 = {}
    BY FS_EmptySet
  <2>3. QED BY <2>1, <2>2
<1>7. req.consumer = "upload" => Reading
  BY <1>5, <1>6 DEF Reading
<1>8. QED BY <1>4, <1>7 DEF FormInv

LEMMA FormUploadInit ==
  ASSUME RxInv, FormInv, UploadInit
  PROVE  FormInv'
<1>1. TypeOK /\ up \in PartsType(FileIds, Bytes)
  BY TypeParts DEF RxInv, FileType
<1>2. /\ up.state = "start" /\ up' = [up EXCEPT !.state = "boundary"]
      /\ UNCHANGED <<req, pc, failed, disk, kept, lineLost>>
  BY DEF UploadInit, Uploading
<1>3. /\ up'.state = "boundary" /\ up'.isFile = up.isFile
      /\ up'.files = up.files /\ up'.vars = up.vars /\ up'.current = up.current
  BY <1>1, <1>2 DEF PartsType
<1>4. PartsBounded'
  BY <1>1, <1>2, <1>3, BoundedKept DEF FormInv
<1>5. Reading => Reading'
  BY <1>2, <1>3 DEF Reading
<1>6. QED BY <1>2, <1>4, <1>5 DEF FormInv

LEMMA BoundaryStep ==
  ASSUME RxInv, UploadBoundary
  PROVE  /\ up.state = "boundary" /\ LineEnd(input) > 0 /\ InUpload
         /\ lineLost' = (lineLost \/ NextLine # LineSent(input))
         /\ cursor' = cursor + LineEnd(input)
         /\ UNCHANGED <<req, disk, kept, got, chunk, reads>>
         /\ up'.isFile = up.isFile /\ up'.files = up.files /\ up'.vars = up.vars
         /\ up'.current = up.current
         /\ IsPrefix(Boundary, NextLine) =>
              /\ up'.state = IF Drop(NextLine, boundaryLen) = <<"--">> THEN "end" ELSE "header"
              /\ failed' = failed /\ pc' = "parsing"
         /\ ~IsPrefix(Boundary, NextLine) => up' = up /\ failed' # "no"
<1>1. TypeOK /\ Cut /\ up \in PartsType(FileIds, Bytes)
  BY TypeParts DEF RxInv, FileType
<1> DEFINE n == LineEnd(input)
           line == NextLine
<1>2. /\ ReadsLine("boundary") /\ ConsumeInput(n)
      /\ UNCHANGED <<req, disk, kept>>
      /\ IF IsPrefix(Boundary, line)
         THEN up' = processContentBoundary(up, line) /\ failed' = failed /\ pc' = "parsing"
         ELSE up' = up /\ Fail("boundary")
  BY DEF UploadBoundary, NoFailure, Goto
<1>3. /\ up.state = "boundary" /\ n > 0 /\ InUpload
      /\ lineLost' = (lineLost \/ line # LineSent(input))
  BY <1>2 DEF ReadsLine, Uploading
<1>4. n \in 0 .. Len(input)
  BY <1>1, <1>2, LineType
<1>5. Len(input') = Len(input) - n /\ UNCHANGED <<got, chunk, reads>>
  BY <1>1, <1>2, <1>4, Consumed
<1>6. Len(input) \in Nat /\ Len(got) \in Nat
  BY <1>1, InputIs
<1>7. cursor' = cursor + n
  BY <1>4, <1>5, <1>6 DEF cursor
<1> HIDE DEF n, line
<1>8. /\ up'.isFile = up.isFile /\ up'.files = up.files /\ up'.vars = up.vars
      /\ up'.current = up.current
  BY <1>1, <1>2 DEF processContentBoundary, PartsType
<1>9. ASSUME IsPrefix(Boundary, line)
      PROVE  /\ up'.state = IF Drop(line, boundaryLen) = <<"--">> THEN "end" ELSE "header"
             /\ failed' = failed /\ pc' = "parsing"
  BY <1>1, <1>2, <1>9 DEF processContentBoundary, PartsType
<1>10. ~IsPrefix(Boundary, line) => up' = up /\ failed' # "no"
  BY <1>2 DEF Fail, Failed
<1>11. QED BY <1>2, <1>3, <1>5, <1>7, <1>8, <1>9, <1>10 DEF n, line

LEMMA BoundaryStarts ==
  IsPrefix(Boundary, Boundary) /\ IsPrefix(Boundary, Append(Boundary, "--"))
<1> DEFINE closing == Append(Boundary, "--")
<1>1. /\ Boundary \in Seq(Symbols) /\ Len(Boundary) = boundaryLen
      /\ closing \in Seq(Symbols) /\ Len(closing) = boundaryLen + 1
      /\ boundaryLen \in Nat
  BY BoundaryLine, BoundaryIs
<1>2. \A i \in 1 .. Len(Boundary) : closing[i] = Boundary[i]
  BY <1>1
<1> HIDE DEF closing
<1>3. Len(Boundary) <= Len(Boundary) /\ Len(Boundary) <= Len(closing)
  BY <1>1
<1>4. IsPrefix(Boundary, Boundary)
  BY <1>1, <1>3, StartIs
<1>5. IsPrefix(Boundary, closing)
  BY <1>1, <1>2, <1>3, StartIs
<1>6. QED BY <1>4, <1>5 DEF closing

\* From the boundary at p to what it begins.
LEMMA BoundaryTo ==
  ASSUME RxInv, UploadBoundary, Form(req), ~up.isFile, NextLine = LineSent(input),
         NEW p \in req.places, p.kind = "boundary", p.at = cursor
  PROVE  /\ failed' = failed /\ pc' = "parsing" /\ up'.state \in {"header", "end"}
         /\ up'.state = "end" => p.left = {}
         /\ up'.state = "header" =>
              \E q \in req.places : /\ Standing(q)' /\ q.at = cursor'
                                    /\ q.field = NoName /\ q.left = p.left
<1>1. /\ LineEnd(input) > 0 /\ cursor' = cursor + LineEnd(input) /\ req' = req
      /\ up'.isFile = up.isFile
      /\ IsPrefix(Boundary, NextLine) =>
           /\ up'.state = IF Drop(NextLine, boundaryLen) = <<"--">> THEN "end" ELSE "header"
           /\ failed' = failed /\ pc' = "parsing"
  BY BoundaryStep
<1>2. TypeOK /\ Cut
  BY DEF RxInv
<1>3. \/ /\ NextLine = Boundary /\ LineEnd(input) = boundaryLen + 2
         /\ Place(cursor + (boundaryLen + 2), "header", NoName, p.left) \in req.places
      \/ NextLine = Append(Boundary, "--") /\ p.left = {}
  BY <1>1, <1>2, BoundaryRead
<1>4. IsPrefix(Boundary, NextLine)
  BY <1>3, BoundaryStarts
<1>5. CASE NextLine = Append(Boundary, "--") /\ p.left = {}
  <2>1. up'.state = "end"
    BY <1>1, <1>4, <1>5, BoundaryLine
  <2>2. QED BY <1>1, <1>4, <1>5, <2>1
<1>6. CASE /\ NextLine = Boundary /\ LineEnd(input) = boundaryLen + 2
           /\ Place(cursor + (boundaryLen + 2), "header", NoName, p.left) \in req.places
  <2>1. << >> # <<"--">>
    OBVIOUS
  <2>2. up'.state = "header"
    BY <1>1, <1>4, <1>6, <2>1, BoundaryLine
  <2>3. PICK q \in req.places : /\ q.kind = "header" /\ q.at = cursor'
                                /\ q.field = NoName /\ q.left = p.left
    BY <1>1, <1>6 DEF Place
  <2>4. Standing(q)'
    BY <1>1, <2>2, <2>3 DEF Standing
  <2>5. QED BY <1>1, <1>4, <2>2, <2>3, <2>4
<1>7. QED BY <1>3, <1>5, <1>6

LEMMA FormBoundary ==
  ASSUME RxInv, FormInv, FormsSent, UploadBoundary
  PROVE  FormInv'
<1>1. /\ up.state = "boundary" /\ LineEnd(input) > 0 /\ InUpload
      /\ lineLost' = (lineLost \/ NextLine # LineSent(input))
      /\ cursor' = cursor + LineEnd(input)
      /\ UNCHANGED <<req, disk, kept, got, chunk, reads>>
      /\ up'.isFile = up.isFile /\ up'.files = up.files /\ up'.vars = up.vars
      /\ up'.current = up.current
      /\ IsPrefix(Boundary, NextLine) =>
           /\ up'.state = IF Drop(NextLine, boundaryLen) = <<"--">> THEN "end" ELSE "header"
           /\ failed' = failed /\ pc' = "parsing"
      /\ ~IsPrefix(Boundary, NextLine) => up' = up /\ failed' # "no"
  BY BoundaryStep
<1>2. TypeOK /\ Cut /\ req.consumer = "upload" /\ pc # "freed"
  BY <1>1, Uploads DEF RxInv, Uploading
<1>3. Form(req)
  BY <1>2, FormIs
<1>4. PartsBounded'
  BY <1>1, <1>2, BoundedKept DEF FormInv
<1>5. ASSUME ~lineLost' PROVE Reading'
  <2>1. Reading /\ NextLine = LineSent(input)
    BY <1>1, <1>2, <1>5 DEF FormInv
  <2>2. ~up.isFile /\ ~up'.isFile
    BY <1>1, <2>1 DEF Reading
  <2>3. CASE ~IsPrefix(Boundary, NextLine)
    BY <1>1, <2>1, <2>2, <2>3 DEF Reading
  <2>4. CASE IsPrefix(Boundary, NextLine)
    <3>1. PICK p \in req.places : p.kind = "boundary" /\ p.at = cursor
      BY <1>1, <1>2, <1>3, <2>1, <2>4, BoundaryPlace
    <3>2. /\ up'.state \in {"header", "end"}
          /\ up'.state = "header" => \E q \in req.places : Standing(q)'
      BY <1>3, <2>1, <2>2, <3>1, BoundaryTo
    <3>3. QED BY <1>1, <2>1, <2>2, <3>2 DEF Reading
  <2>5. QED BY <2>3, <2>4
<1>6. QED BY <1>1, <1>4, <1>5 DEF FormInv

\* A file is opened behind the others.
LEMMA Numbered ==
  ASSUME DOMAIN disk = 1 .. Cardinality(DOMAIN disk), IsFiniteSet(DOMAIN disk), TypeOK
  PROVE  /\ NextId \notin DOMAIN disk /\ NextId # 0 /\ NextId \in FileIds
         /\ DOMAIN With(disk, NextId, << >>) = 1 .. Cardinality(DOMAIN With(disk, NextId, << >>))
         /\ With(disk, NextId, << >>)[NextId] = << >>
         /\ \A i \in DOMAIN disk : With(disk, NextId, << >>)[i] = disk[i]
         /\ DOMAIN With(disk, NextId, << >>) = DOMAIN disk \cup {NextId}
<1> DEFINE D == DOMAIN disk
           c == Cardinality(D)
           e == With(disk, NextId, << >>)
<1>1. c \in Nat /\ NextId = c + 1 /\ D = 1 .. c
  BY FS_CardinalityType DEF NextId
<1> HIDE DEF c
<1>2. NextId \notin D /\ NextId # 0 /\ NextId \in FileIds
  BY <1>1 DEF FileIds
<1>3. DOMAIN e = D \cup {NextId} /\ \A i \in DOMAIN e : e[i] = IF i = NextId THEN << >> ELSE disk[i]
  BY DEF With
<1> HIDE DEF e
<1>4. Cardinality(D \cup {NextId}) = c + 1
  BY <1>2, FS_AddElement DEF c
<1>5. D \cup {NextId} = 1 .. c + 1
  BY <1>1
<1>6. DOMAIN e = 1 .. Cardinality(DOMAIN e)
  BY <1>3, <1>4, <1>5
<1>7. QED BY <1>2, <1>3, <1>6 DEF e

LEMMA HeaderStep ==
  ASSUME RxInv, UploadHeader
  PROVE  LET line == NextLine
             field == IF line = << >> THEN NoName ELSE line[1]
         IN /\ up.state = "header" /\ LineEnd(input) > 0 /\ InUpload
            /\ lineLost' = (lineLost \/ line # LineSent(input))
            /\ cursor' = cursor + LineEnd(input) /\ pc' = "parsing"
            /\ UNCHANGED <<req, failed, kept, got, chunk, reads>>
            /\ up'.files = up.files /\ up'.vars = up.vars
            /\ \/ line = << >> /\ up' = HeaderEnds(up) /\ UNCHANGED disk
               \/ field \in Fields /\ up' = VarHeader(up, field) /\ UNCHANGED disk
               \/ /\ field \in FileFields
                  /\ up' = FileHeader(up, field, NextId)
                  /\ disk' = With(disk, NextId, << >>)
               \/ line # << >> /\ field \notin Names /\ UNCHANGED <<up, disk>>
<1>1. TypeOK /\ Cut /\ up \in PartsType(FileIds, Bytes)
  BY TypeParts DEF RxInv, FileType
<1> DEFINE n == LineEnd(input)
           line == NextLine
           field == IF line = << >> THEN NoName ELSE line[1]
<1>2. /\ ReadsLine("header") /\ ConsumeInput(n)
      /\ \/ line = << >> /\ up' = HeaderEnds(up) /\ UNCHANGED disk
         \/ field \in Fields /\ up' = VarHeader(up, field) /\ UNCHANGED disk
         \/ /\ field \in FileFields
            /\ up' = FileHeader(up, field, NextId)
            /\ disk' = With(disk, NextId, << >>)
         \/ line # << >> /\ field \notin Names /\ UNCHANGED <<up, disk>>
      /\ UNCHANGED <<req, failed, kept>> /\ pc' = "parsing"
  BY DEF UploadHeader, Goto
<1>3. /\ up.state = "header" /\ n > 0 /\ InUpload
      /\ lineLost' = (lineLost \/ line # LineSent(input))
  BY <1>2 DEF ReadsLine, Uploading
<1>4. n \in 0 .. Len(input)
  BY <1>1, <1>2, LineType
<1>5. Len(input') = Len(input) - n /\ UNCHANGED <<got, chunk, reads>>
  BY <1>1, <1>2, <1>4, Consumed
<1>6. Len(input) \in Nat /\ Len(got) \in Nat
  BY <1>1, InputIs
<1>7. cursor' = cursor + n
  BY <1>4, <1>5, <1>6 DEF cursor
<1> HIDE DEF n, line, field
<1>8. up'.vars = up.vars /\ up'.files = up.files
  BY <1>1, <1>2 DEF HeaderEnds, VarHeader, FileHeader, PartsType
<1>9. QED BY <1>2, <1>3, <1>5, <1>7, <1>8 DEF n, line, field

\* From a line of a header to what is behind it.
LEMMA HeaderTo ==
  ASSUME RxInv, UploadHeader, Form(req), Reading, NextLine = LineSent(input),
         NEW p \in req.places, Standing(p)
  PROVE  \E q \in req.places :
           /\ Standing(q)' /\ q.at = cursor' /\ p.left \subseteq q.left \cup {q.field}
           /\ p.field # NoName => q.field = p.field
<1> DEFINE line == NextLine
           field == IF line = << >> THEN NoName ELSE line[1]
           n == LineEnd(input)
<1>1. /\ TypeOK /\ Cut /\ up \in PartsType(FileIds, Bytes)
      /\ IsFiniteSet(DOMAIN disk)
  BY TypeParts DEF RxInv, FileType, UpInv
<1>2. /\ \/ line = << >> /\ up' = HeaderEnds(up) /\ UNCHANGED disk
         \/ field \in Fields /\ up' = VarHeader(up, field) /\ UNCHANGED disk
         \/ /\ field \in FileFields
            /\ up' = FileHeader(up, field, NextId)
            /\ disk' = With(disk, NextId, << >>)
         \/ line # << >> /\ field \notin Names /\ UNCHANGED <<up, disk>>
      /\ UNCHANGED <<req, failed>> /\ up.state = "header" /\ n > 0 /\ cursor' = cursor + n
  BY HeaderStep
<1>a. n = LineEnd(input) /\ (line = << >> => field = NoName) /\ (line # << >> => field = line[1])
  OBVIOUS
<1> HIDE DEF n, line, field
<1>3. NoName \notin Names /\ Names = Fields \cup FileFields /\ Fields \cap FileFields = {}
  BY UploadAssumption DEF NoName, Names
<1>4. /\ p.kind = "header" /\ p.at = cursor
      /\ p.field # NoName => Named(p.field)
      /\ p.field = NoName => ~up.isFile
      /\ up.isFile => disk[up.current] = << >>
  BY <1>2 DEF Standing
<1>5. \/ /\ line = << >> /\ n = 2 /\ p.field # NoName
         /\ Place(cursor + 2, "data", p.field, p.left) \in req.places
      \/ \E f \in p.left :
           /\ line = <<f>> /\ n = 3 /\ p.field = NoName
           /\ Place(cursor + 3, "header", f, p.left \ {f}) \in req.places
      \/ /\ line # << >> /\ line[1] \notin Names
         /\ Place(cursor + n, "header", p.field, p.left) \in req.places
  BY <1>1, <1>2, <1>4, <1>a, HeaderRead DEF line
<1>6. CASE /\ line = << >> /\ n = 2 /\ p.field # NoName
           /\ Place(cursor + 2, "data", p.field, p.left) \in req.places
  <2>1. up' = HeaderEnds(up) /\ disk' = disk
    BY <1>2, <1>3, <1>a, <1>6
  <2>2. /\ up'.state = "data" /\ up'.var = up.var /\ up'.isFile = up.isFile
        /\ up'.current = up.current
    BY <1>1, <2>1 DEF HeaderEnds, PartsType
  <2>3. PICK q \in req.places : /\ q.kind = "data" /\ q.at = cursor'
                                /\ q.field = p.field /\ q.left = p.left
    BY <1>2, <1>6 DEF Place
  <2>4. Named(q.field)'
    BY <1>4, <1>6, <2>2, <2>3 DEF Named
  <2>5. q.at \in Nat /\ PartEnd(q) \in Nat /\ q.at + 2 <= PartEnd(q)
    BY <1>1, <2>3, ContentIs
  <2>6. q.at \in q.at .. PartEnd(q) /\ q.at - q.at = 0
    BY <2>5
  <2>7. PartEnd(q)' = PartEnd(q)
    BY <1>2 DEF PartEnd
  <2>8. ASSUME up'.isFile PROVE Copied(disk[up.current], q.at, 0)'
    <3>1. disk'[up'.current] = << >>
      BY <1>4, <2>1, <2>2, <2>8
    <3>2. QED BY <3>1 DEF Copied
  <2>9. Standing(q)'
    BY <1>2, <2>2, <2>3, <2>4, <2>6, <2>7, <2>8 DEF Standing
  <2>10. QED BY <2>3, <2>9
<1>7. CASE /\ line # << >> /\ line[1] \notin Names
           /\ Place(cursor + n, "header", p.field, p.left) \in req.places
  <2>1. UNCHANGED <<up, disk>>
    BY <1>2, <1>3, <1>a, <1>7
  <2>2. PICK q \in req.places : /\ q.kind = "header" /\ q.at = cursor'
                                /\ q.field = p.field /\ q.left = p.left
    BY <1>2, <1>7 DEF Place
  <2>3. Standing(q)'
    BY <1>2, <1>4, <2>1, <2>2 DEF Standing, Named
  <2>4. QED BY <2>2, <2>3
<1>8. ASSUME NEW f \in p.left, line = <<f>>, n = 3, p.field = NoName,
             Place(cursor + 3, "header", f, p.left \ {f}) \in req.places
      PROVE  \E q \in req.places :
               /\ Standing(q)' /\ q.at = cursor' /\ p.left \subseteq q.left \cup {q.field}
               /\ p.field # NoName => q.field = p.field
  <2>1. f \in Names
    BY <1>1, PlaceIs, PartNames
  <2>2. line # << >> /\ field = f
    BY <1>8, <1>a
  <2>3. PICK q \in req.places : /\ q.kind = "header" /\ q.at = cursor'
                                /\ q.field = f /\ q.left = p.left \ {f}
    BY <1>2, <1>8 DEF Place
  <2>4. CASE f \in Fields
    <3>1. up' = VarHeader(up, f) /\ disk' = disk
      BY <1>2, <1>3, <2>1, <2>2, <2>4
    <3>2. up'.state = "header" /\ up'.var = f /\ up'.isFile = FALSE /\ up'.current = up.current
      BY <1>1, <1>2, <3>1 DEF VarHeader, PartsType
    <3>3. Named(f)'
      <4>1. f # NoName /\ (f \in FileFields) = FALSE
        BY <1>3, <2>1, <2>4
      <4>2. QED BY <3>2, <4>1 DEF Named
    <3>4. f # NoName
      BY <1>3, <2>1
    <3>5. Standing(q)'
      BY <1>2, <2>3, <3>2, <3>3, <3>4 DEF Standing
    <3>6. QED BY <1>8, <2>3, <3>5
  <2>5. CASE f \in FileFields
    <3>1. up' = FileHeader(up, f, NextId) /\ disk' = With(disk, NextId, << >>)
      BY <1>2, <1>3, <2>1, <2>2, <2>5
    <3>2. up'.state = "header" /\ up'.var = f /\ up'.isFile = TRUE /\ up'.current = NextId
      BY <1>1, <1>2, <3>1 DEF FileHeader, PartsType
    <3>3. Named(f)'
      <4>1. f # NoName /\ (f \in FileFields) = TRUE
        BY <1>3, <2>1, <2>5
      <4>2. QED BY <3>2, <4>1 DEF Named
    <3>4. f # NoName /\ disk'[up'.current] = << >>
      <4>1. With(disk, NextId, << >>)[NextId] = << >>
        BY <1>1, Numbered DEF Reading
      <4>2. QED BY <1>3, <2>1, <3>1, <3>2, <4>1
    <3>5. Standing(q)'
      BY <1>2, <2>3, <3>2, <3>3, <3>4 DEF Standing
    <3>6. QED BY <1>8, <2>3, <3>5
  <2>6. QED BY <1>3, <2>1, <2>4, <2>5
<1>9. QED BY <1>5, <1>6, <1>7, <1>8

\* The files that a header leaves alone.
LEMMA HeaderFiles ==
  ASSUME RxInv, UploadHeader, Reading
  PROVE  /\ DOMAIN disk' = 1 .. Cardinality(DOMAIN disk')
         /\ \A f \in FileFields : up.files[f] # 0 =>
              /\ up.files[f] \in DOMAIN disk' /\ disk'[up.files[f]] = disk[up.files[f]]
              /\ up'.isFile => up.files[f] # up'.current
<1>1. /\ TypeOK /\ up \in PartsType(FileIds, Bytes) /\ IsFiniteSet(DOMAIN disk)
  BY TypeParts DEF RxInv, FileType, UpInv
<1>2. /\ NextId \notin DOMAIN disk /\ NextId # 0
      /\ DOMAIN With(disk, NextId, << >>) = 1 .. Cardinality(DOMAIN With(disk, NextId, << >>))
      /\ \A i \in DOMAIN disk : With(disk, NextId, << >>)[i] = disk[i]
      /\ DOMAIN With(disk, NextId, << >>) = DOMAIN disk \cup {NextId}
  BY <1>1, Numbered DEF Reading
<1>3. \/ disk' = disk /\ (up'.isFile => up.isFile /\ up'.current = up.current)
      \/ disk' = With(disk, NextId, << >>) /\ up'.current = NextId
  <2> DEFINE field == IF NextLine = << >> THEN NoName ELSE NextLine[1]
  <2>1. \/ disk' = disk /\ (up' = HeaderEnds(up) \/ up' = VarHeader(up, field) \/ up' = up)
        \/ disk' = With(disk, NextId, << >>) /\ up' = FileHeader(up, field, NextId)
    BY HeaderStep
  <2> HIDE DEF field
  <2>2. CASE disk' = disk /\ (up' = HeaderEnds(up) \/ up' = VarHeader(up, field) \/ up' = up)
    BY <1>1, <2>2 DEF HeaderEnds, VarHeader, PartsType
  <2>3. CASE disk' = With(disk, NextId, << >>) /\ up' = FileHeader(up, field, NextId)
    BY <1>1, <2>3 DEF FileHeader, PartsType
  <2>4. QED BY <2>1, <2>2, <2>3
<1>4. DOMAIN disk = 1 .. Cardinality(DOMAIN disk)
  BY DEF Reading
<1>5. DOMAIN disk' = 1 .. Cardinality(DOMAIN disk')
  BY <1>2, <1>3, <1>4
<1>6. ASSUME NEW f \in FileFields, up.files[f] # 0
      PROVE  /\ up.files[f] \in DOMAIN disk' /\ disk'[up.files[f]] = disk[up.files[f]]
             /\ up'.isFile => up.files[f] # up'.current
  <2>1. up.files[f] \in DOMAIN disk /\ (up.isFile => up.files[f] # up.current)
    BY <1>6 DEF Reading
  <2>2. QED BY <1>2, <1>3, <2>1
<1>7. QED BY <1>5, <1>6

LEMMA FormHeader ==
  ASSUME RxInv, FormInv, FormsSent, UploadHeader
  PROVE  FormInv'
<1>1. /\ up.state = "header" /\ InUpload
      /\ lineLost' = (lineLost \/ NextLine # LineSent(input)) /\ pc' = "parsing"
      /\ UNCHANGED <<req, failed, kept>>
      /\ up'.files = up.files /\ up'.vars = up.vars
  BY HeaderStep
<1>2. TypeOK /\ req.consumer = "upload" /\ pc # "freed"
  BY <1>1, Uploads DEF RxInv, Uploading
<1>3. Form(req)
  BY <1>2, FormIs
<1>4. ~lineLost' => Reading /\ NextLine = LineSent(input)
  BY <1>1, <1>2 DEF FormInv
<1>5. ~lineLost' =>
        /\ DOMAIN disk' = 1 .. Cardinality(DOMAIN disk')
        /\ \A f \in FileFields : up.files[f] # 0 =>
             /\ up.files[f] \in DOMAIN disk' /\ disk'[up.files[f]] = disk[up.files[f]]
             /\ up'.isFile => up.files[f] # up'.current
  BY <1>4, HeaderFiles
<1>6. PartsBounded'
  BY <1>1, <1>2, <1>5, BoundedKept DEF FormInv
<1>7. ASSUME ~lineLost' PROVE Reading'
  <2>1. PICK p \in req.places : Standing(p)
    BY <1>1, <1>4, <1>7 DEF Reading
  <2>2. PICK q \in req.places : Standing(q)'
    BY <1>3, <1>4, <1>7, <2>1, HeaderTo
  <2>3. up'.state \in {"header", "data"}
    <3> DEFINE field == IF NextLine = << >> THEN NoName ELSE NextLine[1]
    <3>1. \/ up' = HeaderEnds(up) \/ up' = VarHeader(up, field) \/ up' = up
          \/ up' = FileHeader(up, field, NextId)
      BY HeaderStep
    <3> HIDE DEF field
    <3>2. up \in PartsType(FileIds, Bytes)
      BY <1>2 DEF TypeOK
    <3>3. QED BY <1>1, <3>1, <3>2 DEF HeaderEnds, VarHeader, FileHeader, PartsType
  <2>4. QED BY <1>1, <1>5, <1>7, <2>2, <2>3 DEF Reading
<1>8. QED BY <1>6, <1>7 DEF FormInv

\* What is in an upload that receives a part.
LEMMA InData ==
  ASSUME RxInv, FormsSent, Uploading("data"), Reading
  PROVE  /\ TypeOK /\ Cut /\ Form(req) /\ req.consumer = "upload" /\ pc # "freed"
         /\ \E p \in req.places :
              /\ p.kind = "data" /\ Named(p.field) /\ cursor \in p.at .. PartEnd(p)
              /\ IF up.isFile
                 THEN \/ Copied(disk[up.current], p.at, cursor - p.at)
                      \/ failed # "no" /\ cursor = PartEnd(p)
                 ELSE cursor = p.at
<1>1. TypeOK /\ Cut /\ req.consumer = "upload" /\ pc # "freed" /\ up.state = "data"
  BY Uploads DEF RxInv, Uploading
<1>2. Form(req)
  BY <1>1, FormIs
<1>3. PICK p \in req.places : Standing(p)
  BY <1>1 DEF Reading
<1>4. QED BY <1>1, <1>2, <1>3 DEF Standing

LEMMA FormData ==
  ASSUME RxInv, FormInv, FormsSent, UploadData
  PROVE  FormInv'
<1> DEFINE n == Held(input)
           data == Take(input, n)
<1>1. /\ Uploading("data") /\ Len(input) >= boundaryLen /\ ~PartEnds(up, input)
      /\ disk' = [disk EXCEPT ![up.upfd] = @ \o data] /\ ConsumeInput(Len(data))
      /\ UNCHANGED <<req, failed, up, kept, lineLost>>
  BY DEF UploadData, WriteToFile
<1>2. TypeOK /\ Cut /\ req.consumer = "upload" /\ pc # "freed"
  BY <1>1, Uploads DEF RxInv
<1>3. ~(getBoundary(input) > 0) /\ up.isFile
  BY <1>1 DEF PartEnds
<1>4. up.upfd = up.current /\ up.current \in DOMAIN disk
  BY <1>3 DEF RxInv, UpInv
<1>5. /\ input \in Seq(Bytes) /\ Len(input) \in Nat /\ Len(got) \in Nat /\ cursor \in Nat
      /\ cursor + Len(input) = Len(got)
  BY <1>2, InputIs
<1>6. n \in 0 .. Len(input) /\ n = Len(input) - (boundaryLen - 1) /\ n \in Nat
  BY <1>1, <1>5, HeldIs DEF Held
<1> HIDE DEF n
<1>7. data \in Seq(Bytes) /\ Len(data) = n /\ Copied(data, cursor, n)
  BY <1>2, <1>5, <1>6, Taken, TakeIs
<1> HIDE DEF data
<1>8. Len(input') = Len(input) - n /\ got' = got
  BY <1>1, <1>2, <1>6, <1>7, Consumed
<1>9. cursor' = cursor + n
  BY <1>5, <1>6, <1>8 DEF cursor
<1>10. /\ DOMAIN disk' = DOMAIN disk /\ disk'[up.current] = disk[up.current] \o data
       /\ \A i \in DOMAIN disk : i # up.current => disk'[i] = disk[i]
  BY <1>1, <1>4
<1>11. PartsBounded'
  <2>1. ASSUME ~lineLost', NEW f \in FileFields, up.files[f] # 0
        PROVE  disk'[up.files[f]] = disk[up.files[f]]
    <3>1. up.files[f] \in DOMAIN disk /\ up.files[f] # up.current
      BY <1>1, <1>2, <1>3, <2>1 DEF FormInv, Reading
    <3>2. QED BY <1>10, <3>1
  <2>2. QED BY <1>1, <1>2, <2>1, BoundedKept DEF FormInv
<1>12. ASSUME ~lineLost PROVE Reading'
  <2>1. Reading
    BY <1>2, <1>12 DEF FormInv
  <2>2. Form(req)
    BY <1>2, FormIs
  <2>3. PICK p \in req.places :
              /\ p.kind = "data" /\ Named(p.field) /\ cursor \in p.at .. PartEnd(p)
              /\ IF up.isFile
                 THEN \/ Copied(disk[up.current], p.at, cursor - p.at)
                      \/ failed # "no" /\ cursor = PartEnd(p)
                 ELSE cursor = p.at
    BY <1>1, <2>1, InData
  <2>4. p.at \in Nat /\ PartEnd(p) \in Nat /\ boundaryLen \in Nat /\ boundaryLen > 0
    BY <1>2, <2>2, <2>3, ContentIs, BoundaryIs
  <2>5. ~(PartEnd(p) + boundaryLen <= Len(got))
    BY <1>2, <1>3, <2>2, <2>3, InSight
  <2>6. cursor >= p.at /\ cursor <= PartEnd(p)
    BY <2>3, <2>4
  <2> DEFINE B == PartEnd(p)
  <2> HIDE DEF B
  <2>7. cursor # B
    BY <1>1, <1>5, <2>4, <2>5 DEF B
  <2>8. cursor + n <= B /\ cursor + n >= p.at /\ cursor - p.at \in Nat
        /\ p.at + (cursor - p.at) = cursor /\ (cursor - p.at) + n = (cursor + n) - p.at
    BY <1>5, <1>6, <2>4, <2>5, <2>6 DEF B
  <2>9. Copied(disk[up.current], p.at, cursor - p.at)
    BY <1>3, <2>3, <2>7 DEF B
  <2>10. disk[up.current] \in Seq(Bytes)
    BY <1>2, <1>4 DEF TypeOK
  <2>11. Copied(disk[up.current] \o data, p.at, (cursor - p.at) + n)
    <3>1. Copied(data, p.at + (cursor - p.at), n)
      BY <1>7, <2>8
    <3> DEFINE k == cursor - p.at
    <3>2. k \in Nat /\ p.at \in Nat
      BY <2>4, <2>8
    <3> HIDE DEF k
    <3>3. QED BY <1>6, <1>7, <2>9, <2>10, <3>1, <3>2, CopiedMore DEF k
  <2>12. Copied(disk[up.current], p.at, cursor - p.at)'
    BY <1>1, <1>9, <1>10, <2>8, <2>11 DEF Copied
  <2>13. PartEnd(p)' = PartEnd(p)
    BY <1>1 DEF PartEnd
  <2>14. cursor' \in p.at .. PartEnd(p)
    BY <1>5, <1>6, <1>9, <2>4, <2>8 DEF B
  <2>15. up.state = "data"
    BY <1>1 DEF Uploading
  <2>16. Named(p.field)'
    BY <1>1, <2>3 DEF Named
  <2>17. Standing(p)'
    BY <1>1, <1>3, <2>3, <2>12, <2>13, <2>14, <2>15, <2>16 DEF Standing
  <2>18. QED BY <1>1, <1>10, <2>1, <2>15, <2>17 DEF Reading
<1>13. QED BY <1>1, <1>11, <1>12 DEF FormInv

\* The bytes that a part which ends has in the input.
LEMMA PartInSight ==
  ASSUME TypeOK, Cut, Form(req), NEW p \in req.places, p.kind = "data",
         cursor \in p.at .. PartEnd(p), getBoundary(input) > 0
  PROVE  /\ PartLen(input) = PartEnd(p) - cursor /\ PartEnd(p) <= Len(got)
         /\ cursor + PartLen(input) = PartEnd(p)
<1>1. /\ PartEnd(p) + boundaryLen <= Len(got)
      /\ getBoundary(input) = PartEnd(p) - cursor + 1
  BY InSight
<1>2. PartEnd(p) \in Nat /\ boundaryLen \in Nat /\ Len(got) \in Nat /\ cursor \in Nat
  BY ContentIs, BoundaryIs, InputIs
<1>3. PartLen(input) = getBoundary(input) - 1
  BY DEF PartLen
<1>4. QED BY <1>1, <1>2, <1>3

LEMMA FormFails ==
  ASSUME RxInv, FormInv, FormsSent, UploadFails
  PROVE  FormInv'
<1> DEFINE last == PartEnds(up, input)
           n == IF last THEN PartLen(input) ELSE 0
<1>1. /\ Uploading("data") /\ up.isFile /\ ConsumeInput(n)
      /\ failed' # "no" /\ UNCHANGED <<req, up, disk, kept, lineLost>>
  BY DEF UploadFails, Fail, Failed, files
<1>2. TypeOK /\ Cut /\ req.consumer = "upload" /\ pc # "freed" /\ up.state = "data"
  BY <1>1, Uploads DEF RxInv, Uploading
<1>3. /\ input \in Seq(Bytes) /\ Len(input) \in Nat /\ Len(got) \in Nat /\ cursor \in Nat
      /\ cursor + Len(input) = Len(got)
  BY <1>2, InputIs
<1>4. n \in 0 .. Len(input)
  BY <1>3, PartLenIs
<1>5. (last <=> getBoundary(input) > 0) /\ (last => n = PartLen(input)) /\ (~last => n = 0)
  BY <1>1 DEF PartEnds
<1> HIDE DEF n, last
<1>6. Len(input') = Len(input) - n /\ got' = got
  BY <1>1, <1>2, <1>4, Consumed
<1>7. cursor' = cursor + n
  BY <1>3, <1>4, <1>6 DEF cursor
<1>8. PartsBounded'
  BY <1>1, <1>2, BoundedKept DEF FormInv
<1>9. ASSUME ~lineLost PROVE Reading'
  <2>1. Reading
    BY <1>2, <1>9 DEF FormInv
  <2>2. Form(req)
    BY <1>2, FormIs
  <2>3. PICK p \in req.places :
              /\ p.kind = "data" /\ Named(p.field) /\ cursor \in p.at .. PartEnd(p)
              /\ IF up.isFile
                 THEN \/ Copied(disk[up.current], p.at, cursor - p.at)
                      \/ failed # "no" /\ cursor = PartEnd(p)
                 ELSE cursor = p.at
    BY <1>1, <2>1, InData
  <2>4. PartEnd(p)' = PartEnd(p)
    BY <1>1 DEF PartEnd
  <2>5. Named(p.field)'
    BY <1>1, <2>3 DEF Named
  <2>6. CASE last
    <3>1. cursor' = PartEnd(p)
      BY <1>2, <1>5, <1>7, <2>2, <2>3, <2>6, PartInSight
    <3>2. p.at \in Nat /\ PartEnd(p) \in Nat /\ p.at <= PartEnd(p)
      BY <1>2, <2>2, <2>3, ContentIs
    <3>3. PartEnd(p) \in p.at .. PartEnd(p)
      BY <3>2
    <3>4. Standing(p)'
      BY <1>1, <1>2, <2>3, <2>4, <2>5, <3>1, <3>3 DEF Standing
    <3>5. QED BY <1>1, <2>1, <3>4, <1>2 DEF Reading
  <2>7. CASE ~last
    <3>1. cursor' = cursor
      BY <1>3, <1>5, <1>7, <2>7
    <3>2. Copied(disk[up.current], p.at, cursor - p.at) => Copied(disk[up.current], p.at, cursor - p.at)'
      BY <1>1, <3>1 DEF Copied
    <3>3. Standing(p)'
      BY <1>1, <1>2, <2>3, <2>4, <2>5, <3>1, <3>2 DEF Standing
    <3>4. QED BY <1>1, <2>1, <3>3, <1>2 DEF Reading
  <2>8. QED BY <2>6, <2>7
<1>10. QED BY <1>1, <1>8, <1>9 DEF FormInv

\* What a part that ends leaves: the file it was written to, or the variable.
LEMMA PartDone ==
  ASSUME RxInv, UploadPart
  PROVE  LET n == PartLen(input)
             text == WithoutCRLF(Take(input, n))
             value == IF Cleared(Take(input, n)) THEN << >> ELSE text
         IN /\ n \in 0 .. Len(input) /\ Take(input, n) \in Seq(Bytes)
            /\ Take(input, n) = << >> <=> n = 0
            /\ cursor' = cursor + n /\ got' = got
            /\ up'.state = "boundary" /\ up'.isFile = FALSE /\ up'.current = up.current
            /\ up.isFile => /\ up.current \in DOMAIN disk /\ up.var \in FileFields
                            /\ getBoundary(input) > 0
                            /\ DOMAIN disk' = DOMAIN disk
                            /\ disk'[up.current] = disk[up.current] \o text
                            /\ \A i \in DOMAIN disk : i # up.current => disk'[i] = disk[i]
                            /\ kept' = Keep(up.var, disk'[up.current])
                            /\ up'.vars = up.vars
                            /\ n = 0 => up'.files = up.files
                            /\ n # 0 => up'.files = [up.files EXCEPT ![up.var] = up.current]
            /\ ~up.isFile => /\ UNCHANGED <<disk, kept>> /\ up'.files = up.files
                             /\ n = 0 => up'.vars = up.vars
                             /\ n # 0 => up'.vars = [up.vars EXCEPT ![up.var] = value]
            /\ UNCHANGED <<req, failed, lineLost>>
<1> DEFINE n == PartLen(input)
           data == Take(input, n)
           text == WithoutCRLF(data)
           value == IF Cleared(data) THEN << >> ELSE text
<1>1. /\ TypeOK /\ Cut /\ up \in PartsType(FileIds, Bytes)
      /\ up.isFile => up.upfd = up.current /\ up.current \in DOMAIN disk /\ up.var \in FileFields
  BY TypeParts DEF RxInv, UpInv, FileType
<1>2. /\ Uploading("data") /\ PartEnds(up, input)
      /\ IF up.isFile THEN WriteToFile(text) ELSE UNCHANGED disk
      /\ up' = Closed(Entered(up, data, Cleared(data))) /\ ConsumeInput(Len(data))
      /\ kept' = IF up.isFile THEN Keep(up.var, disk'[up.current]) ELSE kept
      /\ UNCHANGED <<req, failed, lineLost>>
  BY DEF UploadPart
<1>3. /\ input \in Seq(Bytes) /\ Len(input) \in Nat /\ Len(got) \in Nat /\ cursor \in Nat
  BY <1>1, InputIs
<1>4. n \in 0 .. Len(input)
  BY <1>3, PartLenIs
<1> HIDE DEF n
<1>5. data \in Seq(Bytes) /\ Len(data) = n
  BY <1>3, <1>4, TakeIs
<1> HIDE DEF data
<1>6. data = << >> <=> n = 0
  BY <1>5
<1>7. Len(input') = Len(input) - n /\ got' = got
  BY <1>1, <1>2, <1>4, <1>5, Consumed
<1>8. cursor' = cursor + n
  BY <1>3, <1>4, <1>7 DEF cursor
<1>9. text \in Seq(Bytes)
  BY <1>5, WithoutIs
<1> HIDE DEF text, value
<1> DEFINE v == Entered(up, data, Cleared(data))
<1>10. v \in PartsType(FileIds, Bytes)
  BY <1>1, <1>5, EnteredIs DEF Cleared, At
<1>11. /\ v.current = up.current /\ v.isFile = up.isFile
       /\ up.isFile => /\ v.vars = up.vars
                       /\ n = 0 => v.files = up.files
                       /\ n # 0 => v.files = [up.files EXCEPT ![up.var] = up.current]
       /\ ~up.isFile => /\ v.files = up.files
                        /\ n = 0 => v.vars = up.vars
                        /\ n # 0 => v.vars = [up.vars EXCEPT ![up.var] = value]
  BY <1>1, <1>6 DEF Entered, PartsType, text, value
<1> HIDE DEF v
<1>12. up'.state = "boundary" /\ up'.isFile = FALSE /\ up'.current = up.current
       /\ up'.vars = v.vars /\ up'.files = v.files
  <2>1. up' = Closed(v)
    BY <1>2 DEF v
  <2>2. QED BY <1>10, <1>11, <2>1 DEF Closed, PartsType
<1>13. ASSUME up.isFile
       PROVE  /\ getBoundary(input) > 0
              /\ DOMAIN disk' = DOMAIN disk
              /\ disk'[up.current] = disk[up.current] \o text
              /\ \A i \in DOMAIN disk : i # up.current => disk'[i] = disk[i]
  <2>1. disk' = [disk EXCEPT ![up.current] = @ \o text]
    BY <1>1, <1>2, <1>13 DEF WriteToFile
  <2>2. QED BY <1>1, <1>2, <1>13, <2>1 DEF PartEnds
<1>14. QED BY <1>1, <1>2, <1>4, <1>5, <1>6, <1>7, <1>8, <1>11, <1>12, <1>13
           DEF n, data, text, value

LEMMA FormPart ==
  ASSUME RxInv, FormInv, FormsSent, UploadPart
  PROVE  FormInv'
<1> DEFINE n == PartLen(input)
           text == WithoutCRLF(Take(input, n))
           value == IF Cleared(Take(input, n)) THEN << >> ELSE text
           v == up.var
<1>1. /\ n \in 0 .. Len(input)
      /\ up'.state = "boundary" /\ up'.isFile = FALSE /\ up'.current = up.current
      /\ up.isFile => /\ up.current \in DOMAIN disk /\ v \in FileFields
                      /\ getBoundary(input) > 0
                      /\ DOMAIN disk' = DOMAIN disk
                      /\ disk'[up.current] = disk[up.current] \o text
                      /\ \A i \in DOMAIN disk : i # up.current => disk'[i] = disk[i]
                      /\ kept' = Keep(v, disk'[up.current])
                      /\ up'.vars = up.vars
                      /\ n = 0 => up'.files = up.files
                      /\ n # 0 => up'.files = [up.files EXCEPT ![v] = up.current]
      /\ ~up.isFile => /\ UNCHANGED <<disk, kept>> /\ up'.files = up.files
                       /\ n = 0 => up'.vars = up.vars
                       /\ n # 0 => up'.vars = [up.vars EXCEPT ![v] = value]
      /\ UNCHANGED <<req, failed, lineLost>>
  BY PartDone
<1>2. Uploading("data") /\ TypeOK /\ Cut /\ req.consumer = "upload" /\ pc # "freed"
      /\ PartEnds(up, input)
  BY Uploads DEF UploadPart, RxInv
<1>3. SUFFICES ASSUME ~lineLost PROVE PartsBounded' /\ Reading'
  BY <1>1 DEF FormInv, PartsBounded
<1>4. Reading /\ PartsBounded /\ Form(req)
  BY <1>2, <1>3, FormIs DEF FormInv
<1>5. PICK p \in req.places :
              /\ p.kind = "data" /\ Named(p.field) /\ cursor \in p.at .. PartEnd(p)
              /\ IF up.isFile
                 THEN \/ Copied(disk[up.current], p.at, cursor - p.at)
                      \/ failed # "no" /\ cursor = PartEnd(p)
                 ELSE cursor = p.at
  BY <1>2, <1>4, InData
<1>6. p.field = v /\ v # NoName /\ v \in Names
      /\ (up.isFile <=> v \in FileFields)
  <2>1. p.field = v /\ v # NoName /\ (up.isFile <=> v \in FileFields)
    BY <1>5 DEF Named
  <2>2. up.var \in Names \cup {NoName}
    BY <1>2, PartsIs DEF TypeOK
  <2>3. QED BY <2>1, <2>2
<1>7. /\ Names = Fields \cup FileFields /\ Fields \cap FileFields = {}
      /\ up.vars \in [Names -> Seq(Bytes)] /\ up.files \in [FileFields -> FileIds \cup {0}]
  BY <1>2, UploadAssumption, PartsIs DEF Names, TypeOK
<1>8. n \in Nat /\ Len(input) \in Nat /\ Len(got) \in Nat /\ cursor \in Nat
      /\ cursor + Len(input) = Len(got)
  BY <1>1, <1>2, InputIs
<1>9. /\ p.at \in Nat /\ PartEnd(p) \in Nat /\ p.at + 2 <= PartEnd(p)
      /\ boundaryLen \in Nat /\ boundaryLen > 0
  BY <1>2, <1>4, <1>5, ContentIs, BoundaryIs
<1>10. getBoundary(input) > 0 =>
         n = PartEnd(p) - cursor /\ PartEnd(p) <= Len(got) /\ cursor + n = PartEnd(p)
  BY <1>2, <1>4, <1>5, PartInSight
<1>a. n = PartLen(input) /\ text = WithoutCRLF(Take(input, n))
  OBVIOUS
<1>b. value = text \/ value = << >>
  OBVIOUS
<1> HIDE DEF n, text, value, v
<1>11. ASSUME NEW f \in FileFields, up.files[f] # 0
       PROVE  up.files[f] \in DOMAIN disk /\ (up.isFile => up.files[f] # up.current)
  BY <1>4, <1>11 DEF Reading
<1>12. Reading'
  <2>1. DOMAIN disk' = DOMAIN disk
    BY <1>1
  <2>2. ASSUME NEW f \in FileFields, up'.files[f] # 0 PROVE up'.files[f] \in DOMAIN disk
    <3>1. CASE up'.files[f] = up.files[f]
      BY <1>11, <2>2, <3>1
    <3>2. CASE up'.files[f] # up.files[f]
      <4>1. up.isFile /\ n # 0
        BY <1>1, <3>2
      <4>2. up'.files[f] = up.current
        BY <1>1, <1>7, <3>2, <4>1
      <4>3. QED BY <1>1, <4>1, <4>2
    <3>3. QED BY <3>1, <3>2
  <2>3. QED BY <1>1, <1>4, <2>1, <2>2 DEF Reading
<1>13. CASE up.isFile
  <2> DEFINE file == disk[up.current] \o text
  <2>1. \/ file \in Extended(req.parts[v])
        \/ failed # "no" /\ n = 0
    <3>1. CASE Copied(disk[up.current], p.at, cursor - p.at)
      <4>1. disk[up.current] \in Seq(Bytes)
        BY <1>1, <1>2, <1>13 DEF TypeOK
      <4>2. /\ n = PartEnd(p) - cursor /\ PartEnd(p) <= Len(got)
        BY <1>1, <1>10, <1>13
      <4>3. disk[up.current] \o WithoutCRLF(Take(input, PartEnd(p) - cursor)) \in Extended(req.parts[p.field])
        BY <1>2, <1>4, <1>5, <3>1, <4>1, <4>2, FileEnds
      <4>4. QED BY <1>6, <1>a, <4>2, <4>3
    <3>2. CASE failed # "no" /\ cursor = PartEnd(p)
      <4>1. n = 0
        BY <1>1, <1>9, <1>10, <1>13, <3>2
      <4>2. QED BY <3>2, <4>1
    <3>3. QED BY <1>5, <1>13, <3>1, <3>2
  <2> HIDE DEF file
  <2>2. disk'[up.current] = file
    BY <1>1, <1>13 DEF file
  <2>3. v \in FileFields /\ v \notin Fields
    BY <1>6, <1>7, <1>13
  <2>4. ASSUME NEW f \in DOMAIN req.parts
        PROVE  IF f \in Fields
               THEN PartIs(f, Prefixes(LineEndBehind(req.parts[f]) \o Boundary))'
               ELSE /\ up'.files[f] # 0 => PartIs(f, Extended(req.parts[f]))'
                    /\ failed' = "no" /\ f \in DOMAIN kept' =>
                         kept'[f] \in Extended(req.parts[f])
    <3>1. IF f \in Fields
          THEN PartIs(f, Prefixes(LineEndBehind(req.parts[f]) \o Boundary))
          ELSE /\ up.files[f] # 0 => PartIs(f, Extended(req.parts[f]))
               /\ failed = "no" /\ f \in DOMAIN kept => kept[f] \in Extended(req.parts[f])
      BY <1>2, <1>3, <1>4 DEF PartsBounded
    <3>2. CASE f \in Fields
      BY <1>1, <1>13, <3>1, <3>2 DEF PartIs
    <3>3. CASE f \notin Fields
      <4>1. f \in FileFields
        BY <1>2, <1>7, <3>3, PartNames
      <4>2. ASSUME up'.files[f] # 0 PROVE PartIs(f, Extended(req.parts[f]))'
        <5>1. CASE up'.files[f] = up.files[f]
          <6>1. up.files[f] # 0 /\ disk[up.files[f]] \in Extended(req.parts[f])
            BY <3>1, <3>3, <4>2, <5>1 DEF PartIs
          <6>2. disk'[up.files[f]] = disk[up.files[f]]
            BY <1>1, <1>11, <1>13, <4>1, <6>1
          <6>3. QED BY <1>1, <3>3, <5>1, <6>1, <6>2 DEF PartIs
        <5>2. CASE up'.files[f] # up.files[f]
          <6>1. f = v /\ n # 0 /\ up'.files[f] = up.current
            BY <1>1, <1>7, <1>13, <4>1, <5>2
          <6>2. disk'[up'.files[f]] \in Extended(req.parts[f])
            BY <2>1, <2>2, <6>1
          <6>3. QED BY <1>1, <3>3, <4>2, <6>2 DEF PartIs
        <5>3. QED BY <5>1, <5>2
      <4>3. ASSUME failed' = "no", f \in DOMAIN kept' PROVE kept'[f] \in Extended(req.parts[f])
        <5>1. /\ DOMAIN kept' = DOMAIN kept \cup {v}
              /\ \A y \in DOMAIN kept' : kept'[y] = IF y = v THEN file ELSE kept[y]
          BY <1>1, <1>13, <2>2 DEF Keep, With
        <5>2. failed = "no"
          BY <1>1, <4>3
        <5>3. CASE f = v
          BY <2>1, <4>3, <5>1, <5>2, <5>3
        <5>4. CASE f # v
          BY <3>1, <3>3, <4>3, <5>1, <5>2, <5>4
        <5>5. QED BY <5>3, <5>4
      <4>4. QED BY <3>3, <4>2, <4>3
    <3>4. QED BY <3>2, <3>3
  <2>5. PartsBounded'
    BY <1>1, <2>4 DEF PartsBounded
  <2>6. QED BY <1>12, <2>5
<1>14. CASE ~up.isFile
  <2>1. v \in Fields /\ v \notin FileFields
    BY <1>6, <1>7, <1>14
  <2>2. cursor = p.at
    BY <1>5, <1>14
  <2>3. n <= PartEnd(p) + boundaryLen - p.at
    <3>1. CASE getBoundary(input) > 0
      BY <1>9, <1>10, <2>2, <3>1
    <3>2. CASE ~(getBoundary(input) > 0)
      <4>1. n = Len(input)
        BY <1>a, <3>2 DEF PartLen
      <4>2. ~(PartEnd(p) + boundaryLen <= Len(got))
        BY <1>2, <1>4, <1>5, <3>2, InSight
      <4>3. QED BY <1>8, <1>9, <2>2, <4>1, <4>2
    <3>3. QED BY <3>1, <3>2
  <2>4. value \in Prefixes(LineEndBehind(req.parts[v]) \o Boundary)
    <3>1. WithoutCRLF(Take(input, n)) \in Prefixes(LineEndBehind(req.parts[p.field]) \o Boundary)
      BY <1>1, <1>2, <1>4, <1>5, <2>2, <2>3, VarEnds
    <3>2. << >> \in Prefixes(LineEndBehind(req.parts[v]) \o Boundary)
      <4>1. req.parts[p.field] \in Seq(Bytes)
        BY <1>2, <1>4, <1>5, ContentIs
      <4>2. QED BY <1>6, <4>1, EmptyPrefix
    <3>3. QED BY <1>6, <1>a, <1>b, <3>1, <3>2
  <2>5. ASSUME NEW f \in DOMAIN req.parts
        PROVE  IF f \in Fields
               THEN PartIs(f, Prefixes(LineEndBehind(req.parts[f]) \o Boundary))'
               ELSE /\ up'.files[f] # 0 => PartIs(f, Extended(req.parts[f]))'
                    /\ failed' = "no" /\ f \in DOMAIN kept' =>
                         kept'[f] \in Extended(req.parts[f])
    <3>1. IF f \in Fields
          THEN PartIs(f, Prefixes(LineEndBehind(req.parts[f]) \o Boundary))
          ELSE /\ up.files[f] # 0 => PartIs(f, Extended(req.parts[f]))
               /\ failed = "no" /\ f \in DOMAIN kept => kept[f] \in Extended(req.parts[f])
      BY <1>2, <1>3, <1>4 DEF PartsBounded
    <3>2. CASE f \notin Fields
      BY <1>1, <1>14, <3>1, <3>2 DEF PartIs
    <3>3. CASE f \in Fields /\ (n = 0 \/ f # v)
      <4>1. up'.vars[f] = up.vars[f]
        BY <1>1, <1>7, <1>14, <3>3
      <4>2. QED BY <1>1, <3>1, <3>3, <4>1 DEF PartIs
    <3>4. CASE f \in Fields /\ n # 0 /\ f = v
      <4>1. up'.vars[f] = value
        BY <1>1, <1>7, <1>14, <3>4
      <4>2. QED BY <1>1, <2>4, <3>4, <4>1 DEF PartIs
    <3>5. QED BY <3>2, <3>3, <3>4
  <2>6. PartsBounded'
    BY <1>1, <2>5 DEF PartsBounded
  <2>7. QED BY <1>12, <2>6
<1>15. QED BY <1>13, <1>14

LEMMA CursorMoved ==
  ASSUME TypeOK, NEW n \in 0 .. Len(rxbuf), Move(n)
  PROVE  cursor' = cursor
<1> DEFINE data == Take(rxbuf, n)
<1>1. got \in Seq(Bytes) /\ input \in Seq(Bytes) /\ rxbuf \in Seq(Bytes)
  BY ChunkTypes
<1>2. data \in Seq(Bytes)
  BY <1>1, TakeIs
<1>3. got' = got \o data /\ input' = input \o data
  BY DEF Move
<1> HIDE DEF data
<1>4. Len(got') = Len(got) + Len(data) /\ Len(input') = Len(input) + Len(data)
  BY <1>1, <1>2, <1>3
<1>5. Len(got) \in Nat /\ Len(input) \in Nat /\ Len(data) \in Nat
  BY <1>1, <1>2
<1>6. QED BY <1>4, <1>5 DEF cursor

LEMMA CursorFilter ==
  ASSUME RxInv, Filter
  PROVE  /\ cursor' = cursor /\ pc = "filter"
         /\ UNCHANGED <<req, up, disk, kept, lineLost, reads>>
         /\ failed' = "no" => failed = "no"
<1>1. /\ pc = "filter" /\ UNCHANGED <<req, up, disk, kept, lineLost, reads>>
      /\ failed' = "no" => failed = "no"
  BY DEF Filter, Filtered, FilterPlain, FilterWaits, FilterBad, FilterStart,
         FilterData, Filtering, At, files, buffers, Fail, Failed, Move
<1>2. TypeOK /\ Len(rxbuf) \in Nat /\ chunk.remaining \in Nat /\ Len(input) \in Nat
      /\ InputMax \in Nat
  BY ChunkTypes, RxAssumption DEF RxInv
<1>3. CASE Filtered \/ FilterWaits \/ FilterBad \/ FilterStart
  <2>1. UNCHANGED <<got, input>>
    BY <1>3 DEF Filtered, FilterWaits, FilterBad, FilterStart, buffers
  <2>2. QED BY <1>1, <2>1 DEF cursor
<1>4. CASE FilterPlain
  <2>1. Move(PlainLen) /\ PlainLen \in 0 .. Len(rxbuf)
    BY <1>2, <1>4 DEF FilterPlain, PlainLen, Smaller
  <2>2. QED BY <1>1, <1>2, <2>1, CursorMoved
<1>5. CASE FilterData
  <2> DEFINE n == Smaller(InputMax - Len(input), Smaller(chunk.remaining, Len(rxbuf)))
  <2>1. Move(n)
    BY <1>5 DEF FilterData
  <2>2. Len(input) <= InputMax
    BY <1>5, InChunks DEF FilterData, Filtering, ChunkInv
  <2>3. n \in 0 .. Len(rxbuf)
    BY <1>2, <2>2 DEF Smaller
  <2> HIDE DEF n
  <2>4. QED BY <1>1, <1>2, <2>1, <2>3, CursorMoved
<1>6. QED BY <1>3, <1>4, <1>5 DEF Filter

LEMMA SameRequest ==
  ASSUME [Next]_vars
  PROVE  req' = req
<1>1. Filter => req' = req
  BY DEF Filter, Filtered, FilterPlain, FilterWaits, FilterBad, FilterStart, FilterData
<1>2. Consume => req' = req
  BY DEF Consume, ConsumeForm, ConsumePut, RefusePut, ConsumeUpload, TestEof
<1>3. Parse => req' = req
  BY DEF Parse, UploadWaits, UploadInit, UploadBoundary, UploadHeader,
         UploadDataWaits, UploadData, UploadPart, UploadCrash, UploadFails
<1>4. Handled \/ Complete \/ Gone => req' = req
  BY DEF Handled, Complete, Gone, TermWebs
<1>5. Read => req' = req
  BY DEF Read
<1>6. UNCHANGED vars => req' = req
  BY DEF vars
<1>7. QED BY <1>1, <1>2, <1>3, <1>4, <1>5, <1>6 DEF Next, Thread

LEMMA FormNext ==
  RxInv /\ FormInv /\ FormsSent /\ [Next]_vars => FormInv'
<1> SUFFICES ASSUME RxInv, FormInv, FormsSent, [Next]_vars PROVE FormInv'
  OBVIOUS
<1>1. TypeOK /\ req' = req
  BY SameRequest DEF RxInv
<1>2. CASE req.consumer # "upload"
  BY <1>1, <1>2 DEF FormInv, PartsBounded
<1>3. CASE req.consumer = "upload"
  <2>1. CASE Handled \/ Complete \/ Gone
    BY <1>1, <2>1, Ended, FormTermWebs
  <2>2. CASE Read
    <3>1. UNCHANGED <<req, got, input, up, disk, kept, lineLost, failed>> /\ pc # "freed"
      BY <2>2 DEF Read, At, files
    <3>2. cursor' = cursor
      BY <3>1 DEF cursor
    <3>3. QED BY <3>1, <3>2, FormSame
  <2>3. CASE Filter
    <3>1. /\ cursor' = cursor /\ pc = "filter"
          /\ UNCHANGED <<req, up, disk, kept, lineLost>>
          /\ failed' = "no" => failed = "no"
      BY <2>3, CursorFilter
    <3>2. QED BY <3>1, FormSame
  <2>4. CASE Consume
    <3>1. ConsumeForm \/ ConsumeUpload \/ TestEof
      BY <1>3, <2>4 DEF Consume, ConsumePut, RefusePut, PutOpen
    <3>2. UNCHANGED <<req, got, input, up, disk, kept, lineLost, failed>> /\ pc # "freed"
      BY <3>1 DEF ConsumeForm, ConsumeUpload, TestEof, At, files, buffers
    <3>3. cursor' = cursor
      BY <3>2 DEF cursor
    <3>4. QED BY <3>2, <3>3, FormSame
  <2>5. CASE UploadWaits \/ UploadDataWaits \/ UploadCrash
    <3>1. UNCHANGED <<req, got, input, up, disk, kept, lineLost, failed>> /\ pc # "freed"
      BY <2>5 DEF UploadWaits, UploadDataWaits, UploadCrash, Uploading, InUpload, At,
                  files, buffers
    <3>2. cursor' = cursor
      BY <3>1 DEF cursor
    <3>3. QED BY <3>1, <3>2, FormSame
  <2>6. CASE Parse
    BY <2>5, <2>6, FormUploadInit, FormBoundary, FormHeader, FormData, FormPart, FormFails
       DEF Parse
  <2>7. CASE UNCHANGED vars
    BY <2>7 DEF vars, buffers, files, FormInv, PartsBounded, PartIs, Reading, Standing,
                Named, Copied, PartEnd, cursor
  <2>8. QED BY <2>1, <2>2, <2>3, <2>4, <2>6, <2>7 DEF Next, Thread
<1>4. QED BY <1>2, <1>3

\* However a form is cut, no field gets bytes of another part, as long as no
\* line is lost: the filter stands at a place of the form or in the content of
\* a part, what it has written to a file is that content, from its beginning,
\* and it finds the boundary behind a part as soon as that has arrived.
THEOREM PartsKeptApart ==
  ASSUME FormsSent
  PROVE  Spec => []PartsBounded
<1> DEFINE Inv == RxInv /\ FormInv
<1>1. Init => Inv
  <2>1. Init => TypeOK
    BY RxInit DEF RxInv
  <2>2. QED BY <2>1, RxInit, FormInit
<1>2. Inv /\ [Next]_vars => Inv'
  BY RxNext, FormNext
<1>3. Inv => PartsBounded
  BY DEF FormInv
<1> HIDE DEF Inv
<1>4. QED BY <1>1, <1>2, <1>3, PTL DEF Spec

(***************************************************************************)
(* A form that comes in one read.                                          *)
(***************************************************************************)

\* What was not parsed is in the input.
LEMMA WholeInput ==
  ASSUME RxInv, chunk.eof
  PROVE  /\ input = Drop(req.body, cursor) /\ Len(got) = Len(req.body)
         /\ cursor + Len(input) = Len(req.body)
<1>1. TypeOK /\ Cut /\ got = req.body
  BY WholeBody DEF RxInv
<1>2. /\ input \in Seq(Bytes) /\ cursor + Len(input) = Len(got)
      /\ Drop(req.body, cursor) = input \o Drop(req.body, Len(got))
  BY <1>1, InputIs
<1>3. req.body \in Seq(Bytes)
  BY <1>1, ReqIs
<1>4. Drop(req.body, Len(req.body)) = << >>
  BY <1>3 DEF Drop
<1>5. input \o << >> = input
  BY <1>2
<1>6. QED BY <1>1, <1>2, <1>4, <1>5

\* A header is not empty.
LEMMA HeaderBegins ==
  ASSUME TypeOK, Form(req), NEW p \in req.places, p.kind = "header"
  PROVE  p.at < Len(req.body) /\ p.at \in Nat
<1> DEFINE s == Drop(req.body, p.at)
<1>1. req.body \in Seq(Bytes) /\ Len(req.body) \in Nat /\ p.at \in 0 .. Len(req.body)
  BY ReqIs, PlaceIs
<1>2. s \in Seq(Bytes) /\ Len(s) = Len(req.body) - p.at
  BY <1>1, DropIs
<1>3. \/ IsPrefix(<<"cr", "lf">>, s)
      \/ \E f \in p.left : IsPrefix(<<f, "cr", "lf">>, s)
      \/ LineEnd(s) > 1
  BY PlaceIs DEF Follows
<1> HIDE DEF s
<1>4. LineEnd(s) \in 0 .. Len(s) /\ Len(s) \in Nat
  BY <1>2, LineEndIs
<1>5. CASE LineEnd(s) > 1
  BY <1>1, <1>2, <1>4, <1>5
<1>6. CASE IsPrefix(<<"cr", "lf">>, s)
  <2>1. {"cr", "lf"} \subseteq Symbols /\ Bytes \subseteq Symbols
    BY DEF Symbols
  <2> HIDE DEF Symbols
  <2>2. <<"cr", "lf">> \in Seq(Symbols) /\ s \in Seq(Symbols)
    BY <1>2, <2>1
  <2>3. Len(<<"cr", "lf">>) <= Len(s)
    BY <1>6, <2>2, StartIs
  <2>4. Len(<<"cr", "lf">>) = 2
    OBVIOUS
  <2>5. QED BY <1>1, <1>2, <2>3, <2>4
<1>7. ASSUME NEW f \in p.left, IsPrefix(<<f, "cr", "lf">>, s)
      PROVE  p.at < Len(req.body) /\ p.at \in Nat
  <2>1. {"cr", "lf", f} \subseteq Symbols \cup {f} /\ Bytes \subseteq Symbols \cup {f}
    BY DEF Symbols
  <2> DEFINE R == Symbols \cup {f}
  <2> HIDE DEF R
  <2>2. <<f, "cr", "lf">> \in Seq(R) /\ s \in Seq(R)
    BY <1>2, <2>1 DEF R
  <2>3. Len(<<f, "cr", "lf">>) <= Len(s)
    BY <1>7, <2>2, StartIs
  <2>4. Len(<<f, "cr", "lf">>) = 3
    OBVIOUS
  <2>5. QED BY <1>1, <1>2, <2>3, <2>4
<1>8. QED BY <1>3, <1>5, <1>6, <1>7

LEMMA ExactKept ==
  ASSUME TypeOK, req' = req, up'.vars = up.vars, up'.files = up.files,
         \A f \in FileFields : up.files[f] # 0 => disk'[up.files[f]] = disk[up.files[f]],
         NEW f \in DOMAIN req.parts, Exact(f)
  PROVE  Exact(f)'
<1>1. CASE f \in Fields
  BY <1>1 DEF Exact, PartIs
<1>2. CASE f \notin Fields
  <2>1. f \in FileFields
    BY <1>2, PartNames DEF Names
  <2>2. QED BY <1>2, <2>1 DEF Exact, PartIs
<1>3. QED BY <1>1, <1>2

LEMMA BoundaryHasNoField ==
  ASSUME TypeOK, Form(req), NEW p \in req.places, p.kind = "boundary"
  PROVE  p.field = NoName /\ p.field \notin DOMAIN req.parts
<1>1. p.field = NoName
  BY PlaceIs DEF Follows
<1>2. NoName \notin Names
  BY UploadAssumption DEF NoName, Names
<1>3. QED BY <1>1, <1>2, PartNames

\* The first boundary.
LEMMA FirstBoundaryRead ==
  ASSUME RxInv, FormInv, FormsSent, UploadBoundary, chunk.eof, pc = "upload", AtStart
  PROVE  pc' = "parsing" /\ Underway'
<1>1. /\ lineLost' = (lineLost \/ NextLine # LineSent(input)) /\ up.state = "boundary"
      /\ LineEnd(input) > 0 /\ InUpload /\ UNCHANGED <<req, disk>>
      /\ up'.files = up.files /\ up'.vars = up.vars
  BY BoundaryStep
<1>2. TypeOK /\ Cut /\ req.consumer = "upload"
  BY <1>1, Uploads DEF RxInv, Uploading
<1>3. Form(req) /\ ~up.isFile
  BY <1>1, <1>2, FormIs DEF FormInv, Reading, AtStart
<1>4. PICK p \in req.places : p.kind = "boundary" /\ p.at = 0 /\ p.left = DOMAIN req.parts
  BY <1>3 DEF Form, Place
<1>5. Len(got) \in Nat /\ Len(input) = Len(got)
  BY <1>2, InputIs DEF AtStart
<1>6. cursor = 0 /\ Len(input) = Len(req.body)
  BY <1>5, WholeInput DEF cursor
<1>7. p.left # {}
  BY <1>3, <1>4 DEF Form
<1>8. /\ LineEnd(input) = boundaryLen + 2
      /\ Place(cursor + (boundaryLen + 2), "header", NoName, p.left) \in req.places
  BY <1>1, <1>2, <1>3, <1>4, <1>6, <1>7, BoundaryRead
<1>9. cursor + (boundaryLen + 2) < Len(req.body)
  <2>1. PICK q \in req.places : q.kind = "header" /\ q.at = cursor + (boundaryLen + 2)
    BY <1>8 DEF Place
  <2>2. QED BY <1>2, <1>3, <2>1, HeaderBegins
<1>10. LineEnd(input) # Len(input)
  BY <1>5, <1>6, <1>8, <1>9, BoundaryIs
<1>11. NextLine = LineSent(input)
  BY <1>10 DEF NextLine, Line
<1>12. /\ failed' = failed /\ pc' = "parsing" /\ up'.state \in {"header", "end"}
       /\ up'.state # "end"
       /\ up'.state = "header" =>
            \E q \in req.places : Standing(q)' /\ q.at = cursor' /\ q.left = p.left
  BY <1>3, <1>4, <1>6, <1>7, <1>11, BoundaryTo
<1>13. PICK q \in req.places : Standing(q)' /\ q.at = cursor' /\ q.left = p.left
  BY <1>12
<1>14. DoneAt(q)'
  BY <1>1, <1>4, <1>13 DEF DoneAt
<1>15. ~lineLost' /\ failed' = "no"
  BY <1>1, <1>11, <1>12 DEF AtStart
<1>16. QED BY <1>1, <1>12, <1>13, <1>14, <1>15 DEF Underway

\* Another boundary.
LEMMA NextBoundaryRead ==
  ASSUME RxInv, FormInv, FormsSent, UploadBoundary, chunk.eof, pc = "parsing", Underway
  PROVE  pc' = "parsing" /\ Underway'
<1>1. /\ lineLost' = (lineLost \/ NextLine # LineSent(input)) /\ up.state = "boundary"
      /\ InUpload /\ UNCHANGED <<req, disk>>
      /\ up'.files = up.files /\ up'.vars = up.vars
  BY BoundaryStep
<1>2. TypeOK /\ Cut /\ req.consumer = "upload" /\ ~lineLost /\ failed = "no"
  BY <1>1, Uploads DEF RxInv, Uploading, Underway
<1>3. Form(req) /\ ~up.isFile
  BY <1>1, <1>2, FormIs DEF FormInv, Reading
<1>4. PICK p \in req.places : Standing(p) /\ p.at = cursor /\ DoneAt(p)
  BY <1>1 DEF Underway
<1>5. p.kind = "boundary"
  BY <1>1, <1>4 DEF Standing
<1>6. NextLine = LineSent(input)
  BY DEF NextLine, Line, At
<1>7. /\ failed' = failed /\ pc' = "parsing" /\ up'.state \in {"header", "end"}
      /\ up'.state = "end" => p.left = {}
      /\ up'.state = "header" =>
           \E q \in req.places : /\ Standing(q)' /\ q.at = cursor'
                                 /\ q.field = NoName /\ q.left = p.left
  BY <1>3, <1>4, <1>5, <1>6, BoundaryTo
<1>8. \A f \in DOMAIN req.parts \ p.left : Exact(f)
  BY <1>2, <1>3, <1>4, <1>5, BoundaryHasNoField DEF DoneAt
<1>9. \A f \in DOMAIN req.parts \ p.left : Exact(f)'
  BY <1>1, <1>2, <1>8, ExactKept
<1>10. ~lineLost' /\ failed' = "no"
  BY <1>1, <1>2, <1>6, <1>7
<1>11. CASE up'.state = "end"
  <2>1. AllExact'
    BY <1>1, <1>7, <1>9, <1>11 DEF AllExact
  <2>2. QED BY <1>7, <1>10, <1>11, <2>1 DEF Underway
<1>12. CASE up'.state = "header"
  <2>1. PICK q \in req.places : Standing(q)' /\ q.at = cursor' /\ q.left = p.left
    BY <1>7, <1>12
  <2>2. DoneAt(q)'
    BY <1>1, <1>9, <2>1 DEF DoneAt
  <2>3. QED BY <1>1, <1>7, <1>10, <2>1, <2>2 DEF Underway
<1>13. QED BY <1>7, <1>11, <1>12

LEMMA HeaderLineRead ==
  ASSUME RxInv, FormInv, FormsSent, UploadHeader, chunk.eof, pc = "parsing", Underway
  PROVE  pc' = "parsing" /\ Underway'
<1>1. /\ lineLost' = (lineLost \/ NextLine # LineSent(input)) /\ up.state = "header"
      /\ InUpload /\ pc' = "parsing" /\ UNCHANGED <<req, failed>>
      /\ up'.files = up.files /\ up'.vars = up.vars
  BY HeaderStep
<1>2. TypeOK /\ req.consumer = "upload" /\ ~lineLost /\ failed = "no"
  BY <1>1, Uploads DEF RxInv, Uploading, Underway
<1>3. Form(req) /\ Reading
  BY <1>2, FormIs DEF FormInv
<1>4. PICK p \in req.places : Standing(p) /\ p.at = cursor /\ DoneAt(p)
  BY <1>1 DEF Underway
<1>5. NextLine = LineSent(input)
  BY DEF NextLine, Line, At
<1>6. PICK q \in req.places :
           /\ Standing(q)' /\ q.at = cursor' /\ p.left \subseteq q.left \cup {q.field}
           /\ p.field # NoName => q.field = p.field
  BY <1>3, <1>4, <1>5, HeaderTo
<1>7. NoName \notin DOMAIN req.parts
  <2>1. NoName \notin Names
    BY UploadAssumption DEF NoName, Names
  <2>2. QED BY <1>2, <2>1, PartNames
<1>8. \A f \in FileFields : up.files[f] # 0 => disk'[up.files[f]] = disk[up.files[f]]
  BY <1>3, HeaderFiles
<1>9. ASSUME NEW f \in DOMAIN req.parts \ (q.left \cup {q.field}) PROVE Exact(f)'
  <2>1. f \in DOMAIN req.parts \ (p.left \cup {p.field})
    BY <1>6, <1>7
  <2>2. Exact(f)
    BY <1>4, <2>1 DEF DoneAt
  <2>3. QED BY <1>1, <1>2, <1>8, <2>2, ExactKept
<1>10. DoneAt(q)'
  BY <1>1, <1>9 DEF DoneAt
<1>11. QED BY <1>1, <1>2, <1>5, <1>6, <1>10 DEF Underway

LEMMA AtContent ==
  ASSUME RxInv, FormInv, FormsSent, chunk.eof, pc = "parsing", Underway, up.state = "data"
  PROVE  \E p \in req.places :
           /\ p.kind = "data" /\ p.at = cursor /\ Named(p.field) /\ DoneAt(p)
           /\ cursor \in p.at .. PartEnd(p)
           /\ up.isFile => Copied(disk[up.current], p.at, cursor - p.at)
           /\ getBoundary(input) > 0 /\ Len(input) >= boundaryLen
           /\ PartLen(input) = PartEnd(p) - cursor
           /\ PartLen(input) >= 2 /\ cursor + PartLen(input) = PartEnd(p)
           /\ Len(input) - PartLen(input) >= boundaryLen
<1>1. PICK p \in req.places : Standing(p) /\ p.at = cursor /\ DoneAt(p)
  BY DEF Underway
<1>2. TypeOK /\ Cut /\ req.consumer = "upload"
  BY DEF RxInv, UpInv, InUpload, At
<1>3. Form(req)
  BY <1>2, FormIs
<1>4. /\ p.kind = "data" /\ Named(p.field) /\ cursor \in p.at .. PartEnd(p)
      /\ IF up.isFile
         THEN \/ Copied(disk[up.current], p.at, cursor - p.at)
              \/ failed # "no" /\ cursor = PartEnd(p)
         ELSE cursor = p.at
  BY <1>1 DEF Standing
<1>5. up.isFile => Copied(disk[up.current], p.at, cursor - p.at)
  BY <1>4 DEF Underway
<1>6. /\ p.at \in Nat /\ PartEnd(p) \in Nat /\ p.at + 2 <= PartEnd(p)
      /\ PartEnd(p) + boundaryLen <= Len(req.body)
  BY <1>2, <1>3, <1>4, ContentIs
<1>7. Len(got) = Len(req.body) /\ cursor + Len(input) = Len(req.body)
  BY WholeInput
<1>8. getBoundary(input) > 0
  BY <1>2, <1>3, <1>4, <1>6, <1>7, InSight
<1>9. PartLen(input) = PartEnd(p) - cursor /\ cursor + PartLen(input) = PartEnd(p)
  BY <1>2, <1>3, <1>4, <1>8, PartInSight
<1>10. boundaryLen \in Nat /\ cursor \in Nat /\ Len(input) \in Nat /\ Len(req.body) \in Nat
  BY <1>2, BoundaryIs, InputIs, ReqIs
<1>11. /\ PartLen(input) >= 2 /\ Len(input) >= boundaryLen
       /\ Len(input) - PartLen(input) >= boundaryLen
  BY <1>1, <1>6, <1>7, <1>9, <1>10
<1>12. QED BY <1>1, <1>4, <1>5, <1>8, <1>9, <1>11

LEMMA PartRead ==
  ASSUME RxInv, FormInv, FormsSent, UploadPart, chunk.eof, pc = "parsing", Underway
  PROVE  pc' = "parsing" /\ Underway'
<1> DEFINE n == PartLen(input)
           data == Take(input, n)
           text == WithoutCRLF(data)
           v == up.var
<1>1. /\ n \in 0 .. Len(input) /\ data \in Seq(Bytes) /\ cursor' = cursor + n
      /\ up'.state = "boundary"
      /\ up.isFile => /\ up.current \in DOMAIN disk /\ v \in FileFields
                      /\ DOMAIN disk' = DOMAIN disk
                      /\ disk'[up.current] = disk[up.current] \o text
                      /\ \A i \in DOMAIN disk : i # up.current => disk'[i] = disk[i]
                      /\ up'.vars = up.vars
                      /\ n # 0 => up'.files = [up.files EXCEPT ![v] = up.current]
      /\ ~up.isFile => /\ UNCHANGED disk /\ up'.files = up.files
                       /\ n # 0 => up'.vars = [up.vars EXCEPT ![v] = text]
      /\ UNCHANGED <<req, failed, lineLost>>
  <2>1. ~Cleared(data)
    BY DEF Cleared, At
  <2>2. QED BY <2>1, PartDone
<1>2. /\ up.state = "data" /\ NextTurn(Drop(input, Len(data))) /\ InUpload
  BY DEF UploadPart, Uploading
<1>3. TypeOK /\ Cut /\ req.consumer = "upload" /\ ~lineLost /\ failed = "no" /\ pc # "freed"
  BY <1>2, Uploads DEF RxInv, Uploading, Underway
<1>4. Form(req) /\ Reading
  BY <1>3, FormIs DEF FormInv
<1>5. PICK p \in req.places :
           /\ p.kind = "data" /\ p.at = cursor /\ Named(p.field) /\ DoneAt(p)
           /\ cursor \in p.at .. PartEnd(p)
           /\ up.isFile => Copied(disk[up.current], p.at, cursor - p.at)
           /\ getBoundary(input) > 0
           /\ n = PartEnd(p) - cursor /\ n >= 2 /\ cursor + n = PartEnd(p)
           /\ Len(input) - n >= boundaryLen
  BY <1>2, AtContent
<1>6. /\ PartEnd(p) \in Nat /\ boundaryLen \in Nat /\ boundaryLen > 0 /\ cursor \in Nat
      /\ PartEnd(p) + boundaryLen <= Len(req.body)
      /\ Place(PartEnd(p), "boundary", NoName, p.left) \in req.places
      /\ input \in Seq(Bytes) /\ Len(input) \in Nat /\ Len(req.body) \in Nat
      /\ Len(got) = Len(req.body)
  BY <1>3, <1>4, <1>5, ContentIs, BoundaryIs, InputIs, ReqIs, WholeInput
<1>7. pc' = "parsing"
  <2>1. Len(data) = n
    BY <1>1, <1>6, TakeIs
  <2>2. Len(Drop(input, n)) = Len(input) - n
    BY <1>1, <1>6, DropIs
  <2>3. ~(Len(input) - n < boundaryLen)
    BY <1>1, <1>5, <1>6
  <2>4. NextTurn(Drop(input, n))
    BY <1>2, <2>1
  <2>5. QED BY <2>2, <2>3, <2>4 DEF NextTurn, Goto
<1>8. p.field = v /\ v # NoName /\ v \in Names /\ (up.isFile <=> v \in FileFields)
  <2>1. p.field = v /\ v # NoName /\ (up.isFile <=> v \in FileFields)
    BY <1>5 DEF Named
  <2>2. up.var \in Names \cup {NoName}
    BY <1>3, PartsIs DEF TypeOK
  <2>3. QED BY <2>1, <2>2
<1>9. /\ Names = Fields \cup FileFields /\ Fields \cap FileFields = {} /\ NoName \notin Names
      /\ up.vars \in [Names -> Seq(Bytes)] /\ up.files \in [FileFields -> FileIds \cup {0}]
  BY <1>3, UploadAssumption, PartsIs DEF Names, NoName, TypeOK
<1>a. text = WithoutCRLF(Take(input, n))
  OBVIOUS
<1> HIDE DEF n, data, text, v
<1>10. n # 0 /\ n <= PartEnd(p) + boundaryLen - p.at /\ n = PartEnd(p) - p.at
       /\ PartEnd(p) <= Len(got)
  <2>1. n = PartEnd(p) - cursor /\ n >= 2 /\ p.at = cursor
    BY <1>5
  <2>2. QED BY <1>6, <2>1
<1>11. Exact(p.field)'
  <2>1. CASE up.isFile
    <3>1. disk[up.current] \in Seq(Bytes) /\ up.current # 0
      BY <1>1, <1>3, <2>1 DEF TypeOK, FileIds
    <3>2. disk[up.current] \o WithoutCRLF(Take(input, PartEnd(p) - cursor)) = req.parts[p.field]
      BY <1>3, <1>4, <1>5, <1>10, <2>1, <3>1, FileEnds
    <3>3. disk'[up.current] = req.parts[v]
      BY <1>1, <1>5, <1>8, <1>a, <2>1, <3>2
    <3>4. up'.files[v] = up.current /\ v \notin Fields
      BY <1>1, <1>8, <1>9, <1>10, <2>1
    <3>5. QED BY <1>1, <1>8, <3>1, <3>3, <3>4 DEF Exact, PartIs
  <2>2. CASE ~up.isFile
    <3>1. WithoutCRLF(Take(input, n)) = req.parts[p.field]
      BY <1>1, <1>3, <1>4, <1>5, <1>10, VarEnds
    <3>2. up'.vars[v] = req.parts[v] /\ v \in Fields
      BY <1>1, <1>8, <1>9, <1>10, <1>a, <2>2, <3>1
    <3>3. QED BY <1>1, <1>8, <3>2 DEF Exact, PartIs
  <2>3. QED BY <2>1, <2>2
<1>12. ASSUME NEW f \in DOMAIN req.parts, f # p.field, Exact(f) PROVE Exact(f)'
  <2>1. f \in Names
    BY <1>3, PartNames
  <2>2. CASE f \in Fields
    <3>1. up'.vars[f] = up.vars[f]
      BY <1>1, <1>8, <1>9, <1>10, <1>12, <2>1
    <3>2. QED BY <1>1, <1>12, <2>2, <3>1 DEF Exact, PartIs
  <2>3. CASE f \notin Fields
    <3>1. f \in FileFields
      BY <1>9, <2>1, <2>3
    <3>2. up'.files[f] = up.files[f]
      BY <1>1, <1>8, <1>9, <1>10, <1>12, <3>1
    <3>3. up.files[f] # 0
      BY <1>12, <2>3 DEF Exact, PartIs
    <3>4. up.files[f] \in DOMAIN disk /\ (up.isFile => up.files[f] # up.current)
      BY <1>4, <3>1, <3>3 DEF Reading
    <3>5. disk'[up.files[f]] = disk[up.files[f]]
      BY <1>1, <3>4
    <3>6. QED BY <1>1, <1>12, <2>3, <3>2, <3>5 DEF Exact, PartIs
  <2>4. QED BY <2>2, <2>3
<1>13. PICK q \in req.places : q.kind = "boundary" /\ q.at = cursor' /\ q.left = p.left
  BY <1>1, <1>5, <1>6 DEF Place
<1>14. Standing(q)'
  BY <1>1, <1>13 DEF Standing
<1>15. ASSUME NEW f \in DOMAIN req.parts \ p.left PROVE Exact(f)'
  <2>1. CASE f = p.field
    BY <1>11, <2>1
  <2>2. CASE f # p.field
    <3>1. Exact(f)
      BY <1>5, <2>2 DEF DoneAt
    <3>2. QED BY <1>12, <2>2, <3>1
  <2>3. QED BY <2>1, <2>2
<1>16. DoneAt(q)'
  BY <1>1, <1>13, <1>15 DEF DoneAt
<1>17. QED BY <1>1, <1>3, <1>7, <1>13, <1>14, <1>16 DEF Underway

LEMMA WholeTermWebs ==
  ASSUME WholeInv, TermWebs(failed')
  PROVE  WholeInv'
<1>1. pc' = "freed" /\ up' = NoParts /\ UNCHANGED <<req, lineLost, input, got, reads>>
  BY DEF TermWebs, Goto, buffers
<1>2. QED BY <1>1 DEF WholeInv, Fresh

LEMMA WholeRead ==
  ASSUME TypeOK, WholeInv, Read
  PROVE  WholeInv'
<1>1. /\ pc = "select" /\ pc' = "filter" /\ UNCHANGED <<req, up, failed, lineLost, input, got>>
      /\ reads' = IF 2 <= reads + 1 THEN 2 ELSE reads + 1
  BY DEF Read, At, Goto, files, Smaller
<1>2. reads \in 0 .. 2
  BY DEF TypeOK
<1>3. reads' # 0 /\ (reads' = 1 => reads = 0)
  BY <1>1, <1>2
<1>4. req.consumer = "upload" /\ reads' = 1 => Fresh'
  BY <1>1, <1>3 DEF WholeInv, Fresh
<1>5. QED BY <1>1, <1>3, <1>4 DEF WholeInv

LEMMA WholeFilter ==
  ASSUME RxInv, WholeInv, Filter
  PROVE  WholeInv'
<1>1. pc = "filter" /\ UNCHANGED <<req, up, disk, kept, lineLost, reads>>
  BY CursorFilter
<1>2. pc' \in {"filter", "consume", "select"}
  BY <1>1 DEF Filter, Filtered, FilterPlain, FilterWaits, FilterBad, FilterStart,
              FilterData, Goto
<1>3. req.consumer = "upload" => reads # 0
  BY <1>1 DEF WholeInv
<1>4. ASSUME req.consumer = "upload", reads = 1, pc' \in {"filter", "consume"} PROVE Fresh'
  <2>1. Fresh
    BY <1>1, <1>4 DEF WholeInv
  <2>2. failed' = failed
    BY <1>4 DEF Filter, Filtered, FilterPlain, FilterWaits, FilterBad, FilterStart,
                FilterData, Goto
  <2>3. input = got => input' = got'
    <3>1. (Filtered \/ FilterWaits \/ FilterStart \/ FilterBad) => UNCHANGED <<input, got>>
      BY DEF Filtered, FilterWaits, FilterStart, FilterBad, buffers
    <3>2. (FilterPlain \/ FilterData) => \E n : Move(n)
      BY DEF FilterPlain, FilterData
    <3>3. (\E n : Move(n)) => (input = got => input' = got')
      BY DEF Move
    <3>4. QED BY <3>1, <3>2, <3>3 DEF Filter
  <2>4. QED BY <1>1, <2>1, <2>2, <2>3 DEF Fresh
<1>5. QED BY <1>1, <1>2, <1>3, <1>4 DEF WholeInv

LEMMA WholeConsume ==
  ASSUME WholeInv, Consume
  PROVE  WholeInv'
<1>1. SUFFICES ASSUME req'.consumer = "upload" PROVE WholeInv'
  BY DEF WholeInv
<1>2. req' = req /\ (ConsumeUpload \/ TestEof)
  BY <1>1 DEF Consume, ConsumeForm, ConsumePut, RefusePut, ConsumeUpload, TestEof, PutOpen
<1>3. CASE ConsumeUpload
  <2>1. /\ pc = "consume" /\ pc' = "upload"
        /\ UNCHANGED <<req, up, failed, lineLost, input, got, reads>>
    BY <1>3 DEF ConsumeUpload, At, Goto, buffers, files
  <2>2. reads # 0
    BY <1>1, <2>1 DEF WholeInv
  <2>3. ASSUME reads = 1 PROVE AtStart'
    <3>1. up' = NoParts /\ input' = got' /\ ~lineLost' /\ failed' = "no"
      BY <1>1, <2>1, <2>3 DEF WholeInv, Fresh
    <3>2. NoParts = [NoParts EXCEPT !.state = NoParts.state] /\ NoParts.state = "start"
      BY DEF NoParts
    <3>3. QED BY <3>1, <3>2 DEF AtStart
  <2>4. QED BY <2>1, <2>2, <2>3 DEF WholeInv
<1>4. CASE TestEof
  <2>1. /\ pc = "eof" /\ pc' = IF chunk.eof THEN "handler" ELSE "select"
        /\ UNCHANGED <<req, up, disk, failed, lineLost, input, got, reads, chunk>>
    BY <1>4 DEF TestEof, At, Goto, buffers, files
  <2>2. reads # 0
    BY <1>1, <2>1 DEF WholeInv
  <2>3. AllExact => AllExact'
    BY <2>1 DEF AllExact, Exact, PartIs
  <2>4. QED BY <1>1, <2>1, <2>2, <2>3 DEF WholeInv
<1>5. QED BY <1>2, <1>3, <1>4

\* There is always another line, until the form ends.
LEMMA LinesArrive ==
  ASSUME RxInv, FormInv, FormsSent, chunk.eof, req.consumer = "upload",
         \/ pc = "upload" /\ AtStart
         \/ pc = "parsing" /\ Underway
  PROVE  up.state \in {"boundary", "header"} => LineEnd(input) > 0
<1>1. TypeOK /\ Cut /\ Form(req)
  BY FormIs DEF RxInv
<1>2. input = Drop(req.body, cursor)
  BY WholeInput
<1>3. CASE pc = "upload" /\ AtStart
  <2>1. PICK p \in req.places : p.kind = "boundary" /\ p.at = 0
    BY <1>1 DEF Form, Place
  <2>2. cursor = 0
    <3>1. Len(got) \in Nat /\ Len(input) = Len(got)
      BY <1>1, <1>3, InputIs DEF AtStart
    <3>2. QED BY <3>1 DEF cursor
  <2>3. QED BY <1>1, <1>2, <2>1, <2>2, BoundaryRead
<1>4. CASE pc = "parsing" /\ Underway
  <2> SUFFICES ASSUME up.state \in {"boundary", "header"} PROVE LineEnd(input) > 0
    OBVIOUS
  <2>1. PICK p \in req.places : Standing(p) /\ p.at = cursor
    BY <1>4 DEF Underway
  <2>2. p.kind = up.state
    BY <2>1 DEF Standing
  <2>3. QED BY <1>1, <1>2, <2>1, <2>2, BoundaryRead, HeaderRead
<1>5. QED BY <1>3, <1>4

LEMMA WholeParse ==
  ASSUME RxInv, FormInv, WholeInv, FormsSent, Parse
  PROVE  WholeInv'
<1>1. InUpload /\ UNCHANGED <<req, reads, chunk>> /\ req.consumer = "upload"
      /\ pc' # "handler" /\ pc \in {"upload", "parsing"}
  <2>1. InUpload /\ UNCHANGED <<req, reads, chunk>> /\ pc' # "handler"
    BY DEF Parse, UploadWaits, UploadInit, UploadBoundary, UploadHeader,
           UploadDataWaits, UploadData, UploadPart, UploadCrash, UploadFails,
           ReadsLine, Uploading, InUpload, At, Goto, NextTurn, ConsumeInput, buffers
  <2>2. QED BY <2>1 DEF RxInv, UpInv, InUpload, At
<1>2. reads # 0 /\ pc' \notin {"filter", "consume"}
  <2>1. reads # 0
    BY <1>1 DEF WholeInv
  <2>2. pc' \notin {"filter", "consume"}
    BY <1>1 DEF Parse, UploadWaits, UploadInit, UploadBoundary, UploadHeader,
           UploadDataWaits, UploadData, UploadPart, UploadCrash, UploadFails, Goto, NextTurn
  <2>3. QED BY <2>1, <2>2
<1>3. SUFFICES ASSUME reads = 1, chunk.eof
               PROVE  /\ pc' = "upload" => AtStart'
                      /\ pc' = "parsing" => Underway'
                      /\ pc' = "eof" => failed' = "write" \/ (failed' = "no" /\ AllExact')
  BY <1>1, <1>2 DEF WholeInv
<1>4. /\ pc = "upload" => AtStart
      /\ pc = "parsing" => Underway
  BY <1>1, <1>3 DEF WholeInv
<1>5. up.state \in {"boundary", "header"} => LineEnd(input) > 0
  BY <1>1, <1>3, <1>4, LinesArrive
<1>6. pc = "upload" => up.state \in {"start", "boundary"}
  BY <1>4 DEF AtStart
<1>7. TypeOK /\ up \in PartsType(FileIds, Bytes) /\ Form(req)
  BY <1>1, FormIs DEF RxInv, TypeOK
<1>8. CASE UploadWaits
  <2>1. up.state = "end" /\ pc = "parsing"
    BY <1>1, <1>5, <1>6, <1>8 DEF UploadWaits, Uploading
  <2>2. failed = "no" /\ AllExact
    <3>1. ASSUME NEW p \in req.places, Standing(p) PROVE FALSE
      <4>1. p.kind = "end"
        BY <2>1, <3>1 DEF Standing
      <4>2. QED BY <1>7, <4>1, PlaceIs DEF Follows
    <3>2. QED BY <1>4, <2>1, <3>1 DEF Underway
  <2>3. pc' = "eof" /\ UNCHANGED <<req, up, disk, failed>>
    BY <1>8 DEF UploadWaits, Goto, files
  <2>4. AllExact'
    BY <2>2, <2>3 DEF AllExact, Exact, PartIs
  <2>5. QED BY <2>2, <2>3, <2>4
<1>9. CASE UploadInit
  <2>1. /\ up.state = "start" /\ up' = [up EXCEPT !.state = "boundary"]
        /\ UNCHANGED <<req, pc, failed, input, got, lineLost>>
    BY <1>9 DEF UploadInit, Uploading, buffers
  <2>2. pc # "parsing"
    <3>1. ASSUME NEW p \in req.places, Standing(p) PROVE FALSE
      <4>1. p.kind = "start"
        BY <2>1, <3>1 DEF Standing
      <4>2. QED BY <1>7, <4>1, PlaceIs DEF Follows
    <3>2. QED BY <1>4, <2>1, <3>1 DEF Underway
  <2>3. AtStart /\ pc = "upload"
    BY <1>1, <1>4, <2>2
  <2>4. up'.state = "boundary" /\ up' = [NoParts EXCEPT !.state = up'.state]
    <3>1. up = [NoParts EXCEPT !.state = up.state]
      BY <2>3 DEF AtStart
    <3>2. up'.state = "boundary"
      BY <1>7, <2>1 DEF PartsType
    <3>3. [[NoParts EXCEPT !.state = up.state] EXCEPT !.state = "boundary"]
            = [NoParts EXCEPT !.state = "boundary"]
      BY DEF NoParts
    <3>4. QED BY <2>1, <3>1, <3>2, <3>3
  <2>5. AtStart'
    BY <2>1, <2>3, <2>4 DEF AtStart
  <2>6. QED BY <2>1, <2>3, <2>5
<1>10. CASE UploadBoundary
  BY <1>1, <1>3, <1>4, <1>10, FirstBoundaryRead, NextBoundaryRead
<1>11. CASE UploadHeader
  <2>1. up.state = "header"
    BY <1>11 DEF UploadHeader, ReadsLine, Uploading
  <2>2. QED BY <1>1, <1>3, <1>4, <1>6, <1>11, <2>1, HeaderLineRead
<1>12. CASE UploadDataWaits \/ UploadData \/ UploadPart \/ UploadCrash \/ UploadFails
  <2>1. up.state = "data"
    BY <1>12 DEF UploadDataWaits, UploadData, UploadPart, UploadCrash, UploadFails, Uploading
  <2>2. pc = "parsing" /\ Underway
    BY <1>1, <1>4, <1>6, <2>1
  <2>3. getBoundary(input) > 0 /\ Len(input) >= boundaryLen
    BY <1>3, <2>1, <2>2, AtContent
  <2>4. ~UploadDataWaits /\ ~UploadData
    <3>1. Len(input) \in Nat /\ boundaryLen \in Nat
      BY <1>7, ChunkTypes, BoundaryIs
    <3>2. ~(Len(input) < boundaryLen)
      BY <2>3, <3>1
    <3>3. QED BY <2>3, <3>2 DEF UploadDataWaits, UploadData, PartEnds
  <2>5. CASE UploadPart
    BY <1>3, <2>2, <2>5, PartRead
  <2>6. CASE UploadCrash
    BY <2>6 DEF UploadCrash, Goto
  <2>7. CASE UploadFails
    <3>1. pc' = "eof" /\ failed' = "write"
      BY <2>2, <2>7 DEF UploadFails, Fail, Failed, Goto, Underway
    <3>2. QED BY <3>1
  <2>8. QED BY <1>12, <2>4, <2>5, <2>6, <2>7
<1>13. QED BY <1>8, <1>9, <1>10, <1>11, <1>12 DEF Parse

LEMMA WholeNext ==
  RxInv /\ FormInv /\ WholeInv /\ FormsSent /\ [Next]_vars => WholeInv'
<1> SUFFICES ASSUME RxInv, FormInv, WholeInv, FormsSent, [Next]_vars PROVE WholeInv'
  OBVIOUS
<1>1. CASE Handled \/ Complete \/ Gone
  BY <1>1, Ended, WholeTermWebs
<1>2. CASE Read
  BY <1>2, WholeRead DEF RxInv
<1>3. CASE UNCHANGED vars
  BY <1>3 DEF vars, buffers, files, WholeInv, Fresh, AtStart, Underway, AllExact, Exact,
              PartIs, DoneAt, Standing, Named, Copied, PartEnd, cursor
<1>4. QED BY <1>1, <1>2, <1>3, WholeFilter, WholeConsume, WholeParse DEF Next, Thread

LEMMA WholeInit == Init => WholeInv
BY DEF Init, WholeInv, Fresh

\* A form that comes in one read is parsed as it was meant: no line is lost,
\* the next place of the form and the boundary behind a part are always in
\* sight, and each field has its content, no line end more or less.
THEOREM WholeFormParsed ==
  ASSUME FormsSent
  PROVE  Spec => []WholeFormExact
<1> DEFINE Inv == RxInv /\ FormInv /\ WholeInv
<1>1. Init => Inv
  <2>1. Init => TypeOK
    BY RxInit DEF RxInv
  <2>2. QED BY <2>1, RxInit, FormInit, WholeInit
<1>2. Inv /\ [Next]_vars => Inv'
  BY RxNext, FormNext, WholeNext
<1>3. Inv => WholeFormExact
  <2> SUFFICES ASSUME Inv, pc = "handler", req.consumer = "upload", reads = 1
               PROVE  /\ failed # "boundary"
                      /\ failed = "no" => \A f \in DOMAIN req.parts : PartIs(f, {req.parts[f]})
    BY DEF WholeFormExact, At
  <2>1. chunk.eof
    BY DEF RxInv, BodyInv
  <2>2. failed = "write" \/ (failed = "no" /\ AllExact)
    BY <2>1 DEF WholeInv
  <2>3. QED BY <2>2 DEF AllExact, Exact
<1> HIDE DEF Inv
<1>4. QED BY <1>1, <1>2, <1>3, PTL DEF Spec
=============================================================================
