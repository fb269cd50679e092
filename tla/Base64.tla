------------------------------- MODULE Base64 -------------------------------
(***************************************************************************)
(* The base64 encoding of crypt.c.  Characters are their codes; a text     *)
(* ends before a null, which is not one of its characters.                 *)
(***************************************************************************)
EXTENDS Integers, Sequences, SequencesExt, FiniteSetsExt

NULL == <<"NULL">>
Pad == 61   \* the code of =

encodeMap(n) ==
  CASE n < 26 -> 65 + n
    [] n >= 26 /\ n < 52 -> 71 + n
    [] n >= 52 /\ n < 62 -> n - 4
    [] n = 62 -> 43
    [] OTHER -> 47
decodeMap(c) ==
  CASE c \in 65 .. 90 -> c - 65
    [] c \in 97 .. 122 -> c - 71
    [] c \in 48 .. 57 -> c + 4
    [] c = 43 -> 62
    [] c = 47 -> 63
    [] OTHER -> -1

\* The groups of at most n characters that a loop takes a text in.
Groups(s, n) ==
  [k \in 1 .. (Len(s) + n - 1) \div n |-> SubSeq(s, (k - 1) * n + 1, Min({k * n, Len(s)}))]

\* The integer of which the items of a group are the digits, from the top.
Packed(group, base, n) ==
  FoldLeft(LAMBDA v, c : v * base + c, 0, group \o [k \in 1 .. n - Len(group) |-> 0])

\* One turn of the loop: n bytes need n + 1 characters, the rest is filled.
EncodeGroup(group) ==
  LET shiftbuf == Packed(group, 256, 3)
  IN [k \in 1 .. 4 |-> IF k <= Len(group) + 1 THEN encodeMap((shiftbuf \div 64 ^ (4 - k)) % 64) ELSE Pad]

\* The text, and the bytes that were allocated for it and its null.  (The
\* test of the loop for the room that is left never ends it early, but for
\* a text of one byte, which needs more than it has: see README.)
websEncode64Block(s) ==
  [text |-> FlattenSeq([k \in DOMAIN Groups(s, 3) |-> EncodeGroup(Groups(s, 3)[k])]), size |-> 2 * Len(s) + 1]

DecodeGroup(group) ==
  LET bitBuf == Packed([k \in DOMAIN group |-> decodeMap(group[k])], 64, 4)
  IN [k \in 1 .. Len(group) - 1 |-> (bitBuf \div 256 ^ (3 - k)) % 256]

\* As far as =, if that is asked for; NULL for a character with no value.
websDecode64Block(s, tokeq) ==
  LET end == SelectInSeq(s, LAMBDA c : tokeq /\ c = Pad)
      t == IF end = 0 THEN s ELSE SubSeq(s, 1, end - 1)
  IN IF \E k \in DOMAIN t : decodeMap(t[k]) = -1 THEN NULL
     ELSE FlattenSeq([k \in DOMAIN Groups(t, 4) |-> DecodeGroup(Groups(t, 4)[k])])

----------------------------------------------------------------------------
(* What it promises, by bits: each character stands for six of them. *)

Alphabet ==
  [k \in 1 .. 26 |-> 64 + k] \o [k \in 1 .. 26 |-> 96 + k] \o [k \in 1 .. 10 |-> 47 + k] \o <<43, 47>>

Bits(s) == [n \in 1 .. 8 * Len(s) |-> (s[(n - 1) \div 8 + 1] \div 2 ^ (7 - ((n - 1) % 8))) % 2]
Sextet(bits, k) ==
  FoldLeft(LAMBDA v, n : 2 * v + (IF n \in DOMAIN bits THEN bits[n] ELSE 0), 0,
           [n \in 1 .. 6 |-> 6 * (k - 1) + n])

EncodesAs(out, s) ==
  LET chars == (Len(Bits(s)) + 5) \div 6
  IN /\ out.encoded.text = [k \in 1 .. 4 * ((Len(s) + 2) \div 3) |->
                              IF k <= chars THEN Alphabet[Sextet(Bits(s), k) + 1] ELSE Pad]
     /\ Len(out.encoded.text) + 1 <= out.encoded.size
     /\ out.decoded = s
     /\ out.spoilt = NULL
=============================================================================
