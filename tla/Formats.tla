------------------------------- MODULE Formats ------------------------------
(***************************************************************************)
(* The formatted printing of runtime.c: a format is scanned with a table   *)
(* of states, into a buffer of the caller that is cut at its end or into   *)
(* one that grows.  Characters are symbols; an integer argument is an      *)
(* integer, a string a sequence of symbols, or NULL.  Also the escapes of  *)
(* websEscapeHtml, which %S applies.                                       *)
(***************************************************************************)
EXTENDS Integers, Sequences, SequencesExt, FiniteSetsExt

CONSTANTS
  BufferInit,   \* bytes of the first buffer, 256 in the code
  GrowInit      \* bytes of the first growth, 512 in the code

NULL == <<"null">>
MAXINT == 2147483647

Figure == <<"0", "1", "2", "3", "4", "5", "6", "7", "8", "9", "a", "b", "c", "d", "e", "f">>
Capital == SubSeq(Figure, 1, 10) \o <<"A", "B", "C", "D", "E", "F">>
Decimal == {Figure[i] : i \in 1 .. 10}
NumberOf(c) == (CHOOSE i \in 1 .. 10 : Figure[i] = c) - 1
Repeat(c, n) == [i \in 1 .. (IF n > 0 THEN n ELSE 0) |-> c]

----------------------------------------------------------------------------
(* websEscapeHtml. *)

Entity ==
  [c \in {"&", "<", ">", "#", "(", ")", "\"", "'"} |->
     CASE c = "&" -> <<"&", "a", "m", "p", ";">>  [] c = "<" -> <<"&", "l", "t", ";">>
       [] c = ">" -> <<"&", "g", "t", ";">>       [] c = "#" -> <<"&", "#", "3", "5", ";">>
       [] c = "(" -> <<"&", "#", "4", "0", ";">>  [] c = ")" -> <<"&", "#", "4", "1", ";">>
       [] c = "\"" -> <<"&", "q", "u", "o", "t", ";">>
       [] c = "'" -> <<"&", "#", "3", "9", ";">>]

websEscapeHtml(html) ==
  IF html = NULL THEN << >>
  ELSE FlattenSeq([i \in DOMAIN html |->
         IF html[i] \in DOMAIN Entity THEN Entity[html[i]] ELSE <<html[i]>>])

\* The bytes it asks for, which its assertion compares with those it writes.
EscapeSize(html) ==
  1 + FoldLeft(LAMBDA n, c : n + (IF c \in DOMAIN Entity THEN 6 ELSE 1), 0, html)

----------------------------------------------------------------------------
(* The buffer. *)

Buffer(size, growBy, maxsize, args) ==
  [out |-> << >>, buflen |-> size, growBy |-> growBy, maxsize |-> maxsize,
   args |-> args, counts |-> << >>, flags |-> {}, width |-> 0, precision |-> -1]

\* Without a buffer of the caller's: the first one and its growth.
Growing(args) ==
  LET len == Min({BufferInit, MAXINT})
  IN Buffer(len, Min({GrowInit, MAXINT - len}), MAXINT, args)
Fixed(size, args) == Buffer(size, -1, size, args)

CanGrow(f) == (f.maxsize < 0 \/ f.buflen < f.maxsize) /\ f.growBy > 0
growBuf(f) ==
  LET buflen == f.buflen + f.growBy
  IN IF ~ CanGrow(f) THEN f
     ELSE [f EXCEPT !.buflen = buflen,
                    !.growBy = IF buflen + 2 * f.growBy < f.maxsize THEN 2 * f.growBy ELSE f.growBy]

\* Mutated BPUT: no room for the null.
BPUTFull(f, c) ==
  IF Len(f.out) < f.buflen THEN [f EXCEPT !.out = Append(@, c)]
  ELSE IF CanGrow(f) THEN [growBuf(f) EXCEPT !.out = Append(@, c)] ELSE f

\* A character, which is dropped when there is no room for it and the null.
BPUT(f, c) ==
  IF Len(f.out) < f.buflen - 1 THEN [f EXCEPT !.out = Append(@, c)]
  ELSE IF CanGrow(f) THEN [growBuf(f) EXCEPT !.out = Append(@, c)] ELSE f
Put(f, text) == FoldLeft(BPUT, f, text)

Padded(f, fill, fillChar, text) ==
  IF "left" \in f.flags THEN Put(Put(f, text), Repeat(" ", fill))
  ELSE Put(Put(f, Repeat(fillChar, fill)), text)

----------------------------------------------------------------------------
(* Conversions. *)

\* With # the length is the code of the second character, above any width here.
outString(f, str) ==
  LET text == IF str = NULL THEN <<"n", "u", "l", "l">>
              ELSE IF "alternate" \in f.flags THEN Tail(str)
              ELSE IF f.precision >= 0 THEN SubSeq(str, 1, Min({f.precision, Len(str)}))
              ELSE str
      fill == IF str # NULL /\ "alternate" \in f.flags THEN 0 ELSE f.width - Len(text)
  IN Padded(f, fill, " ", text)

RECURSIVE Numeral(_, _, _)
Numeral(value, radix, figures) ==
  IF value < radix THEN <<figures[value + 1]>>
  ELSE Append(Numeral(value \div radix, radix, figures), figures[(value % radix) + 1])

\* Thousands, from the right.
Commas(numeral) ==
  FlattenSeq([i \in DOMAIN numeral |->
    IF i > 1 /\ (Len(numeral) - i + 1) % 3 = 0 THEN <<",", numeral[i]>> ELSE <<numeral[i]>>])

outNum(f, prefix, value, radix) ==
  LET figures == IF "upper" \in f.flags THEN Capital ELSE Figure
      numeral == Numeral(value, radix, figures)
      shown == IF radix # 16 /\ "comma" \in f.flags THEN Commas(numeral) ELSE numeral
      zeros == Repeat("0", f.precision - Len(shown))
      fill == f.width - Len(shown) - Len(prefix) - Len(zeros)
  IN Padded(f, fill, IF "leadZero" \in f.flags THEN "0" ELSE " ", prefix \o zeros \o shown)

\* text is what sprintf makes of the value.  The fill leaves no place for the
\* comma that comes with each third digit, but for those it has counted.
outFloat(f, text, positive) ==
  LET comma == "comma" \in f.flags
      sign == "sign" \in f.flags /\ positive
      fill == f.width - Len(text) - (IF comma THEN (Len(text) - 1) \div 3 ELSE 0)
              - (IF sign THEN 1 ELSE 0)
      shown == IF comma
               THEN FlattenSeq([i \in DOMAIN text |->
                      IF i < Len(text) /\ (Len(text) - i) % 3 = 0 THEN <<text[i], ",">>
                      ELSE <<text[i]>>])
               ELSE text
      f2 == IF sign THEN BPUT(f, "+") ELSE f
  IN Padded(f2, fill, IF "leadZero" \in f.flags THEN "0" ELSE " ", shown)

\* (short), (ushort): the flag h keeps 16 bits.
Signed(f, value) == IF "short" \in f.flags THEN ((value + 32768) % 65536) - 32768 ELSE value
Unsigned(f, value) == IF "short" \in f.flags THEN value % 65536 ELSE value

outSigned(f, value) ==
  LET v == Signed(f, value)
  IN IF v < 0 THEN outNum(f, <<"-">>, -v, 10)
     ELSE outNum(f, IF "leadSpace" \in f.flags THEN <<" ">>
                    ELSE IF "sign" \in f.flags THEN <<"+">> ELSE << >>, v, 10)

outUnsigned(f, c, value) ==
  LET v == Unsigned(f, value)
      alternate == "alternate" \in f.flags /\ v # 0
  IN CASE c = "u" -> outNum(f, << >>, v, 10)
       [] c = "o" -> outNum(f, IF alternate THEN <<"0">> ELSE << >>, v, 8)
       [] c \in {"x", "X"} -> outNum(f, IF alternate THEN <<"0", c>> ELSE << >>, v, 16)

\* The case of STATE_TYPE.
Convert(f, c) ==
  LET arg == f.args[1]
      rest == [f EXCEPT !.args = Tail(@)]
  IN CASE c \in {"e", "g", "f"} -> outFloat(rest, arg.text, arg.positive)
       [] c = "c" -> BPUT(rest, arg)
       [] c = "S" -> outString(rest, websEscapeHtml(arg))
       [] c \in {"w", "s"} -> outString(rest, arg)
       [] c \in {"i", "d"} -> outSigned(rest, arg)
       [] c = "X" -> outUnsigned([rest EXCEPT !.flags = (@ \ {"short", "long"}) \cup {"upper", "int64"}],
                                 c, arg)
       [] c \in {"o", "x", "u"} -> outUnsigned(rest, c, arg)
       [] c = "n" -> [f EXCEPT !.counts = Append(@, Len(f.out))]
       [] c = "p" -> outNum(rest, <<"0", "x">>, arg, 16)
       [] OTHER -> BPUT(f, c)

----------------------------------------------------------------------------
(* The scan. *)

\* classMap.
Class(c) ==
  CASE c = "%" -> "percent"
    [] c \in {"-", "+", " ", "#", ","} -> "modifier"
    [] c = "0" -> "zero"
    [] c = "*" -> "star"
    [] c \in Decimal \ {"0"} -> "digit"
    [] c = "." -> "dot"
    [] c \in {"h", "l", "L"} -> "bits"
    [] c \in {"@", "N", "S", "X", "c", "d", "e", "f", "g", "i", "n", "o", "p", "s", "u", "w",
              "x"} -> "type"
    [] OTHER -> "normal"

\* stateMap, without what leads to STATE_NORMAL.
Normal == {"normal", "type"}
Moves(class) ==
  CASE class = "normal" -> << >>
    [] class = "percent" -> [s \in {"normal", "modifier", "width", "dot", "precision", "bits",
                                    "type"} |-> "percent"]
    [] class = "modifier" -> [s \in {"percent", "modifier"} |-> "modifier"]
    [] class = "zero" -> [percent |-> "modifier", modifier |-> "modifier", width |-> "width",
                          dot |-> "precision", precision |-> "precision"]
    [] class = "star" -> [percent |-> "width", modifier |-> "width", dot |-> "precision"]
    [] class = "digit" -> [percent |-> "width", modifier |-> "width", width |-> "width",
                           dot |-> "precision", precision |-> "precision"]
    [] class = "dot" -> [s \in {"percent", "modifier", "width"} |-> "dot"]
    [] class = "bits" -> [s \in {"percent", "modifier", "width", "dot", "precision", "bits"} |->
                            "bits"]
    [] class = "type" -> [s \in {"percent", "modifier", "width", "dot", "precision", "bits"} |->
                            "type"]
getState(c, state) ==
  LET moves == Moves(Class(c)) IN IF state \in DOMAIN moves THEN moves[state] ELSE "normal"

Flag == [c \in {"+", "-", "#", "0", " ", ","} |->
           CASE c = "+" -> "sign"     [] c = "-" -> "left"      [] c = "#" -> "alternate"
             [] c = "0" -> "leadZero" [] c = " " -> "leadSpace" [] c = "," -> "comma"]
Bits == [L |-> "int64", l |-> "long", h |-> "short"]

\* The number at the start of a text, appended to n, and what is behind it.
Digits(n, text) ==
  LET end == SelectInSeq(text, LAMBDA c : c \notin Decimal)
      k == IF end = 0 THEN Len(text) ELSE end - 1
  IN [n |-> FoldLeft(LAMBDA acc, c : 10 * acc + NumberOf(c), n, SubSeq(text, 1, k)),
      rest |-> SubSeq(text, k + 1, Len(text))]

StarWidth(f) ==
  LET w == f.args[1]
  IN [f EXCEPT !.args = Tail(@), !.width = IF w < 0 THEN -w ELSE w,
               !.flags = IF w < 0 THEN @ \cup {"left"} ELSE @]

RECURSIVE Scan(_, _, _)
Scan(f, spec, old) ==
  LET c == spec[1]
      state == getState(c, old)
      number == Digits(IF state = "width" THEN f.width ELSE f.precision, spec)
      rest == Tail(spec)
  IN IF spec = << >> THEN f
     ELSE CASE state = "normal" -> Scan(BPUT(f, c), rest, state)
            [] state = "percent" ->
                 Scan([f EXCEPT !.precision = -1, !.width = 0, !.flags = {}], rest, state)
            [] state = "modifier" -> Scan([f EXCEPT !.flags = @ \cup {Flag[c]}], rest, state)
            [] state = "width" /\ c = "*" -> Scan(StarWidth(f), rest, state)
            [] state = "width" /\ c # "*" ->
                 Scan([f EXCEPT !.width = number.n], number.rest, state)
            [] state = "dot" -> Scan([f EXCEPT !.precision = 0], rest, state)
            [] state = "precision" /\ c = "*" ->
                 Scan([f EXCEPT !.args = Tail(@), !.precision = f.args[1]], rest, state)
            [] state = "precision" /\ c # "*" ->
                 Scan([f EXCEPT !.precision = number.n], number.rest, state)
            [] state = "bits" -> Scan([f EXCEPT !.flags = @ \cup {Bits[c]}], rest, state)
            [] state = "type" -> Scan(Convert(f, c), rest, state)

sprintfCore(f, spec) == Scan(f, spec, "normal")

\* The text a caller gets and the counts of %n.
Result(f) == [text |-> f.out, counts |-> f.counts, fits |-> Len(f.out) < f.buflen]
sfmt(spec, args) == Result(sprintfCore(Growing(args), spec))
fmt(size, spec, args) ==
  IF size <= 0 THEN [text |-> NULL, counts |-> << >>, fits |-> TRUE]
  ELSE Result(sprintfCore(Fixed(size, args), spec))
=============================================================================
