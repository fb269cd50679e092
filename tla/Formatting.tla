------------------------------ MODULE Formatting ----------------------------
(***************************************************************************)
(* What formatted printing promises: a format is a sequence of texts       *)
(* [text] and conversions [flags, width, star, precision, bits, type, arg],*)
(* how it is written down, and what it shows.  star: the width is given as *)
(* an argument.                                                            *)
(***************************************************************************)
EXTENDS Formats

IsText(item) == "text" \in DOMAIN item

FlagSign == [sign |-> "+", left |-> "-", alternate |-> "#", leadZero |-> "0",
             leadSpace |-> " ", comma |-> ","]
Written(n) == IF n < 10 THEN <<Figure[n + 1]>> ELSE <<Figure[(n \div 10) + 1], Figure[(n % 10) + 1]>>

WriteConversion(v) ==
  <<"%">> \o SetToSortSeq({FlagSign[x] : x \in v.flags}, LAMBDA a, b : TRUE)
  \o (IF v.star THEN <<"*">> ELSE IF v.width = 0 THEN << >> ELSE Written(v.width))
  \o (IF v.precision < 0 THEN << >> ELSE <<".">> \o Written(v.precision))
  \o v.bits \o <<v.type>>
\* A percent sign is doubled.
Doubled(text) ==
  FlattenSeq([i \in DOMAIN text |-> IF text[i] = "%" THEN <<"%", "%">> ELSE <<text[i]>>])
WriteFormat(items) ==
  FlattenSeq([i \in DOMAIN items |-> IF IsText(items[i]) THEN Doubled(items[i].text)
                                     ELSE WriteConversion(items[i])])
Args(items) ==
  FlattenSeq([i \in DOMAIN items |->
    IF IsText(items[i]) THEN << >>
    ELSE (IF items[i].star THEN <<items[i].width>> ELSE << >>)
         \o (IF items[i].type = "n" THEN << >> ELSE <<items[i].arg>>)])

\* What stands in front of a number, and its digits: as printf has them (the
\* style that goahead.h:1204 names), and the comma besides.
Prefix(v) ==
  CASE v.type = "d" /\ v.arg < 0 -> <<"-">>
    [] v.type = "d" /\ v.arg >= 0 /\ "sign" \in v.flags -> <<"+">>
    [] v.type = "d" /\ v.arg >= 0 /\ "sign" \notin v.flags /\ "leadSpace" \in v.flags -> <<" ">>
    [] v.type = "x" /\ "alternate" \in v.flags /\ v.arg # 0 -> <<"0", "x">>
    [] OTHER -> << >>
Number(v) ==
  CASE v.arg = 0 /\ v.precision = 0 -> << >>
    [] v.type = "d" -> LET n == Numeral(IF v.arg < 0 THEN -v.arg ELSE v.arg, 10, Figure)
                       IN IF "comma" \in v.flags THEN Commas(n) ELSE n
    [] v.type = "x" -> Numeral(v.arg, 16, Figure)
Width(v) == IF v.width < 0 THEN -v.width ELSE v.width
IsLeft(v) == "left" \in v.flags \/ (v.star /\ v.width < 0)

\* The least number of digits: the precision, or what fills the width with zeros.
LeastDigits(v) ==
  IF "leadZero" \in v.flags /\ ~IsLeft(v) /\ v.precision < 0 THEN Width(v) - Len(Prefix(v))
  ELSE v.precision

Body(v) ==
  CASE v.type \in {"d", "x"} -> Prefix(v) \o Repeat("0", LeastDigits(v) - Len(Number(v))) \o Number(v)
    [] v.type = "s" ->
         LET s == IF v.arg = NULL THEN <<"n", "u", "l", "l">> ELSE v.arg
         IN IF v.precision < 0 \/ v.precision > Len(s) \/ v.arg = NULL THEN s
            ELSE SubSeq(s, 1, v.precision)

\* At least as wide as the width.
Shown(v) ==
  LET space == Repeat(" ", Width(v) - Len(Body(v)))
  IN IF IsLeft(v) THEN Body(v) \o space ELSE space \o Body(v)

ShownUpTo(items, k) ==
  FlattenSeq([i \in 1 .. k |-> IF IsText(items[i]) THEN items[i].text
                               ELSE IF items[i].type = "n" THEN << >> ELSE Shown(items[i])])

\* A %n counts what is in the buffer before it.
Counts(items, text) ==
  FlattenSeq([i \in DOMAIN items |->
    IF ~ IsText(items[i]) /\ items[i].type = "n"
    THEN <<Min({Len(text), Len(ShownUpTo(items, i))})>> ELSE << >>])

\* size 0: a buffer that grows; otherwise what fits is shown, and nothing else.
FormatsAs(out, items, size) ==
  LET whole == ShownUpTo(items, Len(items))
      cut == IF size = 0 THEN whole ELSE SubSeq(whole, 1, Min({size - 1, Len(whole)}))
  IN out.fits /\ out.text = cut /\ out.counts = Counts(items, cut)

\* An escaped text has no character of HTML but those of its entities, reads
\* back as the text, and fits the memory that is asked for.
RECURSIVE ReadHtml(_)
ReadHtml(text) ==
  IF text = << >> THEN << >>
  ELSE IF \E c \in DOMAIN Entity : IsPrefix(Entity[c], text)
    THEN LET c == CHOOSE e \in DOMAIN Entity : IsPrefix(Entity[e], text)
         IN <<c>> \o ReadHtml(SubSeq(text, Len(Entity[c]) + 1, Len(text)))
  ELSE <<text[1]>> \o ReadHtml(Tail(text))
EscapesAs(out, html) ==
  /\ \A i \in DOMAIN out : out[i] \notin {"<", ">", "(", ")", "\"", "'"}
  /\ ReadHtml(out) = html
  /\ Len(out) < EscapeSize(html)
=============================================================================
