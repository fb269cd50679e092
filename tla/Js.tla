--------------------------------- MODULE Js ---------------------------------
(***************************************************************************)
(* The script interpreter of js.c.  A script is a sequence of symbols: a   *)
(* character, or a word (a keyword or a run of letters), which is never    *)
(* next to another word.  A value is a sequence of symbols as well, whose  *)
(* digits are symbols of their own.  Evaluation has no steps that others   *)
(* see, so each routine is an operator from an engine to an engine:        *)
(*                                                                         *)
(*   in             what is left of the script                             *)
(*   put, putText   the token put back (NONE: none)                        *)
(*   tid, text      the token read last                                    *)
(*   result, error  as in struct Js; error is "" for NULL                  *)
(*   frames         variable tables, frames[1] is the global one           *)
(*   args           arguments of the call that is being parsed             *)
(*   out            what functions wrote                                   *)
(*   stuck          why the call never comes back, or "no"                 *)
(***************************************************************************)
EXTENDS Integers, Sequences, SequencesExt, TLC

CONSTANTS
  Functions,    \* the names in the function table
  LoopMax       \* turns after which a for loop counts as endless

Digits == <<"0", "1", "2", "3", "4", "5", "6", "7", "8", "9">>
Digit == ToSet(Digits)
PositionIn(c, s) == CHOOSE i \in DOMAIN s : s[i] = c
DigitValue == [d \in Digit |-> PositionIn(d, Digits) - 1]
Blank == {" ", "\t", "\r"}
Mark == Blank \cup {"\n", "(", ")", "{", "}", "+", "-", "*", "%", "/", "<", ">",
                    "=", "!", ";", ",", "|", "&", "\"", "'", "\\", "#"}

\* (char) -1, which inputPutback inserts at the end of a script, and '\0'.
EOFCHAR == "\\377"
NUL == "\\0"

\* Symbols that go on with an identifier.
Word(c) == c \notin Mark \cup {EOFCHAR, NUL}

\* A declared variable without a value, and a string read after its release.
Undefined == <<"undefined">>
Freed == <<"freed">>

\* sclone: NULL becomes the empty string.
sclone(s) == IF s = Undefined THEN << >> ELSE s

----------------------------------------------------------------------------
(* Numbers: atoi and itosbuf on the digits of a value. *)

isNumeric(s) == \A i \in DOMAIN s : s[i] \in Digit

DigitsOf(s) == SelectInSeq(s, LAMBDA c : c \notin Digit)
atoi(s) ==
  LET n == IF DigitsOf(s) = 0 THEN Len(s) ELSE DigitsOf(s) - 1
  IN FoldLeft(LAMBDA acc, c : 10 * acc + DigitValue[c], 0, SubSeq(s, 1, n))

RECURSIVE Decimal(_)
Decimal(n) ==
  IF n < 10 THEN <<Digits[n + 1]>> ELSE Decimal(n \div 10) \o <<Digits[(n % 10) + 1]>>
itosbuf(n) == IF n < 0 THEN <<"-">> \o Decimal(-n) ELSE Decimal(n)

\* strcmp, in an order of the symbols that puts digits before words.
Order == <<NUL, "\n", " ", "-">> \o Digits \o <<"A", "a", "b", "c">>
Rank(c) == PositionIn(c, Order)
RECURSIVE strcmp(_, _)
strcmp(s, t) ==
  IF s = << >> \/ t = << >> THEN Len(s) - Len(t)
  ELSE IF Head(s) # Head(t) THEN Rank(Head(s)) - Rank(Head(t))
  ELSE strcmp(Tail(s), Tail(t))

----------------------------------------------------------------------------
(* Variables. *)

jsError(ep, message) == [ep EXCEPT !.error = message]
setResult(ep, s) == [ep EXCEPT !.result = sclone(s)]

\* Index of the frame that has the variable (0 is global), or -1.
jsGetVar(ep, id) ==
  LET top == Len(ep.frames)
  IN IF id \in DOMAIN ep.frames[top] THEN top - 1
     ELSE IF id \in DOMAIN ep.frames[1] THEN 0 ELSE -1
ValueOf(ep, id) == ep.frames[jsGetVar(ep, id) + 1][id]

Enter(ep, frame, id, value) ==
  [ep EXCEPT !.frames[frame] = (id :> value) @@ @]
jsSetLocalVar(ep, id, value) == Enter(ep, Len(ep.frames), id, value)
jsSetVar(ep, id, value) == Enter(ep, Len(ep.frames), id, value)
jsSetGlobalVar(ep, id, value) == Enter(ep, 1, id, value)

\* The table in which parseStmt stores an assignment.
Assign(ep, id, value) ==
  IF jsGetVar(ep, id) > 0 THEN jsSetLocalVar(ep, id, value)
  ELSE jsSetGlobalVar(ep, id, value)

jsOpenEngine(variables) ==
  jsSetGlobalVar(
    [in |-> << >>, put |-> "NONE", putText |-> << >>, tid |-> "ERR", text |-> << >>,
     result |-> << >>, error |-> "", frames |-> <<variables>>, args |-> << >>,
     out |-> << >>, stuck |-> "no"],
    <<"null">>, Undefined)
\* The variables of a table that the caller gave stay with the caller.
jsCloseEngine(ep) == ep.frames[1]
jsOpenBlock(ep) == [ep EXCEPT !.frames = Append(@, << >>)]
jsCloseBlock(ep) == [ep EXCEPT !.frames = Front(@)]

----------------------------------------------------------------------------
(* Lexical analysis.  A scan returns the engine with tid and text.  EXPR_* *)
(* codes are their names; those of && and || are the codes of < and <=     *)
(* (js.h:52, 72).                                                          *)

COND_AND == "LESS"
COND_OR == "LESSEQ"

Single == [c \in {"(", ")", "{", "}", ";", ","} |->
             CASE c = "(" -> "LPAREN" [] c = ")" -> "RPAREN" [] c = "{" -> "LBRACE"
               [] c = "}" -> "RBRACE" [] c = ";" -> "SEMI"   [] c = "," -> "COMMA"]

\* Operators of one character, and of two.
Operator ==
  "+" :> "PLUS" @@ "-" :> "MINUS" @@ "*" :> "MUL" @@ "%" :> "MOD" @@ "/" :> "DIV"
  @@ "<" :> "LESS" @@ ">" :> "GREATER" @@ "!" :> "BOOL_COMP"
Pair ==
  <<"+", "+">> :> <<"INC_DEC", "INC">> @@ <<"-", "-">> :> <<"INC_DEC", "DEC">>
  @@ <<"<", "<">> :> <<"EXPR", "LSHIFT">> @@ <<"<", "=">> :> <<"EXPR", "LESSEQ">>
  @@ <<">", ">">> :> <<"EXPR", "RSHIFT">> @@ <<">", "=">> :> <<"EXPR", "GREATEREQ">>
  @@ <<"=", "=">> :> <<"EXPR", "EQ">> @@ <<"!", "=">> :> <<"EXPR", "NOTEQ">>
  @@ <<"|", "|">> :> <<"LOGICAL", COND_OR>> @@ <<"&", "&">> :> <<"LOGICAL", COND_AND>>

CommentMark == {<<"/", "/">>, <<"/", "*">>}

\* Characters after which the scan asks for one more, and fails without it.
Longer == {"+", "-", "/", "<", ">", "=", "!", "|", "&"}

Token(ep, tid, text, rest) == [ep EXCEPT !.tid = tid, !.text = text, !.in = rest]
LexError(ep, message, rest) == Token(jsError(ep, message), "ERR", << >>, rest)

\* inputPutback(c), where c is -1 at the end of the script.
inputPutback(rest) == IF rest = << >> THEN <<EOFCHAR>> ELSE rest

\* What is left behind a comment of a style, or NoEnd.
NoEnd == <<"no end">>
RECURSIVE Comment(_, _)
Comment(in, style) ==
  IF in = << >> \/ in = <<"*">> THEN NoEnd
  ELSE IF in[1] = "\n" /\ style = "/" THEN Tail(in)
  ELSE IF in[1] # "*" THEN Comment(Tail(in), style)
  ELSE IF in[2] = (IF style = "/" THEN "\n" ELSE "/") THEN SubSeq(in, 3, Len(in))
  ELSE Comment(SubSeq(in, 3, Len(in)), style)

\* charConvert: value and rest of up to n digits of a base.
Letters == <<"a", "b", "c", "d", "e", "f">>
HexValue == DigitValue @@ [c \in ToSet(Letters) |-> 9 + PositionIn(c, Letters)]
RECURSIVE charConvert(_, _, _, _)
charConvert(in, base, n, value) ==
  IF n = 0 \/ in = << >> THEN [value |-> value, rest |-> in]
  ELSE IF in[1] \notin DOMAIN HexValue \/ HexValue[in[1]] >= base
    THEN [value |-> value, rest |-> in]
  ELSE charConvert(Tail(in), base, n - 1, base * value + HexValue[in[1]])

\* The symbol of a character code.
Char(n) ==
  LET code == n % 256
  IN IF code = 0 THEN NUL
     ELSE IF code \in 48 .. 57 THEN Digits[code - 47]
     ELSE IF code = 65 THEN "A" ELSE IF code \in 97 .. 99 THEN Letters[code - 96]
     ELSE "#" \o ToString(code)

Escapes == "n" :> "\n" @@ "b" :> "\\b" @@ "f" :> "\f" @@ "r" :> "\r" @@ "t" :> "\t"
           @@ "'" :> "'" @@ "\"" :> "\"" @@ "\\" :> "\\"

\* The character behind a backslash: symbol and rest, or the symbol Bad.
Bad == "invalid escape"
Escape(in) ==
  IF in = << >> THEN [char |-> Bad, rest |-> in]
  ELSE IF in[1] \in Digit
    THEN LET o == charConvert(in, 8, 3, 0) IN [char |-> Char(o.value), rest |-> o.rest]
  ELSE IF in[1] = "x"
    THEN LET h == charConvert(Tail(in), 16, 2, 0)
         IN [char |-> Char(h.value), rest |-> h.rest]
  ELSE IF in[1] = "u"
    THEN LET h == charConvert(Tail(in), 16, 2, 0)
             l == charConvert(h.rest, 16, 2, 0)
         IN [char |-> Char(h.value * 16 + l.value), rest |-> l.rest]
  ELSE [char |-> IF in[1] \in DOMAIN Escapes THEN Escapes[in[1]] ELSE Bad,
        rest |-> Tail(in)]

\* A token's text as the C string that its readers see.
CString(text) ==
  LET end == SelectInSeq(text, LAMBDA c : c = NUL)
  IN IF end = 0 THEN text ELSE SubSeq(text, 1, end - 1)

RECURSIVE Quoted(_, _, _, _)
Quoted(ep, in, quote, text) ==
  IF in = << >>
    THEN LexError(ep, IF text = << >> THEN "Syntax Error" ELSE "Unmatched Quote", in)
  ELSE IF in[1] = quote THEN Token(ep, "LITERAL", CString(text), Tail(in))
  ELSE IF in[1] # "\\" THEN Quoted(ep, Tail(in), quote, Append(text, in[1]))
  ELSE LET e == Escape(Tail(in))
       IN IF e.char = Bad THEN LexError(ep, "Invalid Escape Sequence", e.rest)
          ELSE Quoted(ep, e.rest, quote, Append(text, e.char))

Number(ep, in) ==
  LET end == SelectInSeq(in, LAMBDA c : c \notin Digit)
      n == IF end = 0 THEN Len(in) ELSE end - 1
  IN Token(ep, "LITERAL", SubSeq(in, 1, n), inputPutback(SubSeq(in, n + 1, Len(in))))

Keyword == <<"if">> :> "IF" @@ <<"else">> :> "ELSE" @@ <<"var">> :> "VAR"
           @@ <<"for">> :> "FOR" @@ <<"return">> :> "RETURN"

\* The character behind a keyword is lost, but for that behind return.
AfterKeyword(word, rest) ==
  IF rest = << >> \/ (word = <<"return">> /\ rest[1] \in {";", "("}) THEN rest
  ELSE Tail(rest)

SkipWhite(in) ==
  LET n == SelectInSeq(in, LAMBDA c : c \notin Blank \cup {"\n"})
  IN IF n = 0 THEN << >> ELSE SubSeq(in, n, Len(in))

\* An identifier, a function name or, at the start of a statement, a keyword.
Identifier(ep, in, state) ==
  LET end == SelectInSeq(Tail(in), LAMBDA c : ~ Word(c) /\ c # "\\")
      n == IF end = 0 THEN Len(in) ELSE end
      rest == SubSeq(in, n + 1, Len(in))
      word == SelectSeq(SubSeq(in, 1, n), LAMBDA c : c # "\\")
      next == SkipWhite(rest)
  IN IF word = << >> \/ ~ Word(word[1]) \/ word[1] \in Digit
       THEN LexError(ep, "Invalid identifier", IF rest = << >> THEN rest ELSE Tail(rest))
     ELSE IF state = "STMT" /\ word \in DOMAIN Keyword
       THEN Token(ep, Keyword[word], word, AfterKeyword(word, rest))
     ELSE Token(ep, IF next # << >> /\ next[1] = "(" THEN "FUNCTION" ELSE "ID", word,
                inputPutback(next))

RECURSIVE Scan(_, _, _)
Scan(ep, in, state) ==
  IF in = << >> THEN Token(ep, "EOF", << >>, in)
  ELSE LET c == in[1]
           two == IF Len(in) > 1 THEN SubSeq(in, 1, 2) ELSE <<c>>
       IN
    CASE c \in Blank -> Scan(ep, Tail(in), state)
      [] c = "\n" -> Token(ep, "NEWLINE", << >>, Tail(in))
      [] c \in DOMAIN Single -> Token(ep, Single[c], <<c>>, Tail(in))
      [] c \in Longer /\ two = <<c>> -> LexError(ep, "Syntax Error", << >>)
      [] two \in DOMAIN Pair ->
           Token(ep, Pair[two][1], <<Pair[two][2]>>, SubSeq(in, 3, Len(in)))
      [] two \in CommentMark ->
           LET rest == Comment(SubSeq(in, 3, Len(in)), two[2])
           IN IF rest = NoEnd THEN LexError(ep, "Syntax Error", << >>)
              ELSE Scan(ep, rest, state)
      [] c \in {"|", "&"} /\ two \notin DOMAIN Pair ->
           LexError(ep, "Syntax Error", SubSeq(in, 3, Len(in)))
      [] c = "=" /\ two \notin DOMAIN Pair -> Token(ep, "ASSIGNMENT", << >>, Tail(in))
      [] c \in DOMAIN Operator /\ two \notin DOMAIN Pair \cup CommentMark ->
           Token(ep, "EXPR", <<Operator[c]>>, Tail(in))
      [] c \in {"\"", "'"} -> Quoted(ep, Tail(in), c, << >>)
      [] c \in Digit -> Number(ep, in)
      [] OTHER -> Identifier(ep, in, state)

jsLexGetToken(ep, state) ==
  IF ep.put = "NONE" THEN Scan(ep, ep.in, state)
  ELSE [ep EXCEPT !.tid = ep.put, !.text = ep.putText, !.put = "NONE"]

\* A token with the id TOK_ERR (-1) is not put back, as only ids above 0 count.
jsLexPutbackToken(ep, tid) ==
  [ep EXCEPT !.put = IF tid = "ERR" THEN "NONE" ELSE tid, !.putText = ep.text]

RECURSIVE jsRemoveNewlines(_, _)
jsRemoveNewlines(ep, state) ==
  LET next == jsLexGetToken(ep, state)
  IN IF next.tid = "NEWLINE" THEN jsRemoveNewlines(next, state)
     ELSE jsLexPutbackToken(next, next.tid)

jsLexOpenScript(ep, script) == [ep EXCEPT !.in = script, !.put = "NONE"]
jsLexSaveInputState(ep) == [in |-> ep.in, put |-> ep.put, putText |-> ep.putText]
jsLexRestoreInputState(ep, saved) ==
  [ep EXCEPT !.in = saved.in, !.put = saved.put, !.putText = saved.putText]
=============================================================================
