------------------------------- MODULE Strings ------------------------------
(***************************************************************************)
(* The string routines of runtime.c.  A string is a sequence of            *)
(* characters, or NULL.  A routine that changes its argument in place      *)
(* returns what is left of it.                                             *)
(***************************************************************************)
EXTENDS Integers, Sequences, SequencesExt, FiniteSetsExt

NULL == <<"NULL">>

\* The characters that are told apart, in their order.
Ascii == <<"\t", "\n", "\r", " ", "\"", "&", "'", ",", "-", "/", "0", "1", "2", "3", "8", "9", ":", "=",
           "A", "B", "C", "F", "X", "\\", "_", "a", "b", "c", "f", "g", "x">>
Code(s, i) == IF i > Len(s) THEN 0 ELSE SelectInSeq(Ascii, LAMBDA c : c = s[i])
Lower == "A" :> "a" @@ "B" :> "b" @@ "C" :> "c" @@ "F" :> "f" @@ "X" :> "x"
tolower(c) == IF c \in DOMAIN Lower THEN Lower[c] ELSE c
slower(s) == [i \in DOMAIN s |-> tolower(s[i])]

slen(s) == IF s = NULL THEN 0 ELSE Len(s)
Sign(n) == IF n > 0 THEN 1 ELSE IF n < 0 THEN -1 ELSE 0

----------------------------------------------------------------------------
(* Comparing.  The loop ends at the end of s1, after n characters or where *)
(* the strings differ. *)

Compare(s1, s2, n) ==
  LET differ == {i \in 1 .. Min({n, Len(s1)}) : Code(s1, i) # Code(s2, i)}
      first == Min(differ)
  IN IF differ # {} THEN Sign(Code(s1, first) - Code(s2, first))
     ELSE IF Len(s1) >= n \/ Len(s1) = Len(s2) THEN 0 ELSE -1

sncmp(s1, s2, n) ==
  IF s1 = NULL /\ s2 = NULL THEN 0 ELSE IF s1 = NULL THEN -1 ELSE IF s2 = NULL THEN 1
  ELSE Compare(s1, s2, n)
sncaselesscmp(s1, s2, n) ==
  IF s1 = NULL \/ s2 = NULL THEN -1 ELSE Compare(slower(s1), slower(s2), n)
scmp(s1, s2) == sncmp(s1, s2, Max({slen(s1), slen(s2)}))
scaselesscmp(s1, s2) == sncaselesscmp(s1, s2, Max({slen(s1), slen(s2)}))
smatch(s1, s2) == scmp(s1, s2) = 0

----------------------------------------------------------------------------
(* Copying into destMax bytes: [rc, dest], dest NULL if it is not written. *)

scopy(destMax, src) ==
  IF destMax <= Len(src) THEN [rc |-> -1, dest |-> NULL] ELSE [rc |-> Len(src), dest |-> src]
sncopy(destMax, src, count) ==
  LET len == Min({Len(src), count})
  IN IF destMax <= len THEN [rc |-> -1, dest |-> NULL]
     ELSE [rc |-> len, dest |-> SubSeq(src, 1, len)]

----------------------------------------------------------------------------
(* Taking apart. *)

\* How many of the first (strspn) or last characters are of a set.
Leading(s, set) == SelectInSeq(s \o <<"">>, LAMBDA c : c \notin set) - 1
Trailing(s, set) == Leading(Reverse(s), set)
From(s, i) == SubSeq(s, i, Len(s))

\* [token, last]: the next token, and where to go on; NULL if there is none.
stok(str, delim) ==
  LET start == From(str, Leading(str, delim) + 1)
      end == SelectInSeq(start, LAMBDA c : c \in delim)
      behind == From(start, end + 1)
  IN IF str = NULL \/ start = << >> THEN [token |-> NULL, last |-> NULL]
     ELSE IF end = 0 THEN [token |-> start, last |-> NULL]
     ELSE [token |-> SubSeq(start, 1, end - 1), last |-> From(behind, Leading(behind, delim) + 1)]
\* The loop that stok is called in.
RECURSIVE Tokens(_, _)
Tokens(str, delim) ==
  LET t == stok(str, delim) IN IF t.token = NULL THEN << >> ELSE <<t.token>> \o Tokens(t.last, delim)

strim(str, set, where) ==
  LET s == IF "start" \in where THEN From(str, Leading(str, set) + 1) ELSE str
  IN IF str = NULL THEN NULL
     ELSE IF "end" \in where THEN SubSeq(s, 1, Len(s) - Trailing(s, set)) ELSE s

----------------------------------------------------------------------------
(* Numbers, of 32 bits; TLC's integers have no room for more than 31. *)

Digit == "0" :> 0 @@ "1" :> 1 @@ "2" :> 2 @@ "3" :> 3 @@ "8" :> 8 @@ "9" :> 9
HexDigit == Digit @@ "a" :> 10 @@ "b" :> 11 @@ "c" :> 12 @@ "f" :> 15
                  @@ "A" :> 10 @@ "B" :> 11 @@ "C" :> 12 @@ "F" :> 15
Value(s, digits, base) ==
  FoldLeft(LAMBDA v, c : (v * base) + digits[c], 0, SubSeq(s, 1, Leading(s, DOMAIN digits)))
HasPrefix(s) == Len(s) > 1 /\ s[1] = "0" /\ s[2] \in {"x", "X"}
hextoi(s) == Value(IF HasPrefix(s) THEN From(s, 3) ELSE s, HexDigit, 16)
atoi(s) ==
  LET n == From(s, Leading(s, {" ", "\t", "\n", "\r"}) + 1)
  IN IF n # << >> /\ n[1] = "-" THEN -Value(Tail(n), Digit, 10) ELSE Value(n, Digit, 10)
strtoi(s) == IF HasPrefix(s) THEN hextoi(From(s, 3)) ELSE atoi(s)

----------------------------------------------------------------------------
(* websParseArgs: the arguments; without argv only their number is used. *)

\* One argument, from src on: [arg, src], its text and where the next begins.
RECURSIVE Arg(_, _, _, _)
Arg(args, src, quote, text) ==
  LET c == args[src]
      escape == c = "\\" /\ src < Len(args) /\ args[src + 1] \in {"\\", "\"", "'"}
      ends == IF quote = "" THEN c = " " ELSE c = quote /\ args[src - 1] # "\\"
  IN IF src > Len(args) THEN [arg |-> text, src |-> src]
     ELSE IF escape THEN Arg(args, src + 2, quote, Append(text, args[src + 1]))
     ELSE IF ends THEN [arg |-> text, src |-> src + 1]
     ELSE Arg(args, src + 1, quote, Append(text, c))

RECURSIVE ArgsFrom(_, _, _)
ArgsFrom(args, src, maxArgc) ==
  LET start == src + Leading(From(args, src), {" ", "\t", "\n", "\r"})
      quoted == args[start] \in {"\"", "'"}
      arg == IF quoted THEN Arg(args, start + 1, args[start], << >>) ELSE Arg(args, start, "", << >>)
  IN IF start > Len(args) \/ maxArgc = 0 THEN << >>
     ELSE <<arg.arg>> \o ArgsFrom(args, arg.src, maxArgc - 1)
websParseArgs(args, maxArgc) == ArgsFrom(args, 1, maxArgc)

=============================================================================
