--------------------------------- MODULE Jst --------------------------------
(***************************************************************************)
(* Pages with scripts (jst.c): jstHandler copies a page to the client and  *)
(* evaluates what stands between <% and %>, one symbol each.  All scripts  *)
(* of a page share one engine, whose global variables are those of the     *)
(* request.                                                                *)
(***************************************************************************)
EXTENDS JsParser

White == Blank \cup {"\n"}

\* skipWhite: text from position i on, without white space at its start.
skipWhite(s) ==
  LET n == SelectInSeq(s, LAMBDA c : c \notin White)
  IN IF n = 0 THEN << >> ELSE SubSeq(s, n, Len(s))

From(s, i) == SubSeq(s, i, Len(s))

\* strtokcmp: what follows word in s behind white space, or NotThere.
NotThere == <<"not there">>
strtokcmp(s, word) ==
  LET t == skipWhite(s)
  IN IF IsPrefix(word, t) THEN From(t, Len(word) + 1) ELSE NotThere

\* The script without language=javascript in front.
Language(s) ==
  LET lang == strtokcmp(s, <<"language">>)
      js == strtokcmp(lang, <<"=", "javascript">>)
  IN IF lang # NotThere /\ js # NotThere THEN js ELSE s

\* A backslash and the line ends behind it become blanks.
JoinLines(s) ==
  [i \in DOMAIN s |->
    IF \E j \in 1 .. i : /\ j < Len(s) /\ s[j] = "\\" /\ s[j + 1] \in {"\r", "\n"}
                         /\ \A k \in j + 1 .. i : s[k] \in {"\r", "\n"}
    THEN " " ELSE s[i]]

Show(ep, text) == [ep EXCEPT !.out = @ \o text]

\* The page from the text `last' on.  An error in a script ends the page; an
\* unterminated script is answered with websError.
RECURSIVE Expand(_, _)
Expand(ep, last) ==
  LET open == SelectInSeq(last, LAMBDA c : c = "<%")
      shown == Show(ep, SubSeq(last, 1, open - 1))
      code == Language(skipWhite(From(last, open + 1)))
      close == SelectInSeq(code, LAMBDA c : c = "%>")
      script == JoinLines(skipWhite(SubSeq(code, 1, close - 1)))
      r == jsEval(shown, script)
  IN IF open = 0 THEN R("page", Show(ep, last))
     ELSE IF close = 0 THEN R("unterminated", shown)
     ELSE IF script = << >> THEN Expand(shown, From(code, close + 1))
     ELSE IF r.st = "ERR" THEN R("error", Show(r.ep, <<"Javascript Error">>))
     ELSE Expand(r.ep, From(code, close + 1))

\* jstHandler.  fault is the call that fails, and `page' is what it reads.
Faults == {"engine", "stat", "open", "memory", "read"}
jstHandler(vars, page, fault) ==
  IF fault \in Faults THEN [reply |-> fault, out |-> << >>, vars |-> vars]
  ELSE LET r == Expand(jsOpenEngine(vars), page)
       IN [reply |-> r.st, out |-> r.ep.out, vars |-> jsCloseEngine(r.ep)]
=============================================================================
