------------------------------ MODULE JsParser ------------------------------
(***************************************************************************)
(* The recursive descent parser of js.c, which evaluates while it parses.  *)
(* exe is FLAGS_EXE: without it a piece of script is parsed only.  A       *)
(* parsing routine returns the state the program returns, without its      *)
(* STATE_, and the engine.                                                 *)
(***************************************************************************)
EXTENDS Js

R(st, ep) == [st |-> st, ep |-> ep]

\* The routine never comes back: its callers do nothing any more.
Stuck(ep, why) == R("ERR", [ep EXCEPT !.stuck = why])

First(s) == IF s = << >> THEN "none" ELSE s[1]

----------------------------------------------------------------------------
(* Operators.  A result is [ok, ep]. *)

Truth(b) == IF b THEN 1 ELSE 0
Good(ep, value) == [ok |-> TRUE, ep |-> setResult(ep, value)]

\* Mutated evalCond: a number is true when it starts with a 1, as if has it.
evalCondFirstDigit(ep, lhs, rel, rhs) ==
  IF rel = COND_AND THEN Good(ep, itosbuf(Truth(lhs[1] = "1" /\ rhs[1] = "1")))
  ELSE Good(ep, itosbuf(Truth(lhs[1] = "1" \/ rhs[1] = "1")))

evalCond(ep, lhs, rel, rhs) ==
  IF First(lhs) \notin Digit \/ First(rhs) \notin Digit
    THEN Good(jsError(ep, "Conditional must be numeric"), itosbuf(0))
  ELSE IF rel = COND_AND THEN Good(ep, itosbuf(Truth(atoi(lhs) # 0 /\ atoi(rhs) # 0)))
  ELSE IF rel = COND_OR THEN Good(ep, itosbuf(Truth(atoi(lhs) # 0 \/ atoi(rhs) # 0)))
  ELSE [ok |-> FALSE, ep |-> jsError(ep, "Bad operator")]

Compare(rel, sign) ==
  CASE rel = "LESS" -> sign < 0      [] rel = "LESSEQ" -> sign <= 0
    [] rel = "GREATER" -> sign > 0   [] rel = "GREATEREQ" -> sign >= 0
    [] rel = "EQ" -> sign = 0        [] rel = "NOTEQ" -> sign # 0
Comparison == {"LESS", "LESSEQ", "GREATER", "GREATEREQ", "EQ", "NOTEQ"}
Arithmetic == {"PLUS", "INC", "MINUS", "DEC", "MUL", "DIV", "MOD", "LSHIFT", "RSHIFT",
               "BOOL_COMP"}

Compute(l, rel, r) ==
  CASE rel = "PLUS" -> l + r     [] rel = "INC" -> l + 1
    [] rel = "MINUS" -> l - r    [] rel = "DEC" -> l - 1
    [] rel = "MUL" -> l * r
    [] rel = "DIV" -> IF r = 0 THEN 0 ELSE l \div r
    [] rel = "MOD" -> IF r = 0 THEN 0 ELSE l % r
    [] rel = "LSHIFT" -> l * 2^r [] rel = "RSHIFT" -> l \div 2^r
    [] rel = "BOOL_COMP" -> Truth(r = 0)

evalExpr(ep, lhs, rel, rhs) ==
  LET l == atoi(lhs)
      r == atoi(rhs)
      numeric == isNumeric(lhs) /\ isNumeric(rhs)
  IN IF numeric /\ rel \in Comparison THEN Good(ep, itosbuf(Truth(Compare(rel, l - r))))
     ELSE IF numeric /\ rel \in Arithmetic THEN Good(ep, itosbuf(Compute(l, rel, r)))
     ELSE IF rel \in Comparison THEN Good(ep, itosbuf(Truth(Compare(rel, strcmp(lhs, rhs)))))
     ELSE IF rel = "PLUS" THEN Good(ep, lhs \o rhs)
     ELSE [ok |-> FALSE, ep |-> jsError(ep, "Bad operator")]

----------------------------------------------------------------------------
(* Functions.  write is websJstWrite: between two arguments it writes two  *)
(* bytes of the string " ".                                                *)

Written(args) ==
  FlattenSeq([i \in DOMAIN args |-> IF i = 1 THEN args[i] ELSE <<" ", NUL>> \o args[i]])

evalFunction(ep, fname) ==
  IF fname \notin Functions
    THEN [ok |-> FALSE, ep |-> jsError(ep, "Undefined procedure")]
  ELSE [ok |-> TRUE, ep |-> [ep EXCEPT !.out = @ \o Written(ep.args)]]

----------------------------------------------------------------------------
RECURSIVE parse(_, _, _)
RECURSIVE parseStmt(_, _, _)
RECURSIVE parseExprFrom(_, _, _, _, _)
RECURSIVE parseCondFrom(_, _, _, _)
RECURSIVE parseFunctionArgs(_, _)
RECURSIVE parseDeclaration(_, _)
RECURSIVE Block(_, _)
RECURSIVE Loop(_, _, _, _)

(* Expressions. *)

\* One turn of parseExpr's loop and the rest: lhs rel are what was read, tid
\* is the token of rel.
parseExprFrom(ep, lhs, rel, tid, exe) ==
  LET want == IF tid = "LOGICAL" THEN "RELEXP" ELSE "EXPR"
      term == parse(ep, want, exe)
      value == term.ep.result
      done == IF rel = "none" THEN Good(term.ep, value)
              ELSE IF tid = "LOGICAL" THEN evalCond(term.ep, lhs, rel, value)
              ELSE evalExpr(term.ep, lhs, rel, value)
      next == jsLexGetToken(done.ep, want \o "_DONE")
  IN IF term.st # want \o "_DONE" THEN R("ERR", term.ep)
     ELSE IF ~ done.ok THEN R("ERR", done.ep)
     ELSE IF next.tid \notin {"EXPR", "INC_DEC", "LOGICAL"}
       THEN R("RELEXP_DONE", jsLexPutbackToken(next, next.tid))
     ELSE IF want = "RELEXP" THEN R("RELEXP_DONE", next)
     ELSE parseExprFrom(next, next.result, First(next.text), next.tid, exe)

parseExpr(ep, exe) == parseExprFrom(setResult(ep, << >>), << >>, "none", "none", exe)

parseCondFrom(ep, lhs, operator, exe) ==
  LET side == parse(ep, "RELEXP", exe)
      done == IF operator = "none" THEN Good(side.ep, side.ep.result)
              ELSE evalCond(side.ep, lhs, operator, side.ep.result)
      next == jsLexGetToken(done.ep, "RELEXP_DONE")
      back == jsLexPutbackToken(next, next.tid)
  IN IF side.st # "RELEXP_DONE" THEN R("ERR", side.ep)
     ELSE IF ~ done.ok THEN R("ERR", done.ep)
     ELSE IF next.tid \in {"RPAREN", "SEMI"} THEN R("COND_DONE", back)
     ELSE IF next.tid = "LOGICAL"
       THEN parseCondFrom(next, next.result, First(next.text), exe)
     ELSE parseCondFrom(back, back.result, operator, exe)

parseCond(ep, exe) == parseCondFrom(setResult(ep, << >>), << >>, "none", exe)

parseFunctionArgs(ep, exe) ==
  LET arg == parse(ep, "RELEXP", exe)
      next == jsLexGetToken([arg.ep EXCEPT !.args = Append(@, arg.ep.result)], "RELEXP_DONE")
  IN IF arg.st # "RELEXP_DONE" THEN arg
     ELSE IF next.tid = "COMMA" THEN parseFunctionArgs(next, exe)
     ELSE R("ARG_LIST_DONE", jsLexPutbackToken(next, next.tid))

parseDeclaration(ep, exe) ==
  LET name == jsLexGetToken(ep, "DEC_LIST")
      dec == parse(jsLexPutbackToken(name, name.tid), "DEC", exe)
      next == jsLexGetToken(dec.ep, "DEC_LIST")
  IN IF name.tid # "ID" THEN R("ERR", name)
     ELSE IF dec.st # "DEC_DONE" THEN R("ERR", dec.ep)
     ELSE IF next.tid = "SEMI" THEN R("DEC_LIST_DONE", next)
     ELSE IF next.tid = "COMMA" THEN parseDeclaration(next, exe)
     ELSE R("ERR", next)

----------------------------------------------------------------------------
(* The cases of parseStmt.  Each returns the state in which the loop of    *)
(* parseStmt ends, or the value of a return statement, which is marked     *)
(* with a state that doneParse does not know ("RET", "..._DONE").          *)

\* x = e
Assignment(ep, id, state, exe) ==
  LET e == parse(ep, "RELEXP", exe)
      value == e.ep.result
  IN IF e.st # "RELEXP_DONE" THEN R("ERR", e.ep)
     ELSE IF ~ exe THEN R(state, e.ep)
     ELSE R(state, IF state = "DEC" THEN jsSetLocalVar(e.ep, id, value)
                   ELSE Assign(e.ep, id, value))

\* x++ and x--.  A value that evalExpr refuses does not end the loop.
IncDec(ep, id, state, exe) ==
  LET value == ValueOf(ep, id)
      e == evalExpr(setResult(ep, value), value, First(ep.text), <<"1">>)
  IN IF ~ exe THEN R(state, ep)
     ELSE IF jsGetVar(ep, id) < 0 THEN R("ERR", jsError(ep, "Undefined variable"))
     ELSE IF value = Undefined THEN Stuck(ep, "null")
     ELSE IF ~ e.ok THEN parseStmt(e.ep, "ERR", exe)
     ELSE R(state, Assign(e.ep, id, e.ep.result))

\* x in a declaration: declared whether or not it is executed.  In the frame
\* that has it, its old value is released and then read.
Declare(ep, id, state) ==
  LET old == IF jsGetVar(ep, id) < 0 THEN Undefined
             ELSE IF Len(ep.frames) = 1 /\ ValueOf(ep, id) # Undefined THEN Freed
             ELSE ValueOf(ep, id)
  IN IF jsGetVar(ep, id) > 0 THEN R("ERR", jsError(ep, "Variable already declared"))
     ELSE R(state, jsLexPutbackToken(setResult(jsSetLocalVar(ep, id, Undefined), old), ep.tid))

\* x in an expression.
Reference(ep, id, state, exe) ==
  IF exe /\ jsGetVar(ep, id) < 0 THEN R("ERR", jsError(ep, "Undefined variable"))
  ELSE R(state, jsLexPutbackToken(
                  setResult(ep, IF exe THEN ValueOf(ep, id) ELSE Undefined), ep.tid))

Id(ep, state, exe) ==
  LET id == ep.text
      next == jsLexGetToken(ep, state)
  IN CASE next.tid = "ASSIGNMENT" -> Assignment(next, id, state, exe)
       [] next.tid = "INC_DEC" -> IncDec(next, id, state, exe)
       [] next.tid \notin {"ASSIGNMENT", "INC_DEC"} /\ state = "DEC" -> Declare(next, id, state)
       [] OTHER -> Reference(next, id, state, exe)

\* f(e, ...).  The arguments of the call around it are put aside.
Function(ep, state, exe) ==
  LET paren == jsLexGetToken(ep, state)
      args == parse([setResult(paren, << >>) EXCEPT !.args = << >>], "ARG_LIST", exe)
      call == IF exe THEN evalFunction(args.ep, ep.text) ELSE [ok |-> TRUE, ep |-> args.ep]
      next == jsLexGetToken([call.ep EXCEPT !.args = ep.args], state)
  IN IF paren.tid # "LPAREN" THEN R("ERR", paren)
     ELSE IF args.st # "ARG_LIST_DONE" THEN R("ERR", [args.ep EXCEPT !.args = ep.args])
     ELSE IF ~ call.ok THEN R("ERR", [call.ep EXCEPT !.args = ep.args])
     ELSE R(IF next.tid = "RPAREN" THEN state ELSE "ERR", next)

If(ep, state, exe) ==
  LET paren == jsLexGetToken(ep, state)
      cond == parse(paren, "COND", exe)
      close == jsLexGetToken(cond.ep, state)
      holds == First(close.result) = "1"
      then == parse(close, "STMT", exe /\ holds)
      word == jsLexGetToken(jsRemoveNewlines(then.ep, state), state)
      else == parse(word, "STMT", exe /\ ~ holds)
  IN IF state # "STMT" THEN R("ERR", ep)
     ELSE IF paren.tid # "LPAREN" THEN R("ERR", paren)
     ELSE IF cond.st # "COND_DONE" THEN R("ERR", cond.ep)
     ELSE IF close.tid # "RPAREN" THEN R("ERR", close)
     ELSE IF then.st = "RET" THEN then
     ELSE IF then.st # "STMT_DONE" THEN R("ERR", then.ep)
     ELSE IF word.tid # "ELSE" THEN R(state, jsLexPutbackToken(word, word.tid))
     ELSE IF else.st = "RET" THEN else
     ELSE IF else.st # "STMT_DONE" THEN R("ERR", else.ep)
     ELSE R(state, else.ep)

\* The rotated loop of a for statement: body, increment, condition.
Loop(ep, at, go, turns) ==
  LET body == parse(jsLexRestoreInputState(ep, at.body), "STMT", TRUE)
      incr == parse(jsLexRestoreInputState(body.ep, at.incr), "EXPR", TRUE)
      cond == parse(jsLexRestoreInputState(incr.ep, at.cond), "COND", TRUE)
  IN IF ~ go THEN R("STMT", jsLexRestoreInputState(ep, at.end))
     ELSE IF turns = 0 THEN Stuck(ep, "for")
     ELSE IF body.st = "RET" THEN body
     ELSE IF body.st # "STMT_DONE" THEN R("ERR", body.ep)
     ELSE IF incr.st # "EXPR_DONE" THEN R("ERR", incr.ep)
     ELSE IF cond.st # "COND_DONE" THEN R("ERR", cond.ep)
     ELSE Loop(cond.ep, at, First(cond.ep.result) # "0", turns - 1)

For(ep, state, exe) ==
  LET paren == jsLexGetToken(ep, state)
      init == parse(paren, "EXPR", exe)
      semi == jsLexGetToken(init.ep, state)
      cond == parse(semi, "COND", exe)
      semi2 == jsLexGetToken(cond.ep, state)
      incr == parse(semi2, "EXPR", FALSE)
      close == jsLexGetToken(incr.ep, state)
      body == parse(close, "STMT", FALSE)
      at == [cond |-> jsLexSaveInputState(semi), incr |-> jsLexSaveInputState(semi2),
             body |-> jsLexSaveInputState(close), end |-> jsLexSaveInputState(body.ep)]
  IN IF state # "STMT" THEN R("ERR", ep)
     ELSE IF paren.tid # "LPAREN" THEN R("ERR", paren)
     ELSE IF init.st # "EXPR_DONE" THEN R("ERR", init.ep)
     ELSE IF semi.tid # "SEMI" THEN R("ERR", semi)
     ELSE IF cond.st # "COND_DONE" THEN R("ERR", cond.ep)
     ELSE IF semi2.tid # "SEMI" THEN R("ERR", semi2)
     ELSE IF incr.st # "EXPR_DONE" THEN R("ERR", incr.ep)
     ELSE IF close.tid # "RPAREN" THEN R("ERR", close)
     ELSE IF body.st # "STMT_DONE" THEN R("ERR", body.ep)
     ELSE Loop(body.ep, at, exe /\ First(semi2.result) # "0", LoopMax)

LeftParen(ep, state, exe) ==
  LET e == parse(ep, "RELEXP", exe)
      close == jsLexGetToken(e.ep, state)
  IN IF state # "EXPR" THEN R(state, ep)
     ELSE IF e.st # "RELEXP_DONE" THEN R("ERR", e.ep)
     ELSE IF close.tid # "RPAREN" THEN R("ERR", close)
     ELSE R("EXPR_DONE", close)

\* The loop of a block.  A statement that leaves the engine as it was will do
\* so for ever.
Block(ep, exe) ==
  LET stmt == parse(ep, "STMT", exe)
  IN IF stmt.st # "STMT_DONE" THEN stmt
     ELSE IF stmt.ep = ep THEN Stuck(ep, "block")
     ELSE Block(stmt.ep, exe)

\* An error in a block is lost when the next token is its closing brace.
LeftBrace(ep, state, exe) ==
  LET block == Block(ep, exe)
      close == jsLexGetToken(block.ep, block.st)
  IN IF state # "STMT" THEN R("ERR", ep)
     ELSE IF block.st = "RET" \/ block.ep.stuck # "no" THEN block
     ELSE IF close.tid = "RBRACE" THEN R("STMT_DONE", close)
     ELSE R("ERR", close)

\* return drops the rest of the script when it is executed.
Return(ep, state, exe) ==
  LET e == parse(ep, "RELEXP", exe)
  IN IF e.st # "RELEXP_DONE" THEN R("ERR", e.ep)
     ELSE IF exe THEN R("RET", [e.ep EXCEPT !.in = << >>, !.put = "NONE", !.tid = "EOF"])
     ELSE parseStmt(e.ep, state, exe)

----------------------------------------------------------------------------
(* The loop of parseStmt up to its end, then what follows it. *)

Statement(ep, state, exe) ==
  CASE ep.tid = "ERR" -> R("ERR", ep)
    [] ep.tid = "EOF" -> R("EOF", ep)
    [] ep.tid = "NEWLINE" -> parseStmt(ep, state, exe)
    [] ep.tid = "SEMI" ->
         R(state, IF state = "STMT" THEN ep ELSE jsLexPutbackToken(ep, "SEMI"))
    [] ep.tid = "ID" -> Id(ep, state, exe)
    [] ep.tid = "LITERAL" -> R(state, setResult(ep, ep.text))
    [] ep.tid = "FUNCTION" -> Function(ep, state, exe)
    [] ep.tid = "IF" -> If(ep, state, exe)
    [] ep.tid = "FOR" -> For(ep, state, exe)
    [] ep.tid = "VAR" ->
         LET list == parse(ep, "DEC_LIST", exe)
         IN R(IF list.st = "DEC_LIST_DONE" THEN state ELSE "ERR", list.ep)
    [] ep.tid = "LPAREN" -> LeftParen(ep, state, exe)
    [] ep.tid = "RPAREN" -> R("EXPR_DONE", jsLexPutbackToken(ep, "RPAREN"))
    [] ep.tid = "LBRACE" -> LeftBrace(ep, state, exe)
    [] ep.tid = "RBRACE" ->
         IF state = "STMT" THEN R("STMT_BLOCK_DONE", jsLexPutbackToken(ep, "RBRACE"))
         ELSE R("ERR", ep)
    [] ep.tid = "RETURN" -> Return(ep, state, exe)
    \* No statement begins so: the token goes back as an operator.
    [] OTHER -> R(state, jsLexPutbackToken(ep, "EXPR"))

\* Statements that must be followed by a semicolon or the end of the line.
ExpectSemi == {"ID", "LITERAL", "FUNCTION"}

parseStmt(ep, state, exe) ==
  LET first == jsLexGetToken(ep, state)
      stmt == Statement(first, state, exe)
      semi == jsLexGetToken(stmt.ep, state)
  IN IF stmt.st = "STMT" /\ first.tid \in ExpectSemi
       THEN IF semi.tid \in {"SEMI", "NEWLINE"}
              THEN R("STMT_DONE", jsRemoveNewlines(semi, state))
              ELSE R("ERR", semi)
     ELSE IF stmt.st \in {"STMT", "DEC", "EXPR"} THEN R(stmt.st \o "_DONE", stmt.ep)
     ELSE stmt

\* What parse accepts from the routine of each state.
Accepts ==
  [STMT |-> {"STMT_DONE", "EOF", "STMT_BLOCK_DONE", "RET"},
   DEC |-> {"DEC_DONE", "EOF"}, EXPR |-> {"EXPR_DONE", "EOF"}]

parse(ep, state, exe) ==
  LET r == CASE state \in DOMAIN Accepts -> parseStmt(ep, state, exe)
             [] state = "DEC_LIST" -> parseDeclaration(ep, exe)
             [] state = "ARG_LIST" -> parseFunctionArgs(ep, exe)
             [] state = "COND" -> parseCond(ep, exe)
             [] state = "RELEXP" -> parseExpr(ep, exe)
      st == IF state \in DOMAIN Accepts /\ r.st \notin Accepts[state] THEN "ERR" ELSE r.st
  IN R(st, IF st = "ERR" /\ r.ep.error = "" THEN jsError(r.ep, "Syntax error") ELSE r.ep)

----------------------------------------------------------------------------
\* The loop of jsEval: turns counts the ones that left the script where it was.
RECURSIVE Turns(_, _, _)
Turns(ep, at, turns) ==
  LET r == parse(ep, "STMT", TRUE)
      left == Len(r.ep.in)
      st == IF r.st = "RET" THEN "EOF" ELSE r.st
  IN IF left = at /\ turns > 10 THEN R("ERR", jsError(r.ep, "Syntax error"))
     ELSE IF st \in {"EOF", "ERR"} THEN R(st, r.ep)
     ELSE Turns(r.ep, left, IF left = at THEN turns + 1 ELSE 0)

\* jsEval: st is EOF with the result, or ERR (the caller gets NULL).
jsEval(ep, script) ==
  Turns(jsLexOpenScript(setResult(ep, << >>), script), -1, 0)

jsEvalBlock(ep, script) ==
  LET r == jsEval(jsOpenBlock(ep), script)
  IN R(r.st, jsCloseBlock(r.ep))
=============================================================================
