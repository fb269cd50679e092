------------------------------- MODULE Scripts ------------------------------
(***************************************************************************)
(* What scripts mean: programs as trees, their meaning, and how they are   *)
(* written down for the interpreter.                                       *)
(*   expression  [terms, ops]: terms joined by operators, read from left   *)
(*               to right; && and || join what is left of them with all    *)
(*               that is right of them                                     *)
(*   term        [t |-> "value", v] [t |-> "var", id] [t |-> "paren", e]   *)
(*               [t |-> "call", e]: write(e), whose value is e             *)
(*   statement   see Exec                                                  *)
(***************************************************************************)
EXTENDS Jst

Id1(name) == <<name>>
Logical == {"AND", "OR"}

----------------------------------------------------------------------------
(* Meaning.  An environment is [vars, out, over]; over once a return ran. *)

Int2Value(n) == itosbuf(n)
BoolValue(b) == IF b THEN <<"1">> ELSE <<"0">>
IsTrue(v) == atoi(v) # 0

Apply(op, a, b) ==
  CASE op = "PLUS" -> IF isNumeric(a) /\ isNumeric(b) THEN Int2Value(atoi(a) + atoi(b))
                      ELSE a \o b
    [] op = "MUL" -> Int2Value(atoi(a) * atoi(b))
    [] op = "DIV" -> Int2Value(IF atoi(b) = 0 THEN 0 ELSE atoi(a) \div atoi(b))
    [] op = "LESS" -> BoolValue(atoi(a) < atoi(b))
    [] op = "EQ" -> BoolValue(a = b)

RECURSIVE TermValue(_, _)
RECURSIVE FoldTerms(_, _, _, _)
RECURSIVE ExprValue(_, _)

\* [v, env] of a term and of an expression.
TermValue(env, t) ==
  CASE t.t = "value" -> [v |-> t.v, env |-> env]
    [] t.t = "var" -> [v |-> env.vars[t.id], env |-> env]
    [] t.t = "paren" -> ExprValue(env, t.e)
    [] t.t = "call" ->
         LET a == ExprValue(env, t.e)
         IN [v |-> a.v, env |-> [a.env EXCEPT !.out = @ \o a.v]]

FoldTerms(acc, e, i, n) ==
  IF i > n THEN acc
  ELSE LET next == TermValue(acc.env, e.terms[i])
       IN FoldTerms([v |-> Apply(e.ops[i - 1], acc.v, next.v), env |-> next.env], e, i + 1, n)

ExprValue(env, e) ==
  LET k == SelectInSeq(e.ops, LAMBDA o : o \in Logical)
      n == IF k = 0 THEN Len(e.terms) ELSE k
      left == FoldTerms(TermValue(env, e.terms[1]), e, 2, n)
      right == ExprValue(left.env, [terms |-> From(e.terms, k + 1), ops |-> From(e.ops, k + 1)])
  IN IF k = 0 THEN left
     ELSE [v |-> BoolValue(IF e.ops[k] = "AND" THEN IsTrue(left.v) /\ IsTrue(right.v)
                           ELSE IsTrue(left.v) \/ IsTrue(right.v)),
           env |-> right.env]

RECURSIVE Exec(_, _)
RECURSIVE ExecLoop(_, _)
Set(env, id, v) == [env EXCEPT !.vars = (id :> v) @@ @]

\* if takes a value whose first digit is 1 for true, for takes one whose first
\* digit is not 0.
ExecLoop(env, s) ==
  LET c == ExprValue(env, s.cond)
      b == Exec(c.env, s.body)
      next == Exec(b, s.step)
  IN IF env.over \/ First(c.v) = "0" THEN c.env
     ELSE IF b.over THEN b ELSE ExecLoop(next, s)

Exec(env, s) ==
  LET e == ExprValue(env, s.e)
  IN IF env.over THEN env
     ELSE CASE s.s = "set" -> Set(e.env, s.id, e.v)
            [] s.s = "inc" -> Set(env, s.id, Int2Value(atoi(env.vars[s.id]) + 1))
            [] s.s = "do" -> e.env
            [] s.s = "if" -> IF First(e.v) = "1" THEN Exec(e.env, s.then) ELSE Exec(e.env, s.else)
            [] s.s = "for" -> ExecLoop(Exec(env, s.init), s)
            [] s.s = "block" -> FoldLeft(Exec, env, s.body)
            [] s.s = "return" -> [e.env EXCEPT !.over = TRUE]

----------------------------------------------------------------------------
(* Writing. *)

Sign == [PLUS |-> <<"+">>, MUL |-> <<"*">>, DIV |-> <<"/">>, LESS |-> <<"<">>,
         EQ |-> <<"=", "=">>, AND |-> <<"&", "&">>, OR |-> <<"|", "|">>]

RECURSIVE WriteExpr(_)
WriteTerm(t) ==
  CASE t.t = "value" -> IF t.v # << >> /\ isNumeric(t.v) THEN t.v ELSE <<"'">> \o t.v \o <<"'">>
    [] t.t = "var" -> t.id
    [] t.t = "paren" -> <<"(">> \o WriteExpr(t.e) \o <<")">>
    [] t.t = "call" -> <<"write", "(">> \o WriteExpr(t.e) \o <<")">>
WriteExpr(e) ==
  FlattenSeq([i \in DOMAIN e.terms |->
                (IF i = 1 THEN << >> ELSE Sign[e.ops[i - 1]]) \o WriteTerm(e.terms[i])])

\* A statement without and with what ends it.
RECURSIVE Bare(_)
RECURSIVE WriteStmt(_)
Bare(s) ==
  CASE s.s = "set" -> s.id \o <<" ", "=">> \o WriteExpr(s.e)
    [] s.s = "inc" -> s.id \o <<"+", "+">>
    [] s.s = "do" -> WriteExpr(s.e)
    [] s.s = "return" -> <<"return", " ">> \o WriteExpr(s.e)
WriteStmt(s) ==
  CASE s.s = "if" -> <<"if", " ", "(">> \o WriteExpr(s.e) \o <<")", " ">> \o WriteStmt(s.then)
                     \o <<"\n", "else", " ">> \o WriteStmt(s.else)
    [] s.s = "for" -> <<"for", " ", "(">> \o Bare(s.init) \o <<";">> \o WriteExpr(s.cond)
                      \o <<";">> \o Bare(s.step) \o <<")", " ">> \o WriteStmt(s.body)
    [] s.s = "block" -> <<"{", " ">> \o FlattenSeq([i \in DOMAIN s.body |-> WriteStmt(s.body[i])])
                        \o <<"}">>
    [] OTHER -> Bare(s) \o <<";">>

----------------------------------------------------------------------------
(* The interpreter does what the program says. *)

\* What a caller and the client see of an evaluation.
Outcome(r) ==
  [st |-> r.st, result |-> r.ep.result, frames |-> r.ep.frames, args |-> r.ep.args,
   out |-> r.ep.out, stuck |-> r.ep.stuck]

EmptyEnv == [vars |-> << >>, out |-> << >>, over |-> FALSE]
Preset == <<"x">> :> <<"1">>

\* The variables without the constant that every engine has.
Variables(frame) == [id \in DOMAIN frame \ {<<"null">>} |-> frame[id]]

\* The engine is back at its outermost frame and call, the script at its end.
Done(out) == out.st = "EOF" /\ out.stuck = "no" /\ Len(out.frames) = 1 /\ out.args = << >>

RunsAs(out, program) ==
  LET env == Exec(EmptyEnv, program)
  IN Done(out) /\ Variables(out.frames[1]) = env.vars /\ out.out = env.out

\* Assignments of a block go to the global frame, and none is lost with it.
RunsInBlockAs(out, program) ==
  LET env == Exec([EmptyEnv EXCEPT !.vars = Preset], program)
  IN Done(out) /\ Variables(out.frames[1]) = env.vars /\ out.out = env.out

\* A page is a sequence of parts: a text, or a program with what stands before
\* it (attr).
IsText(part) == "text" \in DOMAIN part
WritePage(page) ==
  FlattenSeq([i \in DOMAIN page |->
    IF IsText(page[i]) THEN page[i].text
    ELSE <<"<%", " ">> \o page[i].attr \o <<" ">> \o WriteStmt(page[i].code) \o <<"%>">>])

ExecPage(page) ==
  FoldLeft(LAMBDA env, part : IF IsText(part) THEN [env EXCEPT !.out = @ \o part.text]
                              ELSE [Exec(env, part.code) EXCEPT !.over = FALSE],
           EmptyEnv, page)

ShowsAs(out, page, fault) ==
  LET env == ExecPage(page)
  IN IF fault \in Faults THEN out.reply = fault /\ out.out = << >>
     ELSE /\ out.reply = "page" /\ out.out = env.out
          /\ Variables(out.vars) = env.vars

\* A script that is parsed and not executed.
Skip(script) == parse([jsOpenEngine(Preset) EXCEPT !.in = script], "STMT", FALSE)
\* In braces, no statement begins with an operator or with else: the loop that
\* looks for the closing brace then finds the same token for ever (js.c:756).
Endless(script) ==
  \E i, j \in DOMAIN script :
    /\ i < j /\ script[i] = "{"
    /\ script[j] = "else" \/ (script[j] = "+" /\ script[j - 1] \notin {"x", "+"})
IsIdle(out, script) ==
  /\ out.stuck = "no" \/ Endless(script)
  /\ out.out = << >>
  /\ \A id \in DOMAIN out.frames[1] :
       \/ id \in DOMAIN Preset /\ out.frames[1][id] = Preset[id]
       \/ out.frames[1][id] = Undefined
=============================================================================
