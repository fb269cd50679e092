------------------------------- MODULE Wording ------------------------------
(***************************************************************************)
(* What the string routines promise.                                       *)
(***************************************************************************)
EXTENDS Strings

\* The order of a dictionary: -1, 0 or 1.
RECURSIVE Order(_, _)
Order(s, t) ==
  CASE s = << >> /\ t = << >> -> 0
    [] s = << >> /\ t # << >> -> -1
    [] s # << >> /\ t = << >> -> 1
    [] s # << >> /\ t # << >> -> IF s[1] = t[1] THEN Order(Tail(s), Tail(t))
                                 ELSE IF Code(s, 1) < Code(t, 1) THEN -1 ELSE 1
First(s, n) == SubSeq(s, 1, Min({n, Len(s)}))

ComparesAs(out, in) ==
  /\ out.cmp = Order(in.s, in.t)
  /\ out.caseless = Order(slower(in.s), slower(in.t))
  /\ out.first = Order(First(in.s, in.n), First(in.t, in.n))
  /\ out.match <=> in.s = in.t

\* A copy is all that was asked for, with its null, or nothing.
CopiesAs(out, in) ==
  LET asked == First(in.s, in.n)
  IN /\ out.rc >= 0 <=> Len(asked) < in.max
     /\ out.rc >= 0 => out.dest = asked /\ out.rc = Len(asked)
     /\ out.rc < 0 => out.dest = NULL

\* The tokens have no delimiter; with what stands between them, in front and
\* behind, they are the string.
SplitsAs(out, in) ==
  /\ \A i \in DOMAIN out : out[i] # << >> /\ \A j \in DOMAIN out[i] : out[i][j] \notin in.set
  /\ FlattenSeq(out) = SelectSeq(in.s, LAMBDA c : c \notin in.set)
  /\ Len(out) = Cardinality({i \in DOMAIN in.s :
                               in.s[i] \notin in.set /\ (i > 1 => in.s[i - 1] \in in.set)})
TrimsAs(out, in) ==
  LET front == IF "start" \in in.where THEN SelectInSeq(in.s, LAMBDA c : c \notin in.set) - 1 ELSE 0
      kept == SelectLastInSeq(in.s, LAMBDA c : c \notin in.set)
  IN IF kept = 0 THEN out = (IF in.where = {} THEN in.s ELSE << >>)
     ELSE out = SubSeq(in.s, front + 1, IF "end" \in in.where THEN kept ELSE Len(in.s))

\* Numbers, and how they are written.
HexOf == <<"0", "1", "2", "3", "?", "?", "?", "?", "?", "9", "a", "b", "c", "?", "?", "f">>
RECURSIVE Hex(_)
Hex(n) == IF n < 16 THEN <<HexOf[n + 1]>> ELSE Hex(n \div 16) \o <<HexOf[(n % 16) + 1]>>
ReadsAs(out, n) == out.hex = n /\ out.prefixed = n /\ out.decimal = n

\* An argument of a command line: bare if it can be, else in quotes, in which
\* quotes and backslashes have a backslash in front.
Escaped(arg) == FlattenSeq([i \in DOMAIN arg |-> IF arg[i] \in {"\\", "\"", "'"} THEN <<"\\", arg[i]>>
                                                 ELSE <<arg[i]>>])
WriteArg(arg, quote) ==
  IF quote # "" THEN <<quote>> \o Escaped(arg) \o <<quote>> ELSE Escaped(arg)
WriteArgs(args, quotes) ==
  FlattenSeq([i \in DOMAIN args |-> (IF i = 1 THEN << >> ELSE <<" ">>) \o WriteArg(args[i], quotes[i])])
\* Left out: a bare argument that is empty, has a space or starts in white
\* space, and one in quotes whose last character is a backslash.
Writable(arg, quote) ==
  IF quote = "" THEN arg # << >> /\ \A i \in DOMAIN arg : arg[i] # " " ELSE arg = << >> \/ Last(arg) # "\\"
ArgsAs(out, args, max) == out = SubSeq(args, 1, Min({max, Len(args)}))
=============================================================================
