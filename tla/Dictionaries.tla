---------------------------- MODULE Dictionaries ----------------------------
(***************************************************************************)
(* What the hash tables of the run-time promise: each is a function from   *)
(* names to values, and a call changes that of one table, at the names it  *)
(* is about.                                                               *)
(***************************************************************************)
CONSTANTS Handles, Names, Values

VARIABLE tables   \* the function that each open table stands for

Empty == [n \in {} |-> n]
Only(f, S) == [n \in S |-> f[n]]
With(f, n, v) == [m \in DOMAIN f \cup {n} |-> IF m = n THEN v ELSE f[m]]

Create(t, u) == \E h \in DOMAIN u \ DOMAIN t : h \in Handles /\ u = With(t, h, Empty)
Free(t, u) == \E h \in DOMAIN t : u = Only(t, DOMAIN t \ {h})
Enter(t, u) == \E h \in DOMAIN t, n \in Names, v \in Values :
  u = [t EXCEPT ![h] = With(@, n, v)]
Delete(t, u) == \E h \in DOMAIN t, S \in SUBSET Names :
  u = [t EXCEPT ![h] = Only(@, DOMAIN @ \ S)]

Init == tables = Empty
Next == \E t \in {tables}, u \in {tables'} :
  Create(t, u) \/ Free(t, u) \/ Enter(t, u) \/ Delete(t, u)
Spec == Init /\ [][Next]_tables
=============================================================================
