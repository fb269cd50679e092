------------------------------ MODULE Handles ------------------------------
(***************************************************************************)
(* Handle lists of the run-time (wallocHandle, wfreeHandle, wallocObject,  *)
(* runtime.c): arrays that grow by H_INCR entries, where the first null    *)
(* entry is the next handle, and that are freed with their last entry.     *)
(* webs, callbacks, socketList and cgiList are such lists, each with a     *)
(* count of the entries to look at (websMax, callbackMax, ...).            *)
(***************************************************************************)
EXTENDS Integers, FiniteSets

CONSTANTS
  H_INCR,   \* entries a list grows by
  Null      \* the empty entry

ASSUME HandlesAssumption == H_INCR \in Nat \ {0}

\* The list that is not allocated (map == NULL).
NoList == [len |-> 0, used |-> 0, max |-> 0, slot |-> << >>]

\* Lists of entries from S.
IsList(t, S) ==
  /\ t.len \in Nat /\ t.used \in Nat /\ t.max \in Nat
  /\ t.slot \in [0 .. t.len - 1 -> S \cup {Null}]
  /\ t = [len |-> t.len, used |-> t.used, max |-> t.max, slot |-> t.slot]

InUse(t) == {h \in 0 .. t.len - 1 : t.slot[h] # Null}
Vacant(t) == (0 .. t.len - 1) \ InUse(t)

\* The count and the bound are those of the entries.
Counted(t) ==
  /\ t.used = Cardinality(InUse(t))
  /\ \A h \in InUse(t) : h < t.max
  /\ t.max <= t.len

Smallest(S) == CHOOSE x \in S : \A y \in S : x <= y

\* The handle wallocHandle returns.
NextHandle(t) ==
  IF t.used < t.len /\ Vacant(t) # {} THEN Smallest(Vacant(t)) ELSE t.len

\* wallocObject: the entry x at the next handle of a list that may grow.
AllocObject(t, x) ==
  LET h == NextHandle(t)
      n == IF h < t.len THEN t.len ELSE t.len + H_INCR
  IN [len  |-> n,
      used |-> t.used + 1,
      max  |-> IF h >= t.max THEN h + 1 ELSE t.max,
      slot |-> [i \in 0 .. n - 1 |-> IF i = h THEN x
                                     ELSE IF i < t.len THEN t.slot[i]
                                     ELSE Null]]

\* One more than the greatest handle in use: what wfreeHandle returns.
Bound(t) ==
  Smallest({m \in 0 .. t.len : \A h \in m .. t.len - 1 : t.slot[h] = Null})

\* The entry h is null, and not counted.
Vacate(t, h) ==
  [len |-> t.len, used |-> t.used - 1, max |-> t.max,
   slot |-> [t.slot EXCEPT ![h] = Null]]

\* Mutated FreeHandle: the bound is the freed handle.
FreeHandleCuts(t, h) ==
  LET s == Vacate(t, h)
  IN IF s.used = 0 THEN NoList ELSE [s EXCEPT !.max = h]

\* max = wfreeHandle(&list, h).
FreeHandle(t, h) ==
  LET s == Vacate(t, h)
  IN IF s.used = 0 THEN NoList ELSE [s EXCEPT !.max = Bound(s)]

\* wallocObject finds a handle and no memory: the handle goes back, and its
\* caller's max is not told.
AllocFails(t) ==
  [FreeHandle(AllocObject(t, Null), NextHandle(t)) EXCEPT !.max = t.max]
=============================================================================
