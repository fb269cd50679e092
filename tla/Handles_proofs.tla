---------------------------- MODULE Handles_proofs ---------------------------
(***************************************************************************)
(* Proofs about Handles: handle lists keep their count and their bound,    *)
(* and no routine moves an entry.                                          *)
(***************************************************************************)
EXTENDS Handles, FiniteSetTheorems, WellFoundedInduction, TLAPS

\* A list whose count and bound are right, freed when it is empty.
Sound(t) == Counted(t) /\ (t.used = 0 => t = NoList)

\* r holds what t holds.
SameEntries(r, t) ==
  /\ InUse(r) = InUse(t)
  /\ \A h \in InUse(t) : r.slot[h] = t.slot[h]

\* A nonempty set of naturals has a least element, and Smallest finds it.
LEMMA SmallestOfNat ==
  ASSUME NEW T \in SUBSET Nat, T # {}
  PROVE  Smallest(T) \in T /\ \A y \in T : Smallest(T) <= y
<1>1. PICK x \in T : \A y \in T : ~(<<y, x>> \in OpToRel(<, Nat))
  BY NatLessThanWellFounded, WFMin
<1>2. \A y \in T : ~(y < x)
  BY <1>1, Zenon DEF OpToRel
<1>a. \A y \in T : x <= y
  BY <1>2
<1>3. QED BY <1>a DEF Smallest

LEMMA InUseFinite ==
  ASSUME NEW S, NEW t, IsList(t, S)
  PROVE  IsFiniteSet(InUse(t)) /\ Cardinality(InUse(t)) \in Nat
<1>1. t.len \in Nat
  BY DEF IsList
<1>2. IsFiniteSet(0 .. t.len - 1)
  BY <1>1, FS_Interval
<1>3. IsFiniteSet(InUse(t))
  BY <1>2, FS_Subset DEF InUse
<1>4. QED BY <1>3, FS_CardinalityType

LEMMA NoListSound ==
  ASSUME NEW S
  PROVE  IsList(NoList, S) /\ Sound(NoList) /\ InUse(NoList) = {}
<1>1. InUse(NoList) = {}
  BY DEF InUse, NoList
<1>2. Cardinality({}) = 0
  BY FS_EmptySet
<1>3. << >> \in [0 .. 0 - 1 -> S \cup {Null}]
  OBVIOUS
<1>4. IsList(NoList, S)
  BY <1>3 DEF IsList, NoList
<1>5. Sound(NoList)
  <2>1. NoList.used = 0 /\ NoList.max = 0 /\ NoList.len = 0
    BY DEF NoList
  <2>2. QED BY <1>1, <1>2, <2>1 DEF Sound, Counted
<1>6. QED BY <1>1, <1>4, <1>5

\* The next handle is vacant, or the first behind the list.
LEMMA NextHandleVacant ==
  ASSUME NEW S, NEW t, IsList(t, S)
  PROVE  /\ NextHandle(t) \in 0 .. t.len /\ NextHandle(t) \in Nat
         /\ NextHandle(t) < t.len => t.slot[NextHandle(t)] = Null
         /\ NextHandle(t) \notin InUse(t)
<1>1. t.len \in Nat /\ Vacant(t) \in SUBSET Nat
  BY DEF IsList, Vacant
<1>2. CASE t.used < t.len /\ Vacant(t) # {}
  <2>1. NextHandle(t) \in Vacant(t)
    BY <1>1, <1>2, SmallestOfNat DEF NextHandle
  <2>2. QED BY <1>1, <2>1 DEF Vacant, InUse
<1>3. CASE ~(t.used < t.len /\ Vacant(t) # {})
  BY <1>1, <1>3 DEF NextHandle, InUse
<1>4. QED BY <1>2, <1>3

\* wallocObject adds one entry and moves none.
LEMMA AllocAdds ==
  ASSUME NEW S, NEW t, IsList(t, S), Sound(t), NEW x \in S, Null \notin S
  PROVE  LET r == AllocObject(t, x) IN
         /\ IsList(r, S) /\ Sound(r)
         /\ InUse(r) = InUse(t) \cup {NextHandle(t)}
         /\ r.slot[NextHandle(t)] = x
         /\ \A h \in InUse(t) : r.slot[h] = t.slot[h]
<1> DEFINE h == NextHandle(t)
           n == IF h < t.len THEN t.len ELSE t.len + H_INCR
           m == IF h >= t.max THEN h + 1 ELSE t.max
           s == [i \in 0 .. n - 1 |-> IF i = h THEN x
                                      ELSE IF i < t.len THEN t.slot[i] ELSE Null]
           r == AllocObject(t, x)
<1>1. /\ t.len \in Nat /\ t.used \in Nat /\ t.max \in Nat
      /\ t.slot \in [0 .. t.len - 1 -> S \cup {Null}]
      /\ h \in 0 .. t.len /\ h \notin InUse(t)
  BY NextHandleVacant DEF IsList
<1>2. n \in Nat /\ m \in Nat /\ h < n /\ t.len <= n /\ h < m /\ t.max <= m
  BY <1>1, HandlesAssumption
<1>3. s \in [0 .. n - 1 -> S \cup {Null}]
  BY <1>1, <1>2
<1>4. r = [len |-> n, used |-> t.used + 1, max |-> m, slot |-> s]
  BY DEF AllocObject
<1> HIDE DEF h, r
<1>5. IsList(r, S)
  BY <1>1, <1>2, <1>3, <1>4 DEF IsList
<1>a. /\ r.len = n /\ r.used = t.used + 1 /\ r.max = m /\ r.slot = s
      /\ \A i \in 0 .. n - 1 : s[i] = IF i = h THEN x
                                     ELSE IF i < t.len THEN t.slot[i] ELSE Null
  BY <1>4
<1> HIDE DEF n, m, s
<1>b. h \in 0 .. n - 1 /\ \A i \in InUse(t) : i \in 0 .. n - 1 /\ i < t.len /\ i # h
  BY <1>1, <1>2 DEF InUse
<1>6. InUse(r) = InUse(t) \cup {h}
  <2>1. \A i \in 0 .. n - 1 : s[i] # Null <=> i = h \/ (i < t.len /\ t.slot[i] # Null)
    BY <1>1, <1>2, <1>a
  <2>2. InUse(r) = {i \in 0 .. n - 1 : s[i] # Null}
    BY <1>a DEF InUse
  <2>3. \A i \in 0 .. n - 1 : i < t.len <=> i \in 0 .. t.len - 1
    BY <1>1, <1>2
  <2>4. \A i : i \in InUse(r) <=> i \in InUse(t) \/ i = h
    BY <1>b, <2>1, <2>2, <2>3 DEF InUse
  <2>5. QED BY <2>4
<1>7. r.slot[h] = x /\ \A i \in InUse(t) : r.slot[i] = t.slot[i]
  BY <1>a, <1>b
<1>8. Sound(r)
  <2>1. r.used = Cardinality(InUse(r))
    <3>1. IsFiniteSet(InUse(t)) /\ t.used = Cardinality(InUse(t))
      BY InUseFinite DEF Sound, Counted
    <3>2. Cardinality(InUse(t) \cup {h}) = Cardinality(InUse(t)) + 1
      BY <1>1, <3>1, FS_AddElement
    <3>3. QED BY <1>4, <1>6, <3>1, <3>2
  <2>2. \A i \in InUse(r) : i < r.max
    <3>1. \A i \in InUse(t) : i < t.max /\ i \in Nat
      BY <1>1 DEF Sound, Counted, InUse
    <3>2. r.max = m
      BY <1>4
    <3>3. h \in Nat
      BY <1>1
    <3>4. QED BY <1>1, <1>2, <1>6, <3>1, <3>2, <3>3
  <2>3. r.max <= r.len
    BY <1>1, <1>2, <1>a DEF Sound, Counted, m, n
  <2>4. r.used # 0
    BY <1>1, <1>4
  <2>5. QED BY <2>1, <2>2, <2>3, <2>4 DEF Sound, Counted
<1>9. QED BY <1>5, <1>6, <1>7, <1>8 DEF h, r
\* The bound is the end of the entries in use.
LEMMA BoundCovers ==
  ASSUME NEW S, NEW t, IsList(t, S)
  PROVE  Bound(t) \in 0 .. t.len /\ \A h \in InUse(t) : h < Bound(t)
<1> DEFINE T == {m \in 0 .. t.len : \A h \in m .. t.len - 1 : t.slot[h] = Null}
<1>1. t.len \in Nat
  BY DEF IsList
<1>2. t.len \in T /\ T \in SUBSET Nat
  BY <1>1
<1>3. Bound(t) \in T
  <2> HIDE DEF T
  <2>1. Smallest(T) \in T
    BY <1>2, SmallestOfNat
  <2>2. QED BY <2>1 DEF Bound, T
<1>4. QED BY <1>1, <1>3 DEF InUse

\* wfreeHandle removes one entry and moves none.
LEMMA FreeRemoves ==
  ASSUME NEW S, NEW t, IsList(t, S), Sound(t), NEW h \in InUse(t)
  PROVE  LET r == FreeHandle(t, h) IN
         /\ IsList(r, S) /\ Sound(r)
         /\ InUse(r) = InUse(t) \ {h}
         /\ \A g \in InUse(r) : r.slot[g] = t.slot[g]
<1> DEFINE s == Vacate(t, h)
           r == FreeHandle(t, h)
<1>1. /\ t.len \in Nat /\ t.used \in Nat /\ t.max \in Nat
      /\ t.slot \in [0 .. t.len - 1 -> S \cup {Null}]
      /\ t = [len |-> t.len, used |-> t.used, max |-> t.max, slot |-> t.slot]
      /\ h \in 0 .. t.len - 1
  BY DEF IsList, InUse
<1>2. /\ s = [len |-> t.len, used |-> t.used - 1, max |-> t.max,
              slot |-> [t.slot EXCEPT ![h] = Null]]
      /\ s.slot \in [0 .. t.len - 1 -> S \cup {Null}]
  BY <1>1 DEF Vacate
<1>3. s.slot[h] = Null /\ \A g \in (0 .. t.len - 1) \ {h} : s.slot[g] = t.slot[g]
  BY <1>1, <1>2
<1>4. s.len = t.len /\ s.used = t.used - 1 /\ s.max = t.max
  BY <1>2
<1>5. r = IF s.used = 0 THEN NoList ELSE [s EXCEPT !.max = Bound(s)]
  BY DEF FreeHandle
<1> HIDE DEF s, r
<1>6. InUse(s) = InUse(t) \ {h}
  BY <1>1, <1>3, <1>4 DEF InUse
<1>7. t.used # 0 /\ s.used = Cardinality(InUse(s)) /\ IsFiniteSet(InUse(s))
  <2>1. IsFiniteSet(InUse(t)) /\ t.used = Cardinality(InUse(t))
    BY InUseFinite DEF Sound, Counted
  <2>2. t.used # 0
    BY <2>1, FS_EmptySet
  <2>3. Cardinality(InUse(t) \ {h}) = t.used - 1 /\ IsFiniteSet(InUse(t) \ {h})
    BY <2>1, FS_RemoveElement
  <2>4. QED BY <1>4, <1>6, <2>2, <2>3
<1>8. IsList(s, S)
  BY <1>1, <1>2, <1>4, <1>7 DEF IsList
<1>9. CASE s.used = 0
  <2>1. InUse(t) \ {h} = {}
    BY <1>6, <1>7, <1>9, FS_EmptySet
  <2>2. r = NoList
    BY <1>5, <1>9
  <2>3. IsList(NoList, S) /\ Sound(NoList) /\ InUse(NoList) = {}
    BY NoListSound
  <2>4. QED BY <2>1, <2>2, <2>3 DEF r
<1>10. CASE s.used # 0
  <2>1. Bound(s) \in 0 .. s.len /\ \A g \in InUse(s) : g < Bound(s)
    BY <1>8, BoundCovers
  <2>2. r = [s EXCEPT !.max = Bound(s)]
    BY <1>5, <1>10
  <2>3. r = [len |-> t.len, used |-> t.used - 1, max |-> Bound(s), slot |-> s.slot]
    BY <1>2, <1>4, <2>2
  <2>4. InUse(r) = InUse(t) \ {h}
    BY <1>4, <1>6, <2>3 DEF InUse
  <2>5. IsList(r, S)
    BY <1>1, <1>2, <1>4, <1>7, <2>1, <2>3 DEF IsList
  <2>6. Sound(r)
    <3>1. /\ r.used = s.used /\ r.max = Bound(s) /\ r.len = t.len
          /\ InUse(r) = InUse(s)
      BY <1>4, <1>6, <2>3, <2>4
    <3>2. Bound(s) <= t.len
      BY <1>1, <1>4, <2>1
    <3>3. QED BY <1>7, <1>10, <2>1, <3>1, <3>2 DEF Sound, Counted
  <2>7. \A g \in InUse(r) : r.slot[g] = t.slot[g]
    BY <1>3, <2>3, <2>4 DEF InUse
  <2>8. QED BY <2>4, <2>5, <2>6, <2>7 DEF r
<1>11. QED BY <1>9, <1>10

\* wallocObject without memory leaves the entries alone.
LEMMA AllocFailsKeeps ==
  ASSUME NEW S, NEW t, IsList(t, S), Sound(t)
  PROVE  LET r == AllocFails(t) IN
         IsList(r, S) /\ Sound(r) /\ SameEntries(r, t)
<1> DEFINE h == NextHandle(t)
           n == IF h < t.len THEN t.len ELSE t.len + H_INCR
           a == AllocObject(t, Null)
           s == Vacate(a, h)
           r == AllocFails(t)
<1>1. /\ t.len \in Nat /\ t.used \in Nat /\ t.max \in Nat
      /\ t.slot \in [0 .. t.len - 1 -> S \cup {Null}]
      /\ h \in 0 .. t.len /\ h \notin InUse(t)
  BY NextHandleVacant DEF IsList
<1>2. n \in Nat /\ h \in 0 .. n - 1 /\ t.len <= n
  BY <1>1, HandlesAssumption
<1> DEFINE f == [i \in 0 .. n - 1 |-> IF i = h THEN Null
                                      ELSE IF i < t.len THEN t.slot[i] ELSE Null]
<1>3. PICK m : a = [len |-> n, used |-> t.used + 1, max |-> m, slot |-> f]
  BY DEF AllocObject
<1>4. /\ f \in [0 .. n - 1 -> S \cup {Null}]
      /\ \A i \in 0 .. n - 1 :
           f[i] = IF i = h THEN Null ELSE IF i < t.len THEN t.slot[i] ELSE Null
  <2> HIDE DEF n
  <2>1. \A i \in 0 .. n - 1 : i < t.len => t.slot[i] \in S \cup {Null}
    BY <1>1, <1>2
  <2>2. QED BY <2>1
<1> HIDE DEF n, f, a
<1>b. [f EXCEPT ![h] = Null] = f
  <2>1. f[h] = Null
    BY <1>2, <1>4
  <2>2. QED BY <1>4, <2>1
<1>5. s = [len |-> n, used |-> t.used, max |-> m, slot |-> f]
  <2>1. a.len = n /\ a.used = t.used + 1 /\ a.max = m /\ a.slot = f
    BY <1>3
  <2>2. a.used - 1 = t.used
    BY <1>1, <2>1
  <2>3. QED BY <1>b, <2>1, <2>2 DEF Vacate
<1>6. r = [(IF s.used = 0 THEN NoList ELSE [s EXCEPT !.max = Bound(s)])
             EXCEPT !.max = t.max]
  BY DEF AllocFails, FreeHandle, a
<1> HIDE DEF s, r
<1>7. CASE t.used = 0
  <2>1. r = [NoList EXCEPT !.max = t.max] /\ t = NoList
    BY <1>5, <1>6, <1>7 DEF Sound
  <2>2. r = t
    BY <2>1 DEF NoList
  <2>3. QED BY <2>2 DEF SameEntries, r
<1>8. CASE t.used # 0
  <2>1. r = [len |-> n, used |-> t.used, max |-> t.max, slot |-> f]
    BY <1>5, <1>6, <1>8
  <2>2. \A i \in InUse(t) : i \in 0 .. n - 1 /\ i < t.len /\ i # h
    BY <1>1, <1>2 DEF InUse
  <2>3. \A i \in 0 .. n - 1 : f[i] # Null => i \in InUse(t)
    BY <1>1, <1>2, <1>4 DEF InUse
  <2>4. SameEntries(r, t)
    <3>1. InUse(r) = {i \in 0 .. n - 1 : f[i] # Null}
      BY <2>1 DEF InUse
    <3>2. \A i \in InUse(t) : f[i] = t.slot[i] /\ f[i] # Null
      BY <1>4, <2>2 DEF InUse
    <3>3. \A i : i \in InUse(r) <=> i \in InUse(t)
      BY <2>2, <2>3, <3>1, <3>2
    <3>4. QED BY <2>1, <3>2, <3>3 DEF SameEntries
  <2>5. IsList(r, S)
    BY <1>1, <1>2, <1>4, <2>1 DEF IsList
  <2>6. Sound(r)
    BY <1>1, <1>2, <1>8, <2>1, <2>4 DEF Sound, Counted, SameEntries
  <2>7. QED BY <2>4, <2>5, <2>6 DEF r
<1>9. QED BY <1>7, <1>8
=============================================================================
