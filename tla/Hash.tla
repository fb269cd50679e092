-------------------------------- MODULE Hash --------------------------------
(***************************************************************************)
(* The hash tables of the run-time (hashCreate .. calcPrime and valueFree, *)
(* runtime.c).  The open tables are a handle list; a table has a chain of  *)
(* entries for each index, and each entry owns a copy of its name and,     *)
(* when it was made with VALUE_ALLOCATE, its value.  A name is a sequence  *)
(* of at most three character codes, so that its sum needs no wrap-around. *)
(* Memory is always found (not so: runtime.c:1859, 2050, 2065).            *)
(***************************************************************************)
EXTENDS Handles, Sequences, FiniteSets

CONSTANTS
  WEBS_SMALL_HASH,
  Names, Values,  \* names, and values with whether they are allocated
  Sizes,          \* sizes asked for
  TablesMax       \* open tables at a time

VARIABLES
  sym,      \* the handle list of the open tables
  strings   \* copies of strings that are allocated

isPrime(n) == \A i \in 2 .. n \div 2 : n % i # 0
calcPrime(size) == CHOOSE n \in 1 .. size : isPrime(n) /\ \A k \in n + 1 .. size : ~ isPrime(k)

\* The characters, each shifted by 7 bits more than the one before it.
Sum == [name \in Names |->
          LET shifted(k) == IF k <= Len(name) THEN name[k] * 2 ^ (7 * (k - 1)) ELSE 0
          IN shifted(1) + shifted(2) + shifted(3)]
hashIndex(tp, name) == Sum[name] % tp.size

NewTable(size) ==
  LET n == calcPrime(IF size < 0 THEN WEBS_SMALL_HASH ELSE size)
  IN [size |-> n, hash_table |-> [i \in 0 .. n - 1 |-> << >>]]

\* The tables there can be, and what the constants are.
Entry == [name : Names, content : Values, bucket : Nat]
TableSizes == {NewTable(size).size : size \in Sizes}
TablesOf(n) == [size : {n}, hash_table : [0 .. n - 1 -> Seq(Entry)]]
Tables == UNION {TablesOf(n) : n \in TableSizes}

HashAssumption ==
  /\ WEBS_SMALL_HASH \in Nat \ {0} /\ Sizes \subseteq Int \ {0}
  /\ IsFiniteSet(Names) /\ << >> \notin Names /\ \A name \in Names : Sum[name] \in Nat
  /\ \A v \in Values : v.allocated \in BOOLEAN
  /\ \A n \in TableSizes : Null \notin TablesOf(n)

\* The place of a name in its chain, 0 if it is not there.
Place(chain, name) ==
  IF \E k \in DOMAIN chain : chain[k].name = name
  THEN Smallest({k \in DOMAIN chain : chain[k].name = name}) ELSE 0

Chain(tp, name) == tp.hash_table[hashIndex(tp, name)]

NoEntry == [name |-> << >>]

hashLookup(tp, name) ==
  LET k == Place(Chain(tp, name), name)
  IN IF name = << >> \/ k = 0 THEN NoEntry ELSE Chain(tp, name)[k]

\* The first entry at index i or behind it.
FirstFrom(tp, i) ==
  LET full == {b \in i .. tp.size - 1 : tp.hash_table[b] # << >>}
  IN IF full = {} THEN NoEntry ELSE tp.hash_table[Smallest(full)][1]
hashFirst(tp) == FirstFrom(tp, 0)
hashNext(tp, last) ==
  LET chain == tp.hash_table[last.bucket]
      k == Place(chain, last.name)
  IN IF k < Len(chain) THEN chain[k + 1] ELSE FirstFrom(tp, last.bucket + 1)

\* The copies that valueString makes and valueFree frees.
Copies(v) == IF v.allocated THEN 1 ELSE 0

\* hashEnter: the value of an entry that is there is replaced.
hashEnter(tp, name, v) ==
  LET b == hashIndex(tp, name)
      k == Place(tp.hash_table[b], name)
  IN IF k # 0 THEN [tp EXCEPT !.hash_table[b][k].content = v]
     ELSE [tp EXCEPT !.hash_table[b] = Append(@, [name |-> name, content |-> v, bucket |-> b])]
Entered(tp, name, v) ==
  LET old == hashLookup(tp, name)
  IN Copies(v) + (IF old = NoEntry THEN 1 ELSE - Copies(old.content))

\* Mutated hashDelete: the chain ends where the entry was.
hashDeleteRest(tp, name) ==
  LET b == hashIndex(tp, name)
      k == Place(tp.hash_table[b], name)
  IN IF k = 0 THEN tp ELSE [tp EXCEPT !.hash_table[b] = SubSeq(@, 1, k - 1)]

hashDelete(tp, name) ==
  LET b == hashIndex(tp, name)
      k == Place(tp.hash_table[b], name)
  IN IF k = 0 THEN tp
     ELSE [tp EXCEPT !.hash_table[b] = SubSeq(@, 1, k - 1) \o SubSeq(@, k + 1, Len(@))]
Deleted(tp, name) ==
  LET old == hashLookup(tp, name) IN IF old = NoEntry THEN 0 ELSE 1 + Copies(old.content)

\* A loop over a table that asks for the next entry before it deletes the
\* present one, as pruneCache does: the names it came by, the table, and the
\* copies that were freed.
Pruned(tp, doomed) ==
  LET rounds[n \in 0 .. Cardinality(Names)] ==
        IF n = 0 THEN [at |-> hashFirst(tp), seen |-> << >>, tp |-> tp, freed |-> 0]
        ELSE LET p == rounds[n - 1]
                 delete == p.at.name \in doomed
             IN IF p.at = NoEntry THEN p
                ELSE [at |-> hashNext(p.tp, p.at), seen |-> Append(p.seen, p.at.name),
                      tp |-> IF delete THEN hashDelete(p.tp, p.at.name) ELSE p.tp,
                      freed |-> p.freed + (IF delete THEN Deleted(p.tp, p.at.name) ELSE 0)]
  IN rounds[Cardinality(Names)]

\* hashFree: every entry of every chain goes.
hashFree(t, h) == FreeHandle(t, h)

\* The sum of f over 0 .. n - 1.
Total(f, n) ==
  LET upTo[m \in 0 .. n] == IF m = 0 THEN 0 ELSE upTo[m - 1] + f[m - 1]
  IN upTo[n]

\* The copies that an entry, a chain, a table, a handle's table and all own.
OwnedByEntry(sp) == 1 + Copies(sp.content)
OwnedByChain(chain) ==
  Total([k \in 0 .. Len(chain) - 1 |-> OwnedByEntry(chain[k + 1])], Len(chain))
Owned(tp) == Total([b \in 0 .. tp.size - 1 |-> OwnedByChain(tp.hash_table[b])], tp.size)
OwnedAt(t, h) == IF h \in InUse(t) THEN Owned(t.slot[h]) ELSE 0
AllOwned(t) == Total([h \in 0 .. t.len - 1 |-> OwnedAt(t, h)], t.len)

----------------------------------------------------------------------------
HashInit == sym = NoList /\ strings = 0

Create == \E size \in Sizes :
  /\ Cardinality(InUse(sym)) < TablesMax
  /\ sym' = AllocObject(sym, NewTable(size)) /\ UNCHANGED strings
Free == \E h \in InUse(sym) :
  /\ sym' = hashFree(sym, h) /\ strings' = strings - Owned(sym.slot[h])
Enter == \E h \in InUse(sym), n \in Names, v \in Values :
  /\ sym' = [sym EXCEPT !.slot[h] = hashEnter(@, n, v)]
  /\ strings' = strings + Entered(sym.slot[h], n, v)
Delete == \E h \in InUse(sym), n \in Names :
  /\ sym' = [sym EXCEPT !.slot[h] = hashDelete(@, n)]
  /\ strings' = strings - Deleted(sym.slot[h], n)
Prune == \E h \in InUse(sym), doomed \in SUBSET Names :
  LET p == Pruned(sym.slot[h], doomed)
  IN sym' = [sym EXCEPT !.slot[h] = p.tp] /\ strings' = strings - p.freed

HashNext == Create \/ Free \/ Enter \/ Delete \/ Prune

----------------------------------------------------------------------------
\* The names of a table, and the function it stands for.
Known(tp) == {n \in Names : hashLookup(tp, n) # NoEntry}
Meaning(tp) == [n \in Known(tp) |-> hashLookup(tp, n).content]

Meanings(t) == [h \in InUse(t) |-> Meaning(t.slot[h])]

Dictionary == INSTANCE Dictionaries WITH Handles <- Nat, tables <- Meanings(sym)

\* A walk comes by each entry once, also when it deletes some as it goes, and
\* then those are what is gone.
WalksOnce ==
  \A h \in InUse(sym), doomed \in SUBSET Names :
    LET p == Pruned(sym.slot[h], doomed)
        known == Known(sym.slot[h])
    IN /\ Len(p.seen) = Cardinality(known) /\ {p.seen[k] : k \in DOMAIN p.seen} = known
       /\ Known(p.tp) = known \ doomed

\* Every copy of a string has an owner, which will free it: one that is
\* freed twice would be missing here, one that is lost would be too many.
CopiesOwned == strings = AllOwned(sym)
=============================================================================
