----------------------------- MODULE Hash_proofs -----------------------------
(***************************************************************************)
(* A hash table is a function: each call of runtime.c on it is a call on   *)
(* the functions of Dictionaries, for any names, whichever share a chain,  *)
(* and any number of tables; and every copy of a string has one owner.     *)
(***************************************************************************)
EXTENDS Hash, Handles_proofs

HashSpec == HashInit /\ [][HashNext]_<<sym, strings>>

----------------------------------------------------------------------------
(* Sums. *)

\* What is so at 0, and at m + 1 when at m, is so up to n.
LEMMA UpTo ==
  ASSUME NEW n \in Nat, NEW T, 0 \in T,
         \A m \in 0 .. n - 1 : m \in T => m + 1 \in T
  PROVE  \A m \in 0 .. n : m \in T
<1> DEFINE W == {m \in 0 .. n : m \notin T}
<1> SUFFICES ASSUME W # {} PROVE FALSE
  OBVIOUS
<1> DEFINE x == Smallest(W)
<1>1. x \in W /\ \A y \in W : x <= y
  <2>1. W \in SUBSET Nat
    OBVIOUS
  <2> HIDE DEF W
  <2>2. QED BY <2>1, SmallestOfNat
<1> HIDE DEF x
<1>2. x \in 0 .. n /\ x # 0
  BY <1>1
<1>3. x - 1 \in 0 .. n - 1 /\ x - 1 \notin W /\ (x - 1) + 1 = x
  BY <1>1, <1>2
<1>4. QED BY <1>1, <1>3

Summing(s, f, n) == s = [m \in 0 .. n |-> IF m = 0 THEN 0 ELSE s[m - 1] + f[m - 1]]

LEMMA SummingExists ==
  ASSUME NEW f, NEW n \in Nat
  PROVE  \E s : Summing(s, f, n)
<1> DEFINE T == {m \in Nat : \E s : Summing(s, f, m)}
<1>1. 0 \in T
  <2>1. Summing([k \in 0 .. 0 |-> 0], f, 0)
    BY DEF Summing
  <2>2. QED BY <2>1
<1>2. ASSUME NEW m \in 0 .. n - 1, m \in T PROVE m + 1 \in T
  <2>1. PICK s : Summing(s, f, m)
    BY <1>2
  <2> DEFINE g == [k \in 0 .. m + 1 |-> IF k = m + 1 THEN s[m] + f[m] ELSE s[k]]
  <2>2. ASSUME NEW k \in 0 .. m + 1
        PROVE  g[k] = IF k = 0 THEN 0 ELSE g[k - 1] + f[k - 1]
    <3>1. k # 0 => k - 1 \in 0 .. m /\ k - 1 # m + 1
      OBVIOUS
    <3>2. k # m + 1 => s[k] = IF k = 0 THEN 0 ELSE s[k - 1] + f[k - 1]
      <4>1. k # m + 1 => k \in 0 .. m
        OBVIOUS
      <4>2. QED BY <2>1, <4>1 DEF Summing
    <3>3. k # 0 => g[k - 1] = s[k - 1]
      BY <3>1
    <3>4. k = m + 1 => k # 0 /\ k - 1 = m
      OBVIOUS
    <3>5. QED BY <3>1, <3>2, <3>3, <3>4
  <2>3. Summing(g, f, m + 1)
    <3>1. g = [k \in 0 .. m + 1 |-> g[k]]
      OBVIOUS
    <3> HIDE DEF g
    <3>2. QED BY <2>2, <3>1 DEF Summing
  <2>4. QED BY <2>3
<1>3. n \in 0 .. n
  OBVIOUS
<1> HIDE DEF T
<1>4. n \in T
  BY <1>1, <1>2, <1>3, UpTo
<1>5. QED BY <1>4 DEF T

LEMMA TotalIs ==
  ASSUME NEW f, NEW n \in Nat
  PROVE  \E s : Summing(s, f, n) /\ Total(f, n) = s[n]
<1> DEFINE s == CHOOSE s : Summing(s, f, n)
<1>1. Total(f, n) = s[n]
  BY DEF Total, Summing
<1>2. Summing(s, f, n)
  BY SummingExists
<1>3. QED BY <1>1, <1>2

LEMMA SumsAgree ==
  ASSUME NEW f, NEW g, NEW n \in Nat, NEW m \in Nat, NEW s, NEW t,
         Summing(s, f, n), Summing(t, g, m), n <= m, \A i \in 0 .. n - 1 : f[i] = g[i]
  PROVE  \A k \in 0 .. n : s[k] = t[k]
<1> DEFINE T == {k \in 0 .. n : s[k] = t[k]}
<1>1. 0 \in T
  BY DEF Summing
<1>2. ASSUME NEW k \in 0 .. n - 1, k \in T PROVE k + 1 \in T
  <2>1. k + 1 \in 0 .. n /\ k + 1 \in 0 .. m /\ k + 1 # 0 /\ (k + 1) - 1 = k
    OBVIOUS
  <2>2. s[k + 1] = s[k] + f[k]
    BY <2>1 DEF Summing
  <2>3. t[k + 1] = t[k] + g[k]
    BY <2>1 DEF Summing
  <2>4. QED BY <1>2, <2>1, <2>2, <2>3
<1> HIDE DEF T
<1>3. \A k \in 0 .. n : k \in T
  BY <1>1, <1>2, UpTo
<1>4. QED BY <1>3 DEF T

LEMMA TotalSame ==
  ASSUME NEW f, NEW g, NEW n \in Nat, \A i \in 0 .. n - 1 : f[i] = g[i]
  PROVE  Total(f, n) = Total(g, n)
<1>1. PICK s : Summing(s, f, n) /\ Total(f, n) = s[n]
  BY TotalIs
<1>2. PICK t : Summing(t, g, n) /\ Total(g, n) = t[n]
  BY TotalIs
<1>3. \A k \in 0 .. n : s[k] = t[k]
  BY <1>1, <1>2, SumsAgree
<1>4. QED BY <1>1, <1>2, <1>3

LEMMA TotalNone == ASSUME NEW f PROVE Total(f, 0) = 0
<1>1. PICK s : Summing(s, f, 0) /\ Total(f, 0) = s[0]
  BY TotalIs
<1>2. QED BY <1>1 DEF Summing

LEMMA TotalNext ==
  ASSUME NEW f, NEW n \in Nat
  PROVE  Total(f, n + 1) = Total(f, n) + f[n]
<1>1. PICK s : Summing(s, f, n) /\ Total(f, n) = s[n]
  BY TotalIs
<1>2. PICK t : Summing(t, f, n + 1) /\ Total(f, n + 1) = t[n + 1]
  BY TotalIs
<1>3. s[n] = t[n]
  <2>1. \A k \in 0 .. n : s[k] = t[k]
    BY <1>1, <1>2, SumsAgree
  <2>2. QED BY <2>1
<1>4. t[n + 1] = t[n] + f[n]
  <2>1. n + 1 \in 0 .. n + 1 /\ n + 1 # 0 /\ (n + 1) - 1 = n
    OBVIOUS
  <2>2. QED BY <1>2, <2>1 DEF Summing
<1>5. QED BY <1>1, <1>2, <1>3, <1>4

LEMMA TotalType ==
  ASSUME NEW f, NEW n \in Nat, \A i \in 0 .. n - 1 : f[i] \in Int
  PROVE  \A m \in 0 .. n : Total(f, m) \in Int
<1> DEFINE T == {m \in 0 .. n : Total(f, m) \in Int}
<1>1. 0 \in T
  BY TotalNone
<1>2. ASSUME NEW m \in 0 .. n - 1, m \in T PROVE m + 1 \in T
  <2>1. Total(f, m + 1) = Total(f, m) + f[m]
    BY TotalNext
  <2>2. QED BY <1>2, <2>1
<1> HIDE DEF T
<1>3. \A m \in 0 .. n : m \in T
  BY <1>1, <1>2, UpTo
<1>4. QED BY <1>3 DEF T

\* One summand changes, zeros are added, or one summand is taken out.
LEMMA TotalChanged ==
  ASSUME NEW f, NEW g, NEW n \in Nat, NEW j \in 0 .. n - 1,
         \A i \in 0 .. n - 1 : f[i] \in Int /\ g[i] \in Int /\ (i # j => g[i] = f[i])
  PROVE  Total(g, n) = Total(f, n) + g[j] - f[j]
<1> DEFINE P(m) == Total(g, m) = Total(f, m) + (IF m > j THEN g[j] - f[j] ELSE 0)
           T == {m \in 0 .. n : P(m)}
<1>1. 0 \in T
  BY TotalNone
<1>2. ASSUME NEW m \in 0 .. n - 1, m \in T PROVE m + 1 \in T
  <2> DEFINE F == Total(f, m)
             G == Total(g, m)
  <2>1. Total(f, m + 1) = F + f[m] /\ Total(g, m + 1) = G + g[m]
    BY TotalNext
  <2>2. F \in Int
    BY TotalType
  <2>3. f[m] \in Int /\ g[m] \in Int /\ f[j] \in Int /\ g[j] \in Int
        /\ (m # j => g[m] = f[m])
    OBVIOUS
  <2>4. G = F + (IF m > j THEN g[j] - f[j] ELSE 0)
    BY <1>2
  <2> HIDE DEF F, G
  <2>5. P(m + 1)
    BY <2>1, <2>2, <2>3, <2>4
  <2>6. QED BY <2>5
<1>3. n \in 0 .. n /\ n > j
  OBVIOUS
<1>4. n \in T
  <2> HIDE DEF T
  <2>1. QED BY <1>1, <1>2, <1>3, UpTo
<1>5. Total(f, n) \in Int /\ f[j] \in Int /\ g[j] \in Int
  BY <1>3, TotalType
<1>6. QED BY <1>3, <1>4, <1>5

LEMMA TotalExtended ==
  ASSUME NEW f, NEW g, NEW n \in Nat, NEW m \in Nat, n <= m,
         \A i \in 0 .. n - 1 : f[i] \in Int /\ g[i] = f[i], \A i \in n .. m - 1 : g[i] = 0
  PROVE  Total(g, m) = Total(f, n)
<1> DEFINE T == {k \in Nat : Total(g, n + k) = Total(f, n)}
<1>1. 0 \in T
  <2>1. Total(g, n) = Total(f, n)
    BY TotalSame
  <2>2. QED BY <2>1
<1>2. ASSUME NEW k \in 0 .. (m - n) - 1, k \in T PROVE k + 1 \in T
  <2>1. n + k \in n .. m - 1 /\ n + k \in Nat /\ (n + k) + 1 = n + (k + 1) /\ k + 1 \in Nat
    OBVIOUS
  <2>2. Total(g, (n + k) + 1) = Total(g, n + k) + g[n + k]
    BY <2>1, TotalNext
  <2>3. Total(f, n) \in Int
    <3>1. n \in 0 .. n
      OBVIOUS
    <3>2. QED BY <3>1, TotalType
  <2>4. QED BY <1>2, <2>1, <2>2, <2>3
<1>3. m - n \in Nat /\ m - n \in 0 .. m - n /\ n + (m - n) = m
  OBVIOUS
<1>4. m - n \in T
  <2> HIDE DEF T
  <2>1. QED BY <1>1, <1>2, <1>3, UpTo
<1>5. QED BY <1>3, <1>4

LEMMA TotalWithout ==
  ASSUME NEW f, NEW g, NEW n \in Nat, NEW j \in 0 .. n,
         \A i \in 0 .. n : f[i] \in Int,
         \A i \in 0 .. n - 1 : g[i] = IF i < j THEN f[i] ELSE f[i + 1]
  PROVE  Total(g, n) = Total(f, n + 1) - f[j]
<1> DEFINE P(m) == Total(g, m) = IF m <= j THEN Total(f, m) ELSE Total(f, m + 1) - f[j]
           T == {m \in 0 .. n : P(m)}
<1>1. 0 \in T
  BY TotalNone
<1>2. ASSUME NEW m \in 0 .. n - 1, m \in T PROVE m + 1 \in T
  <2> DEFINE A == Total(f, m)
             G == Total(g, m)
  <2>1. /\ Total(f, m + 1) = A + f[m] /\ Total(g, m + 1) = G + g[m]
        /\ Total(f, (m + 1) + 1) = Total(f, m + 1) + f[m + 1]
    BY TotalNext
  <2>2. A \in Int
    <3>1. \A i \in 0 .. n - 1 : f[i] \in Int
      OBVIOUS
    <3>2. QED BY <3>1, TotalType
  <2>3. /\ f[m] \in Int /\ f[m + 1] \in Int /\ f[j] \in Int
        /\ g[m] = IF m < j THEN f[m] ELSE f[m + 1]
    OBVIOUS
  <2>4. G = IF m <= j THEN A ELSE Total(f, m + 1) - f[j]
    BY <1>2
  <2> HIDE DEF A, G
  <2>5. P(m + 1)
    <3>1. CASE m < j
      BY <2>1, <2>2, <2>3, <2>4, <3>1
    <3>2. CASE m = j
      BY <2>1, <2>2, <2>3, <2>4, <3>2
    <3>3. CASE m > j
      BY <2>1, <2>2, <2>3, <2>4, <3>3
    <3>4. QED BY <3>1, <3>2, <3>3
  <2>6. QED BY <2>5
<1>3. n \in 0 .. n
  OBVIOUS
<1>4. P(n)
  <2>1. n \in T
    <3> HIDE DEF T
    <3>1. QED BY <1>1, <1>2, <1>3, UpTo
  <2>2. QED BY <2>1
<1>5. Total(f, n + 1) = Total(f, n) + f[n]
  BY TotalNext
<1>6. Total(f, n) \in Int /\ f[n] \in Int
  <2>1. \A i \in 0 .. n - 1 : f[i] \in Int
    OBVIOUS
  <2>2. QED BY <1>3, <2>1, TotalType
<1>7. QED BY <1>4, <1>5, <1>6

----------------------------------------------------------------------------
(* Tables and their chains. *)

\* The chain of index b in a table of size n.
OneChain(c, n, b) ==
  /\ c \in Seq(Entry)
  /\ \A j \in 1 .. Len(c) :
       /\ Sum[c[j].name] % n = b /\ c[j].bucket = b
       /\ \A k \in 1 .. Len(c) : c[k].name = c[j].name => k = j

GoodTables ==
  {tp \in Tables : \A b \in 0 .. tp.size - 1 : OneChain(tp.hash_table[b], tp.size, b)}

\* An entry with another value, a chain with another entry at k and without the
\* one at k, and a table with another chain at b.
EntryWith(e, v) == [e EXCEPT !.content = v]
ChainWith(c, k, e) == [c EXCEPT ![k] = e]
ChainWithout(c, k) == SubSeq(c, 1, k - 1) \o SubSeq(c, k + 1, Len(c))
TableWith(tp, b, c) == [tp EXCEPT !.hash_table[b] = c]

LEMMA PrimeIs ==
  ASSUME NEW size \in Nat \ {0}
  PROVE  calcPrime(size) \in 1 .. size
<1> DEFINE T == {d \in 0 .. size - 1 : isPrime(size - d)}
           x == Smallest(T)
<1>1. size - 1 \in T
  <2>1. 1 \div 2 = 0
    OBVIOUS
  <2>2. isPrime(1)
    BY <2>1 DEF isPrime
  <2>3. size - (size - 1) = 1 /\ size - 1 \in 0 .. size - 1
    OBVIOUS
  <2>4. QED BY <2>2, <2>3
<1>2. x \in T /\ \A y \in T : x <= y
  <2>1. T \in SUBSET Nat
    OBVIOUS
  <2> HIDE DEF T
  <2>2. QED BY <1>1, <2>1, SmallestOfNat
<1> HIDE DEF x
<1>3. size - x \in 1 .. size /\ isPrime(size - x)
  BY <1>2
<1>4. ASSUME NEW k \in size - x + 1 .. size PROVE ~ isPrime(k)
  <2>1. x \in 0 .. size - 1
    BY <1>2
  <2>2. size - k \in 0 .. size - 1 /\ size - k < x /\ size - (size - k) = k
    BY <2>1
  <2>3. size - k \notin T
    BY <1>2, <2>1, <2>2
  <2>4. QED BY <2>2, <2>3
<1>5. \E n \in 1 .. size : isPrime(n) /\ \A k \in n + 1 .. size : ~ isPrime(k)
  BY <1>3, <1>4
<1>6. QED BY <1>5 DEF calcPrime

LEMMA NewSize ==
  ASSUME HashAssumption, NEW size \in Sizes
  PROVE  NewTable(size).size \in Nat \ {0}
<1> DEFINE s == IF size < 0 THEN WEBS_SMALL_HASH ELSE size
<1>1. s \in Nat \ {0}
  BY DEF HashAssumption
<1>2. NewTable(size).size = calcPrime(s)
  BY DEF NewTable
<1> HIDE DEF s
<1>3. calcPrime(s) \in 1 .. s
  BY <1>1, PrimeIs
<1>4. QED BY <1>1, <1>2, <1>3

LEMMA TableParts ==
  ASSUME HashAssumption, NEW tp \in GoodTables
  PROVE  /\ tp.size \in TableSizes /\ tp.size \in Nat \ {0} /\ tp # Null
         /\ tp.hash_table \in [0 .. tp.size - 1 -> Seq(Entry)]
         /\ tp = [size |-> tp.size, hash_table |-> tp.hash_table]
         /\ \A b \in 0 .. tp.size - 1 : OneChain(tp.hash_table[b], tp.size, b)
<1>1. PICK n \in TableSizes : tp \in TablesOf(n)
  BY DEF GoodTables, Tables
<1>2. /\ tp.size = n /\ tp.hash_table \in [0 .. n - 1 -> Seq(Entry)]
      /\ tp = [size |-> tp.size, hash_table |-> tp.hash_table]
  BY <1>1 DEF TablesOf
<1>3. n \in Nat \ {0}
  BY NewSize DEF TableSizes
<1>4. tp # Null
  BY <1>1 DEF HashAssumption
<1>5. \A b \in 0 .. tp.size - 1 : OneChain(tp.hash_table[b], tp.size, b)
  BY DEF GoodTables
<1>6. QED BY <1>2, <1>3, <1>4, <1>5

LEMMA TableIs ==
  ASSUME NEW n \in TableSizes, NEW f \in [0 .. n - 1 -> Seq(Entry)],
         \A b \in 0 .. n - 1 : OneChain(f[b], n, b)
  PROVE  [size |-> n, hash_table |-> f] \in GoodTables
<1> DEFINE tp == [size |-> n, hash_table |-> f]
<1>1. tp \in TablesOf(n)
  BY DEF TablesOf
<1>2. tp.size = n /\ tp.hash_table = f
  OBVIOUS
<1> HIDE DEF tp
<1>3. tp \in Tables
  BY <1>1 DEF Tables
<1>4. tp \in GoodTables
  BY <1>2, <1>3 DEF GoodTables
<1>5. QED BY <1>4 DEF tp

LEMMA NewTableIs ==
  ASSUME HashAssumption, NEW size \in Sizes
  PROVE  /\ NewTable(size) \in GoodTables
         /\ \A b \in 0 .. NewTable(size).size - 1 : NewTable(size).hash_table[b] = << >>
<1> DEFINE n == NewTable(size).size
           f == [i \in 0 .. n - 1 |-> << >>]
<1>1. NewTable(size) = [size |-> n, hash_table |-> f]
  BY DEF NewTable
<1>2. n \in Nat \ {0} /\ n \in TableSizes
  BY NewSize DEF TableSizes
<1> HIDE DEF n
<1>3. f \in [0 .. n - 1 -> Seq(Entry)]
  OBVIOUS
<1>4. ASSUME NEW b \in 0 .. n - 1 PROVE f[b] = << >> /\ OneChain(f[b], n, b)
  <2>1. f[b] = << >> /\ << >> \in Seq(Entry) /\ Len(<< >>) = 0
    OBVIOUS
  <2> HIDE DEF f
  <2>2. QED BY <2>1 DEF OneChain
<1> HIDE DEF f
<1>5. [size |-> n, hash_table |-> f] \in GoodTables
  BY <1>2, <1>3, <1>4, TableIs
<1>6. QED BY <1>1, <1>4, <1>5

\* A table with another chain.
LEMMA ChainSet ==
  ASSUME HashAssumption, NEW tp \in GoodTables, NEW b \in 0 .. tp.size - 1,
         NEW c, OneChain(c, tp.size, b), NEW u, u = TableWith(tp, b, c)
  PROVE  /\ u \in GoodTables /\ u.size = tp.size /\ u.hash_table[b] = c
         /\ \A a \in 0 .. tp.size - 1 : a # b => u.hash_table[a] = tp.hash_table[a]
<1> DEFINE n == tp.size
           f == [tp.hash_table EXCEPT ![b] = c]
<1>1. /\ n \in TableSizes /\ tp.hash_table \in [0 .. n - 1 -> Seq(Entry)]
      /\ tp = [size |-> n, hash_table |-> tp.hash_table]
      /\ \A a \in 0 .. n - 1 : OneChain(tp.hash_table[a], n, a)
  BY TableParts
<1>2. u = [size |-> n, hash_table |-> f]
  BY <1>1 DEF TableWith
<1>3. c \in Seq(Entry)
  BY DEF OneChain
<1>4. /\ f \in [0 .. n - 1 -> Seq(Entry)] /\ f[b] = c
      /\ \A a \in 0 .. n - 1 : a # b => f[a] = tp.hash_table[a]
  BY <1>1, <1>3
<1> HIDE DEF f, n
<1>5. \A a \in 0 .. n - 1 : OneChain(f[a], n, a)
  <2>1. OneChain(c, n, b)
    BY DEF n
  <2>2. QED BY <1>1, <1>4, <2>1
<1>6. [size |-> n, hash_table |-> f] \in GoodTables
  BY <1>1, <1>4, <1>5, TableIs
<1>7. u.size = n /\ u.hash_table = f
  BY <1>2
<1>8. QED BY <1>2, <1>4, <1>6, <1>7 DEF n

----------------------------------------------------------------------------
(* What a table holds. *)

InChain(c, name, v) == \E j \in 1 .. Len(c) : c[j].name = name /\ c[j].content = v
Holds(tp, name, v) == InChain(Chain(tp, name), name, v)

LEMMA IndexIs ==
  ASSUME HashAssumption, NEW tp \in GoodTables, NEW name \in Names
  PROVE  hashIndex(tp, name) \in 0 .. tp.size - 1
<1>1. Sum[name] \in Nat /\ tp.size \in Nat \ {0}
  BY TableParts DEF HashAssumption
<1> DEFINE s == Sum[name]
           n == tp.size
<1>2. hashIndex(tp, name) = s % n
  BY DEF hashIndex
<1> HIDE DEF s, n
<1>3. s % n \in 0 .. n - 1
  BY <1>1 DEF s, n
<1>4. QED BY <1>2, <1>3 DEF n

\* The place of a name is where it is, and the only one.
LEMMA PlaceIs ==
  ASSUME NEW n, NEW b, NEW c, OneChain(c, n, b), NEW name
  PROVE  /\ Place(c, name) \in 0 .. Len(c)
         /\ Place(c, name) = 0 => \A j \in 1 .. Len(c) : c[j].name # name
         /\ Place(c, name) # 0 => c[Place(c, name)].name = name
         /\ \A j \in 1 .. Len(c) : c[j].name = name => j = Place(c, name)
<1>1. c \in Seq(Entry) /\ Len(c) \in Nat /\ DOMAIN c = 1 .. Len(c)
  BY DEF OneChain
<1> DEFINE T == {k \in DOMAIN c : c[k].name = name}
<1>2. CASE \E k \in DOMAIN c : c[k].name = name
  <2>1. Place(c, name) = Smallest(T)
    BY <1>2 DEF Place
  <2>2. T \in SUBSET Nat /\ T # {}
    BY <1>1, <1>2
  <2> HIDE DEF T
  <2>3. Smallest(T) \in T
    BY <2>2, SmallestOfNat
  <2> USE DEF T
  <2>4. \A j \in 1 .. Len(c) : c[j].name = name => j = Smallest(T)
    BY <1>1, <2>3 DEF OneChain
  <2>5. QED BY <1>1, <2>1, <2>3, <2>4
<1>3. CASE ~ \E k \in DOMAIN c : c[k].name = name
  <2>1. Place(c, name) = 0
    BY <1>3 DEF Place
  <2>2. QED BY <1>1, <1>3, <2>1
<1>4. QED BY <1>2, <1>3

LEMMA LookupIs ==
  ASSUME HashAssumption, NEW tp \in GoodTables, NEW name \in Names,
         NEW b, b = hashIndex(tp, name), NEW c, c = tp.hash_table[b],
         NEW k, k = Place(c, name)
  PROVE  /\ b \in 0 .. tp.size - 1 /\ c = Chain(tp, name) /\ OneChain(c, tp.size, b)
         /\ hashLookup(tp, name) = IF k = 0 THEN NoEntry ELSE c[k]
         /\ hashLookup(tp, name) = NoEntry <=> k = 0
         /\ k # 0 => k \in 1 .. Len(c) /\ c[k] \in Entry /\ c[k].name = name
         /\ \A v : Holds(tp, name, v) <=> k # 0 /\ c[k].content = v
<1>1. b \in 0 .. tp.size - 1
  BY IndexIs
<1>2. c = Chain(tp, name)
  BY DEF Chain
<1>3. OneChain(c, tp.size, b)
  BY <1>1, TableParts
<1>4. /\ k \in 0 .. Len(c)
      /\ k = 0 => \A j \in 1 .. Len(c) : c[j].name # name
      /\ k # 0 => c[k].name = name
      /\ \A j \in 1 .. Len(c) : c[j].name = name => j = k
  BY <1>3, PlaceIs
<1>5. c \in Seq(Entry) /\ Len(c) \in Nat
  BY <1>3 DEF OneChain
<1>6. k # 0 => k \in 1 .. Len(c) /\ c[k] \in Entry
  BY <1>4, <1>5
<1>7. name # << >>
  BY DEF HashAssumption
<1>8. hashLookup(tp, name) = IF k = 0 THEN NoEntry ELSE c[k]
  BY <1>2, <1>7 DEF hashLookup
<1>9. k # 0 => c[k] # NoEntry
  <2>1. NoEntry.name = << >>
    BY DEF NoEntry
  <2>2. QED BY <1>4, <1>7, <2>1
<1>10. ASSUME NEW v PROVE Holds(tp, name, v) <=> k # 0 /\ c[k].content = v
  BY <1>2, <1>4, <1>6 DEF Holds, InChain
<1>11. QED BY <1>1, <1>2, <1>3, <1>4, <1>6, <1>8, <1>9, <1>10

----------------------------------------------------------------------------
(* What chains and tables own. *)

\* The summands of OwnedByChain and Owned.
ByEntries(c) == [k \in 0 .. Len(c) - 1 |-> OwnedByEntry(c[k + 1])]
ByChains(tp) == [b \in 0 .. tp.size - 1 |-> OwnedByChain(tp.hash_table[b])]

LEMMA CopiesType ==
  ASSUME HashAssumption, NEW v \in Values
  PROVE  Copies(v) \in {0, 1}
BY DEF HashAssumption, Copies

LEMMA ChainOwns ==
  ASSUME HashAssumption, NEW c \in Seq(Entry)
  PROVE  /\ OwnedByChain(c) = Total(ByEntries(c), Len(c)) /\ OwnedByChain(c) \in Int
         /\ \A k \in 0 .. Len(c) - 1 :
              ByEntries(c)[k] = OwnedByEntry(c[k + 1]) /\ ByEntries(c)[k] \in Int
<1>1. OwnedByChain(c) = Total(ByEntries(c), Len(c))
  BY DEF OwnedByChain, ByEntries
<1>2. ASSUME NEW k \in 0 .. Len(c) - 1
      PROVE  ByEntries(c)[k] = OwnedByEntry(c[k + 1]) /\ ByEntries(c)[k] \in Int
  <2>1. ByEntries(c)[k] = OwnedByEntry(c[k + 1])
    BY DEF ByEntries
  <2>2. c[k + 1].content \in Values
    <3>1. c[k + 1] \in Entry
      OBVIOUS
    <3>2. QED BY <3>1 DEF Entry
  <2>3. Copies(c[k + 1].content) \in {0, 1}
    BY <2>2, CopiesType
  <2>4. QED BY <2>1, <2>3 DEF OwnedByEntry
<1>3. Len(c) \in Nat /\ Len(c) \in 0 .. Len(c)
  OBVIOUS
<1>4. Total(ByEntries(c), Len(c)) \in Int
  BY <1>2, <1>3, TotalType
<1>5. QED BY <1>1, <1>2, <1>4

LEMMA OwnsNone == OwnedByChain(<< >>) = 0
<1>1. Len(<< >>) = 0
  OBVIOUS
<1>2. QED BY <1>1, TotalNone DEF OwnedByChain

LEMMA OwnsReplaced ==
  ASSUME HashAssumption, NEW c \in Seq(Entry), NEW k \in 1 .. Len(c), NEW e \in Entry,
         NEW d, d = ChainWith(c, k, e)
  PROVE  OwnedByChain(d) = OwnedByChain(c) + OwnedByEntry(e) - OwnedByEntry(c[k])
<1> DEFINE n == Len(c)
           f == ByEntries(c)
           g == ByEntries(d)
           j == k - 1
<1>1. d \in Seq(Entry) /\ Len(d) = n /\ n \in Nat /\ j \in 0 .. n - 1 /\ j + 1 = k
  BY DEF ChainWith
<1>2. \A i \in 1 .. n : d[i] = IF i = k THEN e ELSE c[i]
  BY DEF ChainWith
<1>3. /\ OwnedByChain(c) = Total(f, n)
      /\ \A i \in 0 .. n - 1 : f[i] = OwnedByEntry(c[i + 1]) /\ f[i] \in Int
  BY ChainOwns
<1>4. /\ OwnedByChain(d) = Total(g, n)
      /\ \A i \in 0 .. n - 1 : g[i] = OwnedByEntry(d[i + 1]) /\ g[i] \in Int
  <2>1. /\ OwnedByChain(d) = Total(g, Len(d))
        /\ \A i \in 0 .. Len(d) - 1 : g[i] = OwnedByEntry(d[i + 1]) /\ g[i] \in Int
    BY <1>1, ChainOwns
  <2>2. QED BY <1>1, <2>1
<1> HIDE DEF n, f, g, j
<1>5. ASSUME NEW i \in 0 .. n - 1, i # j PROVE g[i] = f[i]
  <2>1. i + 1 \in 1 .. n /\ i + 1 # k
    BY <1>1, <1>5
  <2>2. QED BY <1>2, <1>3, <1>4, <2>1
<1>6. Total(g, n) = Total(f, n) + g[j] - f[j]
  BY <1>1, <1>3, <1>4, <1>5, TotalChanged
<1>7. g[j] = OwnedByEntry(e) /\ f[j] = OwnedByEntry(c[k])
  BY <1>1, <1>2, <1>3, <1>4
<1>8. QED BY <1>3, <1>4, <1>6, <1>7

LEMMA OwnsAppended ==
  ASSUME HashAssumption, NEW c \in Seq(Entry), NEW e \in Entry
  PROVE  OwnedByChain(Append(c, e)) = OwnedByChain(c) + OwnedByEntry(e)
<1> DEFINE n == Len(c)
           d == Append(c, e)
           f == ByEntries(c)
           g == ByEntries(d)
<1>1. d \in Seq(Entry) /\ Len(d) = n + 1 /\ n \in Nat
  OBVIOUS
<1>2. d[n + 1] = e /\ \A i \in 1 .. n : d[i] = c[i]
  OBVIOUS
<1>3. /\ OwnedByChain(c) = Total(f, n)
      /\ \A i \in 0 .. n - 1 : f[i] = OwnedByEntry(c[i + 1])
  BY ChainOwns
<1>4. /\ OwnedByChain(d) = Total(g, Len(d))
      /\ \A i \in 0 .. Len(d) - 1 : g[i] = OwnedByEntry(d[i + 1])
  <2> HIDE DEF d
  <2>1. QED BY <1>1, ChainOwns
<1> HIDE DEF n, d, f, g
<1>5. Total(g, n + 1) = Total(g, n) + g[n]
  BY <1>1, TotalNext
<1>6. ASSUME NEW i \in 0 .. n - 1 PROVE g[i] = f[i]
  <2>1. i + 1 \in 1 .. n /\ i \in 0 .. Len(d) - 1
    BY <1>1
  <2>2. QED BY <1>2, <1>3, <1>4, <2>1
<1>7. Total(g, n) = Total(f, n)
  BY <1>1, <1>6, TotalSame
<1>8. g[n] = OwnedByEntry(e)
  BY <1>1, <1>2, <1>4
<1>9. QED BY <1>1, <1>3, <1>4, <1>5, <1>7, <1>8 DEF d

LEMMA JoinIs ==
  ASSUME NEW s \in Seq(Entry), NEW t \in Seq(Entry)
  PROVE  /\ s \o t \in Seq(Entry) /\ Len(s \o t) = Len(s) + Len(t)
         /\ \A i \in 1 .. Len(s) + Len(t) :
              (s \o t)[i] = IF i <= Len(s) THEN s[i] ELSE t[i - Len(s)]
<1>1. s \o t \in Seq(Entry) /\ Len(s \o t) = Len(s) + Len(t)
  OBVIOUS
<1>2. ASSUME NEW i \in 1 .. Len(s) + Len(t)
      PROVE  (s \o t)[i] = IF i <= Len(s) THEN s[i] ELSE t[i - Len(s)]
  OBVIOUS
<1>3. QED BY <1>1, <1>2

\* A chain without its k-th entry.
LEMMA CutOut ==
  ASSUME NEW c \in Seq(Entry), NEW k \in 1 .. Len(c), NEW d, d = ChainWithout(c, k)
  PROVE  /\ d \in Seq(Entry) /\ Len(d) = Len(c) - 1 /\ Len(c) - 1 \in Nat
         /\ \A i \in 1 .. Len(c) - 1 : d[i] = IF i < k THEN c[i] ELSE c[i + 1]
<1> DEFINE s == SubSeq(c, 1, k - 1)
           t == SubSeq(c, k + 1, Len(c))
           n == Len(c)
<1>1. n \in Nat /\ k \in 1 .. n
  OBVIOUS
<1>2. s \in Seq(Entry) /\ Len(s) = k - 1 /\ \A i \in 1 .. k - 1 : s[i] = c[i]
  OBVIOUS
<1>3. t \in Seq(Entry) /\ Len(t) = n - k
  OBVIOUS
<1>4. ASSUME NEW i \in 1 .. n - k PROVE t[i] = c[k + i]
  <2>1. t[i] = c[(k + 1) + i - 1] /\ (k + 1) + i - 1 = k + i
    OBVIOUS
  <2>2. QED BY <2>1
<1> HIDE DEF s, t
<1>5. d = s \o t
  BY DEF s, t, ChainWithout
<1>6. /\ d \in Seq(Entry) /\ Len(d) = Len(s) + Len(t)
      /\ \A i \in 1 .. Len(s) + Len(t) : d[i] = IF i <= Len(s) THEN s[i] ELSE t[i - Len(s)]
  <2>1. s \in Seq(Entry) /\ t \in Seq(Entry)
    BY <1>2, <1>3
  <2>2. /\ s \o t \in Seq(Entry) /\ Len(s \o t) = Len(s) + Len(t)
        /\ \A i \in 1 .. Len(s) + Len(t) :
             (s \o t)[i] = IF i <= Len(s) THEN s[i] ELSE t[i - Len(s)]
    BY <2>1, JoinIs
  <2> DEFINE q == s \o t
  <2>3. d = q
    BY <1>5
  <2> HIDE DEF q
  <2>4. QED BY <2>2, <2>3 DEF q
<1> DEFINE l == Len(s)
<1>7. l = k - 1 /\ Len(s) + Len(t) = n - 1
  BY <1>1, <1>2, <1>3
<1> HIDE DEF n, l
<1>8. ASSUME NEW i \in 1 .. n - 1 PROVE d[i] = IF i < k THEN c[i] ELSE c[i + 1]
  <2>1. d[i] = IF i <= l THEN s[i] ELSE t[i - l]
    BY <1>6, <1>7 DEF l
  <2>2. CASE i < k
    <3>1. i <= l /\ i \in 1 .. k - 1
      BY <1>1, <1>7, <2>2
    <3>2. QED BY <1>2, <2>1, <2>2, <3>1
  <2>3. CASE ~ i < k
    <3>1. ~ i <= l /\ i - l \in 1 .. n - k /\ k + (i - l) = i + 1
      BY <1>1, <1>7, <2>3
    <3>2. QED BY <1>4, <2>1, <2>3, <3>1
  <2>4. QED BY <2>2, <2>3
<1>9. Len(d) = n - 1 /\ n - 1 \in Nat
  <2>1. Len(d) = n - 1
    BY <1>6, <1>7
  <2>2. n - 1 \in Nat
    BY <1>1
  <2>3. QED BY <2>1, <2>2
<1>10. QED BY <1>6, <1>8, <1>9 DEF n

LEMMA OwnsCut ==
  ASSUME HashAssumption, NEW c \in Seq(Entry), NEW k \in 1 .. Len(c), NEW d, d = ChainWithout(c, k)
  PROVE  OwnedByChain(d) = OwnedByChain(c) - OwnedByEntry(c[k])
<1> DEFINE n == Len(c) - 1
           f == ByEntries(c)
           g == ByEntries(d)
           j == k - 1
<1>1. /\ d \in Seq(Entry) /\ Len(d) = n /\ n \in Nat
      /\ \A i \in 1 .. n : d[i] = IF i < k THEN c[i] ELSE c[i + 1]
  BY CutOut
<1>2. Len(c) = n + 1 /\ j \in 0 .. n /\ j + 1 = k /\ k \in Nat
  BY <1>1
<1>3. /\ OwnedByChain(c) = Total(f, Len(c))
      /\ \A i \in 0 .. Len(c) - 1 : f[i] = OwnedByEntry(c[i + 1]) /\ f[i] \in Int
  BY ChainOwns
<1>4. /\ OwnedByChain(d) = Total(g, Len(d))
      /\ \A i \in 0 .. Len(d) - 1 : g[i] = OwnedByEntry(d[i + 1])
  BY <1>1, ChainOwns
<1> HIDE DEF n, f, g, j
<1>5. \A i \in 0 .. n : f[i] = OwnedByEntry(c[i + 1]) /\ f[i] \in Int
  <2>1. Len(c) - 1 = n
    BY <1>1, <1>2
  <2>2. QED BY <1>3, <2>1
<1>6. ASSUME NEW i \in 0 .. n - 1 PROVE g[i] = IF i < j THEN f[i] ELSE f[i + 1]
  <2>1. i + 1 \in 1 .. n /\ (i + 1 < k <=> i < j) /\ i \in 0 .. n /\ i + 1 \in 0 .. n
    BY <1>1, <1>2
  <2>2. g[i] = OwnedByEntry(d[i + 1])
    BY <1>1, <1>4
  <2>3. d[i + 1] = IF i < j THEN c[i + 1] ELSE c[(i + 1) + 1]
    BY <1>1, <2>1
  <2>4. QED BY <1>5, <2>1, <2>2, <2>3
<1>7. Total(g, n) = Total(f, n + 1) - f[j]
  <2>1. n \in Nat /\ j \in 0 .. n /\ \A i \in 0 .. n : f[i] \in Int
    BY <1>1, <1>2, <1>5
  <2>2. QED BY <1>6, <2>1, TotalWithout
<1>8. f[j] = OwnedByEntry(c[k])
  BY <1>2, <1>5
<1>9. QED BY <1>1, <1>2, <1>3, <1>4, <1>7, <1>8

LEMMA TableOwns ==
  ASSUME HashAssumption, NEW tp \in GoodTables
  PROVE  /\ Owned(tp) = Total(ByChains(tp), tp.size) /\ Owned(tp) \in Int
         /\ \A b \in 0 .. tp.size - 1 :
              ByChains(tp)[b] = OwnedByChain(tp.hash_table[b]) /\ ByChains(tp)[b] \in Int
<1>1. tp.size \in Nat /\ tp.hash_table \in [0 .. tp.size - 1 -> Seq(Entry)]
  BY TableParts
<1>2. Owned(tp) = Total(ByChains(tp), tp.size)
  BY DEF Owned, ByChains
<1>3. ASSUME NEW b \in 0 .. tp.size - 1
      PROVE  ByChains(tp)[b] = OwnedByChain(tp.hash_table[b]) /\ ByChains(tp)[b] \in Int
  <2>1. ByChains(tp)[b] = OwnedByChain(tp.hash_table[b])
    BY DEF ByChains
  <2>2. tp.hash_table[b] \in Seq(Entry)
    BY <1>1
  <2>3. QED BY <2>1, <2>2, ChainOwns
<1>4. tp.size \in 0 .. tp.size
  BY <1>1
<1>5. Total(ByChains(tp), tp.size) \in Int
  BY <1>1, <1>3, <1>4, TotalType
<1>6. QED BY <1>2, <1>3, <1>5

LEMMA NewTableOwns ==
  ASSUME HashAssumption, NEW size \in Sizes
  PROVE  Owned(NewTable(size)) = 0
<1> DEFINE tp == NewTable(size)
           n == tp.size
           f == ByChains(tp)
           z == [b \in {} |-> 0]
<1>1. tp \in GoodTables /\ \A b \in 0 .. n - 1 : tp.hash_table[b] = << >>
  BY NewTableIs
<1>2. Owned(tp) = Total(f, n) /\ \A b \in 0 .. n - 1 : f[b] = OwnedByChain(tp.hash_table[b])
  <2> HIDE DEF tp
  <2>1. QED BY <1>1, TableOwns
<1>3. n \in Nat
  BY NewSize
<1> HIDE DEF tp, n, f, z
<1>4. \A b \in 0 .. n - 1 : f[b] = 0
  BY <1>1, <1>2, OwnsNone
<1>5. Total(f, n) = Total(z, 0)
  BY <1>3, <1>4, TotalExtended
<1>6. QED BY <1>2, <1>5, TotalNone DEF tp

\* A table that has another chain owns what that owns more.
LEMMA OwnsChain ==
  ASSUME HashAssumption, NEW tp \in GoodTables, NEW u \in GoodTables,
         NEW b \in 0 .. tp.size - 1, u.size = tp.size,
         \A a \in 0 .. tp.size - 1 : a # b => u.hash_table[a] = tp.hash_table[a]
  PROVE  Owned(u) = Owned(tp) + OwnedByChain(u.hash_table[b]) - OwnedByChain(tp.hash_table[b])
<1> DEFINE n == tp.size
           f == ByChains(tp)
           g == ByChains(u)
<1>1. n \in Nat /\ b \in 0 .. n - 1
  BY TableParts
<1>2. /\ Owned(tp) = Total(f, n)
      /\ \A a \in 0 .. n - 1 : f[a] = OwnedByChain(tp.hash_table[a]) /\ f[a] \in Int
  BY TableOwns
<1>3. /\ Owned(u) = Total(g, n)
      /\ \A a \in 0 .. n - 1 : g[a] = OwnedByChain(u.hash_table[a]) /\ g[a] \in Int
  BY TableOwns
<1>4. \A a \in 0 .. n - 1 : a # b => u.hash_table[a] = tp.hash_table[a]
  OBVIOUS
<1> HIDE DEF n, f, g
<1>5. \A a \in 0 .. n - 1 : a # b => g[a] = f[a]
  BY <1>2, <1>3, <1>4
<1>6. Total(g, n) = Total(f, n) + g[b] - f[b]
  BY <1>1, <1>2, <1>3, <1>5, TotalChanged
<1>7. QED BY <1>1, <1>2, <1>3, <1>6

----------------------------------------------------------------------------
(* What the calls do to a chain. *)

LEMMA ChainReplaced ==
  ASSUME NEW n, NEW b, NEW c, OneChain(c, n, b), NEW k \in 1 .. Len(c), NEW v \in Values,
         NEW e, e = EntryWith(c[k], v), NEW d, d = ChainWith(c, k, e)
  PROVE  /\ OneChain(d, n, b) /\ e \in Entry /\ e.content = v
         /\ \A m, w : InChain(d, m, w) <=> IF m = c[k].name THEN w = v ELSE InChain(c, m, w)
<1>1. c \in Seq(Entry) /\ Len(c) \in Nat /\ c[k] \in Entry
  BY DEF OneChain
<1>2. /\ e \in Entry /\ e.content = v
      /\ e.name = c[k].name /\ e.bucket = c[k].bucket
  BY <1>1 DEF Entry, EntryWith
<1> HIDE DEF Entry
<1>3. d \in Seq(Entry) /\ Len(d) = Len(c) /\ \A i \in 1 .. Len(c) : d[i] = IF i = k THEN e ELSE c[i]
  BY <1>1, <1>2 DEF ChainWith
<1>4. \A i \in 1 .. Len(c) : d[i].name = c[i].name /\ d[i].bucket = c[i].bucket
  BY <1>2, <1>3
<1>5. OneChain(d, n, b)
  BY <1>3, <1>4 DEF OneChain
<1>6. ASSUME NEW m, NEW w
      PROVE  InChain(d, m, w) <=> IF m = c[k].name THEN w = v ELSE InChain(c, m, w)
  <2>1. CASE m = c[k].name
    <3>1. \A j \in 1 .. Len(c) : c[j].name = m <=> j = k
      BY <2>1 DEF OneChain
    <3>2. QED BY <1>2, <1>3, <1>4, <2>1, <3>1 DEF InChain
  <2>2. CASE m # c[k].name
    <3>1. \A j \in 1 .. Len(c) : c[j].name = m => d[j] = c[j]
      BY <1>3, <2>2
    <3>2. QED BY <1>3, <1>4, <2>2, <3>1 DEF InChain
  <2>3. QED BY <2>1, <2>2
<1>7. QED BY <1>2, <1>5, <1>6

LEMMA ChainAppended ==
  ASSUME NEW n, NEW b \in Nat, NEW c, OneChain(c, n, b), NEW name \in Names, Sum[name] % n = b,
         \A j \in 1 .. Len(c) : c[j].name # name, NEW v \in Values,
         NEW e, e = [name |-> name, content |-> v, bucket |-> b]
  PROVE  /\ OneChain(Append(c, e), n, b) /\ e \in Entry
         /\ \A m, w : InChain(Append(c, e), m, w) <=> IF m = name THEN w = v ELSE InChain(c, m, w)
<1> DEFINE d == Append(c, e)
           l == Len(c)
<1>1. c \in Seq(Entry) /\ l \in Nat
  BY DEF OneChain
<1>2. e \in Entry /\ e.name = name /\ e.content = v /\ e.bucket = b
  BY DEF Entry
<1>3. d \in Seq(Entry) /\ Len(d) = l + 1 /\ d[l + 1] = e /\ \A i \in 1 .. l : d[i] = c[i]
  BY <1>1, <1>2
<1> HIDE DEF d, l
<1>4. ASSUME NEW i \in 1 .. l + 1 PROVE i \in 1 .. l \/ i = l + 1
  BY <1>1
<1>5. 1 .. l \subseteq 1 .. l + 1 /\ l + 1 \in 1 .. l + 1 /\ l + 1 \notin 1 .. l
  BY <1>1
<1>6. OneChain(d, n, b)
  <2>1. ASSUME NEW j \in 1 .. l + 1
        PROVE  /\ Sum[d[j].name] % n = b /\ d[j].bucket = b
               /\ \A k \in 1 .. l + 1 : d[k].name = d[j].name => k = j
    <3>1. CASE j \in 1 .. l
      <4>1. d[j] = c[j] /\ c[j].name # name
        BY <1>3, <3>1 DEF l
      <4>2. Sum[c[j].name] % n = b /\ c[j].bucket = b
        BY <3>1 DEF OneChain, l
      <4>3. ASSUME NEW k \in 1 .. l + 1, d[k].name = d[j].name PROVE k = j
        <5>1. k # l + 1
          BY <1>2, <1>3, <4>1, <4>3
        <5>2. k \in 1 .. l /\ d[k] = c[k]
          BY <1>3, <1>4, <5>1
        <5>3. QED BY <3>1, <4>1, <4>3, <5>2 DEF OneChain, l
      <4>4. QED BY <4>1, <4>2, <4>3
    <3>2. CASE j = l + 1
      <4>1. ASSUME NEW k \in 1 .. l + 1, d[k].name = d[j].name PROVE k = j
        <5>1. k \in 1 .. l => d[k].name # name
          BY <1>3 DEF l
        <5>2. QED BY <1>2, <1>3, <1>4, <3>2, <4>1, <5>1
      <4>2. QED BY <1>2, <1>3, <3>2, <4>1
    <3>3. QED BY <1>4, <3>1, <3>2
  <2>2. QED BY <1>3, <2>1 DEF OneChain
<1>7. ASSUME NEW m, NEW w
      PROVE  InChain(d, m, w) <=> IF m = name THEN w = v ELSE InChain(c, m, w)
  <2>1. \A j \in 1 .. l : d[j] = c[j] /\ c[j].name # name
    BY <1>3 DEF l
  <2>2. InChain(c, m, w) <=> \E j \in 1 .. l : c[j].name = m /\ c[j].content = w
    BY DEF InChain, l
  <2>3. InChain(d, m, w) <=> \E j \in 1 .. l + 1 : d[j].name = m /\ d[j].content = w
    BY <1>3 DEF InChain
  <2>4. InChain(d, m, w) <=> InChain(c, m, w) \/ (name = m /\ v = w)
    BY <1>2, <1>3, <1>4, <1>5, <2>1, <2>2, <2>3
  <2>5. ~ InChain(c, name, w)
    BY DEF InChain
  <2>6. QED BY <2>4, <2>5
<1>8. QED BY <1>2, <1>6, <1>7 DEF d

LEMMA ChainCut ==
  ASSUME NEW n, NEW b, NEW c, OneChain(c, n, b), NEW k \in 1 .. Len(c), NEW d, d = ChainWithout(c, k)
  PROVE  /\ OneChain(d, n, b)
         /\ \A m, w : InChain(d, m, w) <=> m # c[k].name /\ InChain(c, m, w)
<1> DEFINE l == Len(c)
           At(i) == IF i < k THEN i ELSE i + 1
<1>1. c \in Seq(Entry) /\ l \in Nat /\ k \in 1 .. l
  BY DEF OneChain
<1>2. /\ d \in Seq(Entry) /\ Len(d) = l - 1
      /\ \A i \in 1 .. l - 1 : d[i] = IF i < k THEN c[i] ELSE c[i + 1]
  BY <1>1, CutOut
<1>3. \A i \in 1 .. l - 1 : d[i] = c[At(i)]
  BY <1>2
<1>4. /\ \A i \in 1 .. l - 1 : At(i) \in 1 .. l /\ At(i) # k
      /\ \A i, j \in 1 .. l - 1 : At(i) = At(j) => i = j
      /\ \A j \in 1 .. l : j # k => \E i \in 1 .. l - 1 : At(i) = j
  <2> HIDE DEF l
  <2>1. \A i \in 1 .. l - 1 : At(i) \in 1 .. l /\ At(i) # k
    BY <1>1
  <2>2. \A i, j \in 1 .. l - 1 : At(i) = At(j) => i = j
    BY <1>1
  <2>3. ASSUME NEW j \in 1 .. l, j # k PROVE \E i \in 1 .. l - 1 : At(i) = j
    <3>1. CASE j < k
      <4>1. j \in 1 .. l - 1 /\ At(j) = j
        BY <1>1, <3>1
      <4>2. QED BY <4>1
    <3>2. CASE ~ j < k
      <4>1. j - 1 \in 1 .. l - 1 /\ At(j - 1) = j
        BY <1>1, <2>3, <3>2
      <4>2. QED BY <4>1
    <3>3. QED BY <3>1, <3>2
  <2>4. QED BY <2>1, <2>2, <2>3
<1>5. \A j \in 1 .. l : /\ Sum[c[j].name] % n = b /\ c[j].bucket = b
                        /\ \A i \in 1 .. l : c[i].name = c[j].name => i = j
  BY DEF OneChain
<1> HIDE DEF At, l
<1>6. OneChain(d, n, b)
  <2>1. ASSUME NEW j \in 1 .. l - 1
        PROVE  /\ Sum[d[j].name] % n = b /\ d[j].bucket = b
               /\ \A i \in 1 .. l - 1 : d[i].name = d[j].name => i = j
    <3>1. d[j] = c[At(j)] /\ At(j) \in 1 .. l
      BY <1>3, <1>4
    <3>2. Sum[c[At(j)].name] % n = b /\ c[At(j)].bucket = b
      BY <1>5, <3>1
    <3>3. ASSUME NEW i \in 1 .. l - 1, d[i].name = d[j].name PROVE i = j
      <4>1. d[i] = c[At(i)] /\ At(i) \in 1 .. l
        BY <1>3, <1>4
      <4>2. At(i) = At(j)
        BY <1>5, <3>1, <3>3, <4>1
      <4>3. QED BY <1>4, <4>2
    <3>4. QED BY <3>1, <3>2, <3>3
  <2>2. QED BY <1>2, <2>1 DEF OneChain
<1>7. ASSUME NEW m, NEW w
      PROVE  InChain(d, m, w) <=> m # c[k].name /\ InChain(c, m, w)
  <2>1. InChain(c, m, w) <=> \E j \in 1 .. l : c[j].name = m /\ c[j].content = w
    BY DEF InChain, l
  <2>2. InChain(d, m, w) <=> \E i \in 1 .. l - 1 : c[At(i)].name = m /\ c[At(i)].content = w
    BY <1>2, <1>3 DEF InChain
  <2>3. \A j \in 1 .. l : c[j].name = c[k].name <=> j = k
    BY <1>1, <1>5
  <2>4. QED BY <1>4, <2>1, <2>2, <2>3
<1>8. QED BY <1>6, <1>7

----------------------------------------------------------------------------
(* What the calls do to a table. *)

LEMMA ChainOf ==
  ASSUME HashAssumption, NEW tp \in GoodTables, NEW u, u.size = tp.size, NEW b,
         \A a \in 0 .. tp.size - 1 : a # b => u.hash_table[a] = tp.hash_table[a],
         NEW name \in Names
  PROVE  Chain(u, name) = IF hashIndex(tp, name) = b THEN u.hash_table[b] ELSE Chain(tp, name)
<1>1. hashIndex(u, name) = hashIndex(tp, name)
  BY DEF hashIndex
<1>2. hashIndex(tp, name) \in 0 .. tp.size - 1
  BY IndexIs
<1>3. QED BY <1>1, <1>2 DEF Chain

LEMMA EnteredType ==
  ASSUME HashAssumption, NEW tp \in GoodTables, NEW name \in Names, NEW v \in Values
  PROVE  Entered(tp, name, v) \in Int
<1> PICK b : b = hashIndex(tp, name)
  OBVIOUS
<1> PICK c : c = tp.hash_table[b]
  OBVIOUS
<1> PICK k : k = Place(c, name)
  OBVIOUS
<1>1. /\ hashLookup(tp, name) = IF k = 0 THEN NoEntry ELSE c[k]
      /\ hashLookup(tp, name) = NoEntry <=> k = 0
      /\ k # 0 => c[k] \in Entry
  BY LookupIs
<1>2. Copies(v) \in {0, 1}
  BY CopiesType
<1>3. k # 0 => Copies(c[k].content) \in {0, 1}
  <2>1. k # 0 => c[k].content \in Values
    BY <1>1 DEF Entry
  <2>2. QED BY <2>1, CopiesType
<1>4. QED BY <1>1, <1>2, <1>3 DEF Entered

\* hashEnter gives the name the value, and nothing to any other name.
LEMMA EnterIs ==
  ASSUME HashAssumption, NEW tp \in GoodTables, NEW name \in Names, NEW v \in Values,
         NEW u, u = hashEnter(tp, name, v)
  PROVE  /\ u \in GoodTables /\ Owned(u) = Owned(tp) + Entered(tp, name, v)
         /\ \A m \in Names : \A w : Holds(u, m, w) <=> IF m = name THEN w = v ELSE Holds(tp, m, w)
<1> DEFINE b == hashIndex(tp, name)
           c == tp.hash_table[b]
           k == Place(c, name)
<1>1. /\ b \in 0 .. tp.size - 1 /\ c = Chain(tp, name) /\ OneChain(c, tp.size, b)
      /\ hashLookup(tp, name) = IF k = 0 THEN NoEntry ELSE c[k]
      /\ hashLookup(tp, name) = NoEntry <=> k = 0
      /\ k # 0 => k \in 1 .. Len(c) /\ c[k] \in Entry /\ c[k].name = name
  BY LookupIs
<1>2. k = 0 => \A j \in 1 .. Len(c) : c[j].name # name
  BY <1>1, PlaceIs
<1>3. u = IF k # 0 THEN [tp EXCEPT !.hash_table[b][k].content = v]
          ELSE [tp EXCEPT !.hash_table[b] = Append(@, [name |-> name, content |-> v, bucket |-> b])]
  BY DEF hashEnter
<1>4. /\ tp.size \in Nat \ {0} /\ tp.hash_table \in [0 .. tp.size - 1 -> Seq(Entry)]
      /\ tp = [size |-> tp.size, hash_table |-> tp.hash_table]
  BY TableParts
<1>5. Sum[name] % tp.size = b
  BY DEF hashIndex
<1>6. c \in Seq(Entry) /\ b \in Nat
  BY <1>1, <1>4 DEF OneChain
<1>7. Copies(v) \in {0, 1}
  BY CopiesType
<1> HIDE DEF b, k
<1>8. PICK d : /\ u = TableWith(tp, b, d) /\ OneChain(d, tp.size, b)
               /\ OwnedByChain(d) = OwnedByChain(c) + Entered(tp, name, v)
               /\ \A m, w : InChain(d, m, w) <=> IF m = name THEN w = v ELSE InChain(c, m, w)
  <2>1. CASE k # 0
    <3> DEFINE e == EntryWith(c[k], v)
               d == ChainWith(c, k, e)
    <3>1. u = TableWith(tp, b, d)
      BY <1>1, <1>3, <1>4, <2>1 DEF TableWith, ChainWith, EntryWith
    <3>2. /\ OneChain(d, tp.size, b) /\ e \in Entry /\ e.content = v
          /\ \A m, w : InChain(d, m, w) <=> IF m = c[k].name THEN w = v ELSE InChain(c, m, w)
      <4>1. OneChain(c, tp.size, b) /\ k \in 1 .. Len(c)
        BY <1>1, <2>1
      <4> HIDE DEF c
      <4>2. QED BY <4>1, ChainReplaced
    <3>3. OwnedByChain(d) = OwnedByChain(c) + OwnedByEntry(e) - OwnedByEntry(c[k])
      BY <1>1, <1>6, <2>1, <3>2, OwnsReplaced
    <3>4. Entered(tp, name, v) = Copies(v) - Copies(c[k].content)
      <4>1. hashLookup(tp, name) # NoEntry /\ hashLookup(tp, name) = c[k]
        BY <1>1, <2>1
      <4>2. c[k].content \in Values
        BY <1>1, <2>1 DEF Entry
      <4>3. Copies(c[k].content) \in {0, 1}
        BY <4>2, CopiesType
      <4>4. QED BY <1>7, <4>1, <4>3 DEF Entered
    <3>5. OwnedByEntry(e) - OwnedByEntry(c[k]) = Copies(v) - Copies(c[k].content)
      <4>1. c[k].content \in Values
        BY <1>1, <2>1 DEF Entry
      <4>2. Copies(c[k].content) \in {0, 1}
        BY <4>1, CopiesType
      <4>3. QED BY <1>7, <3>2, <4>2 DEF OwnedByEntry
    <3>6. OwnedByChain(c) \in Int /\ OwnedByEntry(e) \in Int /\ OwnedByEntry(c[k]) \in Int
      <4>1. c[k].content \in Values
        BY <1>1, <2>1 DEF Entry
      <4>2. Copies(c[k].content) \in {0, 1}
        BY <4>1, CopiesType
      <4>3. OwnedByChain(c) \in Int
        BY <1>6, ChainOwns
      <4>4. QED BY <1>7, <3>2, <4>2, <4>3 DEF OwnedByEntry
    <3> HIDE DEF e, d
    <3>7. OwnedByChain(d) = OwnedByChain(c) + Entered(tp, name, v)
      BY <3>3, <3>4, <3>5, <3>6
    <3>8. QED BY <1>1, <2>1, <3>1, <3>2, <3>7
  <2>2. CASE k = 0
    <3> PICK e : e = [name |-> name, content |-> v, bucket |-> b]
      OBVIOUS
    <3> PICK d : d = Append(c, e)
      OBVIOUS
    <3>1. u = TableWith(tp, b, d)
      BY <1>3, <2>2 DEF TableWith
    <3>2. /\ OneChain(d, tp.size, b) /\ e \in Entry
          /\ \A m, w : InChain(d, m, w) <=> IF m = name THEN w = v ELSE InChain(c, m, w)
      BY <1>1, <1>2, <1>5, <1>6, <2>2, ChainAppended
    <3>3. OwnedByChain(d) = OwnedByChain(c) + OwnedByEntry(e)
      BY <1>6, <3>2, OwnsAppended
    <3>4. Entered(tp, name, v) = Copies(v) + 1
      BY <1>1, <2>2 DEF Entered
    <3>5. OwnedByEntry(e) = Copies(v) + 1
      BY <1>7 DEF OwnedByEntry
    <3>6. QED BY <3>1, <3>2, <3>3, <3>4, <3>5
  <2>3. QED BY <2>1, <2>2
<1>9. /\ u \in GoodTables /\ u.size = tp.size /\ u.hash_table[b] = d
      /\ \A a \in 0 .. tp.size - 1 : a # b => u.hash_table[a] = tp.hash_table[a]
  BY <1>1, <1>8, ChainSet
<1>10. Owned(u) = Owned(tp) + Entered(tp, name, v)
  <2>1. Owned(u) = Owned(tp) + OwnedByChain(d) - OwnedByChain(c)
    BY <1>1, <1>9, OwnsChain
  <2>2. Owned(tp) \in Int /\ OwnedByChain(c) \in Int /\ OwnedByChain(d) \in Int
    <3>1. d \in Seq(Entry)
      BY <1>8 DEF OneChain
    <3>2. QED BY <1>6, <3>1, TableOwns, ChainOwns
  <2>3. Entered(tp, name, v) \in Int
    BY EnteredType
  <2> HIDE DEF c
  <2>4. QED BY <1>8, <2>1, <2>2, <2>3
<1>11. ASSUME NEW m \in Names, NEW w
       PROVE  Holds(u, m, w) <=> IF m = name THEN w = v ELSE Holds(tp, m, w)
  <2>1. Chain(u, m) = IF hashIndex(tp, m) = b THEN d ELSE Chain(tp, m)
    BY <1>9, ChainOf
  <2>2. CASE hashIndex(tp, m) = b
    <3>1. Chain(tp, m) = c
      BY <2>2 DEF Chain
    <3>2. QED BY <1>8, <2>1, <2>2, <3>1 DEF Holds
  <2>3. CASE hashIndex(tp, m) # b
    <3>1. m # name
      BY <2>3 DEF b
    <3>2. QED BY <2>1, <2>3, <3>1 DEF Holds
  <2>4. QED BY <2>2, <2>3
<1>12. QED BY <1>9, <1>10, <1>11

\* hashDelete takes the name from the table, and no other name.
LEMMA DeleteIs ==
  ASSUME HashAssumption, NEW tp \in GoodTables, NEW name \in Names,
         NEW u, u = hashDelete(tp, name)
  PROVE  /\ u \in GoodTables /\ u.size = tp.size /\ Owned(u) = Owned(tp) - Deleted(tp, name)
         /\ Deleted(tp, name) \in Int
         /\ \A m \in Names : \A w : Holds(u, m, w) <=> m # name /\ Holds(tp, m, w)
<1> DEFINE b == hashIndex(tp, name)
           c == tp.hash_table[b]
           k == Place(c, name)
<1>1. /\ b \in 0 .. tp.size - 1 /\ c = Chain(tp, name) /\ OneChain(c, tp.size, b)
      /\ hashLookup(tp, name) = IF k = 0 THEN NoEntry ELSE c[k]
      /\ hashLookup(tp, name) = NoEntry <=> k = 0
      /\ k # 0 => k \in 1 .. Len(c) /\ c[k] \in Entry /\ c[k].name = name
      /\ \A w : Holds(tp, name, w) <=> k # 0 /\ c[k].content = w
  BY LookupIs
<1>2. Owned(tp) \in Int
  BY TableOwns
<1> DEFINE d == ChainWithout(c, k)
<1>3. u = IF k = 0 THEN tp ELSE TableWith(tp, b, d)
  BY <1>1 DEF hashDelete, TableWith, ChainWithout
<1> HIDE DEF b, k
<1>4. CASE k = 0
  <2>1. u = tp /\ Deleted(tp, name) = 0
    BY <1>1, <1>3, <1>4 DEF Deleted
  <2>2. \A w : ~ Holds(tp, name, w)
    BY <1>1, <1>4
  <2>3. QED BY <1>2, <2>1, <2>2
<1>5. CASE k # 0
  <2>1. u = TableWith(tp, b, d) /\ k \in 1 .. Len(c) /\ c[k].name = name
    BY <1>1, <1>3, <1>5
  <2>2. /\ OneChain(d, tp.size, b)
        /\ \A m, w : InChain(d, m, w) <=> m # c[k].name /\ InChain(c, m, w)
    BY <1>1, <2>1, ChainCut
  <2>3. c \in Seq(Entry) /\ d \in Seq(Entry)
    BY <1>1, <2>2 DEF OneChain
  <2>4. OwnedByChain(d) = OwnedByChain(c) - OwnedByEntry(c[k])
    BY <2>1, <2>3, OwnsCut
  <2> HIDE DEF d
  <2>5. /\ u \in GoodTables /\ u.size = tp.size /\ u.hash_table[b] = d
        /\ \A a \in 0 .. tp.size - 1 : a # b => u.hash_table[a] = tp.hash_table[a]
    BY <1>1, <2>1, <2>2, ChainSet
  <2>6. Deleted(tp, name) = OwnedByEntry(c[k])
    <3>1. hashLookup(tp, name) # NoEntry /\ hashLookup(tp, name) = c[k]
      BY <1>1, <1>5
    <3>2. QED BY <3>1 DEF Deleted, OwnedByEntry
  <2>7. OwnedByEntry(c[k]) \in Int
    <3>1. c[k].content \in Values
      BY <1>1, <1>5 DEF Entry
    <3>2. Copies(c[k].content) \in {0, 1}
      BY <3>1, CopiesType
    <3>3. QED BY <3>2 DEF OwnedByEntry
  <2>8. Owned(u) = Owned(tp) + OwnedByChain(d) - OwnedByChain(c)
    BY <1>1, <2>5, OwnsChain
  <2>9. OwnedByChain(c) \in Int /\ OwnedByChain(d) \in Int
    BY <2>3, ChainOwns
  <2>10. Owned(u) = Owned(tp) - Deleted(tp, name) /\ Deleted(tp, name) \in Int
    <3> HIDE DEF c
    <3>1. QED BY <1>2, <2>4, <2>6, <2>7, <2>8, <2>9
  <2>11. ASSUME NEW m \in Names, NEW w PROVE Holds(u, m, w) <=> m # name /\ Holds(tp, m, w)
    <3>1. Chain(u, m) = IF hashIndex(tp, m) = b THEN d ELSE Chain(tp, m)
      BY <2>5, ChainOf
    <3>2. CASE hashIndex(tp, m) = b
      <4>1. Chain(tp, m) = c
        BY <3>2 DEF Chain
      <4>2. Chain(u, m) = d
        BY <3>1, <3>2
      <4>3. InChain(d, m, w) <=> m # name /\ InChain(c, m, w)
        BY <2>1, <2>2
      <4>4. QED BY <4>1, <4>2, <4>3 DEF Holds
    <3>3. CASE hashIndex(tp, m) # b
      <4>1. m # name
        BY <3>3 DEF b
      <4>2. QED BY <3>1, <3>3, <4>1 DEF Holds
    <3>4. QED BY <3>2, <3>3
  <2>12. QED BY <2>5, <2>10, <2>11
<1>6. QED BY <1>4, <1>5

----------------------------------------------------------------------------
(* The loop of pruneCache. *)

\* An entry that the loop may be at, which knows its own chain.
AtEntry(e, tp) == e = NoEntry \/ (e \in Entry /\ e.bucket \in 0 .. tp.size - 1)

LEMMA EntryOfChain ==
  ASSUME HashAssumption, NEW tp \in GoodTables, NEW b \in 0 .. tp.size - 1,
         NEW k \in 1 .. Len(tp.hash_table[b])
  PROVE  AtEntry(tp.hash_table[b][k], tp)
<1>1. OneChain(tp.hash_table[b], tp.size, b)
  BY TableParts
<1> DEFINE c == tp.hash_table[b]
<1>2. OneChain(c, tp.size, b) /\ k \in 1 .. Len(c)
  BY <1>1
<1> HIDE DEF c
<1>3. c[k] \in Entry /\ c[k].bucket = b
  BY <1>2 DEF OneChain
<1>4. AtEntry(c[k], tp)
  BY <1>3 DEF AtEntry
<1>5. QED BY <1>4 DEF c

LEMMA FirstFromIs ==
  ASSUME HashAssumption, NEW tp \in GoodTables, NEW i \in Nat
  PROVE  AtEntry(FirstFrom(tp, i), tp)
<1> DEFINE full == {b \in i .. tp.size - 1 : tp.hash_table[b] # << >>}
           b == Smallest(full)
<1>1. FirstFrom(tp, i) = IF full = {} THEN NoEntry ELSE tp.hash_table[b][1]
  BY DEF FirstFrom
<1>2. CASE full = {}
  BY <1>1, <1>2 DEF AtEntry
<1>3. CASE full # {}
  <2>1. full \in SUBSET Nat /\ full \subseteq 0 .. tp.size - 1
    BY TableParts
  <2>2. b \in full
    <3> HIDE DEF full
    <3>1. QED BY <1>3, <2>1, SmallestOfNat
  <2>3. b \in 0 .. tp.size - 1 /\ tp.hash_table[b] # << >>
    BY <2>1, <2>2
  <2>4. tp.hash_table[b] \in Seq(Entry)
    BY <2>3, TableParts
  <2> HIDE DEF b, full
  <2> DEFINE c == tp.hash_table[b]
  <2>5. 1 \in 1 .. Len(c)
    <3>1. c \in Seq(Entry) /\ c # << >>
      BY <2>3, <2>4
    <3> HIDE DEF c
    <3>2. QED BY <3>1
  <2> HIDE DEF c
  <2>6. PICK k : k = 1
    OBVIOUS
  <2>7. AtEntry(tp.hash_table[b][k], tp)
    <3>1. k \in 1 .. Len(tp.hash_table[b])
      BY <2>5, <2>6 DEF c
    <3>2. QED BY <2>3, <3>1, EntryOfChain
  <2>8. QED BY <1>1, <1>3, <2>6, <2>7
<1>4. QED BY <1>2, <1>3

LEMMA NextIs ==
  ASSUME HashAssumption, NEW tp \in GoodTables, NEW e \in Entry, e.bucket \in 0 .. tp.size - 1
  PROVE  AtEntry(hashNext(tp, e), tp)
<1> DEFINE b == e.bucket
           c == tp.hash_table[b]
           k == Place(c, e.name)
<1>1. OneChain(c, tp.size, b)
  BY TableParts
<1>2. k \in 0 .. Len(c)
  <2> HIDE DEF c
  <2>1. QED BY <1>1, PlaceIs
<1>3. Len(c) \in Nat
  BY <1>1 DEF OneChain
<1>4. hashNext(tp, e) = IF k < Len(c) THEN c[k + 1] ELSE FirstFrom(tp, b + 1)
  BY DEF hashNext
<1> HIDE DEF b, k
<1>5. CASE k < Len(c)
  <2>1. PICK j : j = k + 1
    OBVIOUS
  <2>2. j \in 1 .. Len(c)
    <3> HIDE DEF c
    <3>1. QED BY <1>2, <1>3, <1>5, <2>1
  <2>3. AtEntry(c[j], tp)
    BY <2>2, EntryOfChain DEF b
  <2>4. QED BY <1>4, <1>5, <2>1, <2>3
<1>6. CASE ~ k < Len(c)
  <2>1. PICK j : j = b + 1
    OBVIOUS
  <2>2. j \in Nat
    BY <2>1, TableParts DEF b
  <2>3. AtEntry(FirstFrom(tp, j), tp)
    BY <2>2, FirstFromIs
  <2>4. QED BY <1>4, <1>6, <2>1, <2>3
<1>7. QED BY <1>5, <1>6

\* What a round begins with and what it makes of that.
Start(tp) == [at |-> hashFirst(tp), seen |-> << >>, tp |-> tp, freed |-> 0]
Round(p, doomed) ==
  LET delete == p.at.name \in doomed
  IN IF p.at = NoEntry THEN p
     ELSE [at |-> hashNext(p.tp, p.at), seen |-> Append(p.seen, p.at.name),
           tp |-> IF delete THEN hashDelete(p.tp, p.at.name) ELSE p.tp,
           freed |-> p.freed + (IF delete THEN Deleted(p.tp, p.at.name) ELSE 0)]
Rounds(r, tp, doomed, n) ==
  r = [m \in 0 .. n |-> IF m = 0 THEN Start(tp) ELSE Round(r[m - 1], doomed)]

LEMMA RoundsExist ==
  ASSUME NEW tp, NEW doomed, NEW n \in Nat
  PROVE  \E r : Rounds(r, tp, doomed, n)
<1> DEFINE T == {m \in Nat : \E r : Rounds(r, tp, doomed, m)}
<1>1. 0 \in T
  <2> DEFINE z == [k \in 0 .. 0 |-> Start(tp)]
  <2>1. z = [k \in 0 .. 0 |-> IF k = 0 THEN Start(tp) ELSE Round(z[k - 1], doomed)]
    OBVIOUS
  <2> HIDE DEF z
  <2>2. Rounds(z, tp, doomed, 0)
    BY <2>1 DEF Rounds
  <2>3. QED BY <2>2
<1>2. ASSUME NEW m \in 0 .. n - 1, m \in T PROVE m + 1 \in T
  <2>1. PICK r : Rounds(r, tp, doomed, m)
    BY <1>2
  <2> DEFINE g == [k \in 0 .. m + 1 |-> IF k = m + 1 THEN Round(r[m], doomed) ELSE r[k]]
  <2>2. ASSUME NEW k \in 0 .. m + 1
        PROVE  g[k] = IF k = 0 THEN Start(tp) ELSE Round(g[k - 1], doomed)
    <3>1. k # 0 => k - 1 \in 0 .. m /\ k - 1 # m + 1 /\ k - 1 \in 0 .. m + 1
      OBVIOUS
    <3>2. k # m + 1 => r[k] = IF k = 0 THEN Start(tp) ELSE Round(r[k - 1], doomed)
      <4>1. k # m + 1 => k \in 0 .. m
        OBVIOUS
      <4>2. QED BY <2>1, <4>1 DEF Rounds
    <3>3. k # 0 => g[k - 1] = r[k - 1]
      BY <3>1
    <3>4. k = m + 1 => k # 0 /\ k - 1 = m
      OBVIOUS
    <3>5. g[k] = IF k = m + 1 THEN Round(r[m], doomed) ELSE r[k]
      OBVIOUS
    <3> HIDE DEF g
    <3>6. QED BY <3>2, <3>3, <3>4, <3>5
  <2>3. g = [k \in 0 .. m + 1 |-> IF k = 0 THEN Start(tp) ELSE Round(g[k - 1], doomed)]
    <3>1. DOMAIN g = 0 .. m + 1 /\ g = [k \in 0 .. m + 1 |-> g[k]]
      OBVIOUS
    <3> HIDE DEF g
    <3>2. QED BY <2>2, <3>1, Zenon
  <2> HIDE DEF g
  <2>4. Rounds(g, tp, doomed, m + 1)
    BY <2>3 DEF Rounds
  <2>5. QED BY <2>4
<1>3. n \in 0 .. n
  OBVIOUS
<1> HIDE DEF T
<1>4. n \in T
  BY <1>1, <1>2, <1>3, UpTo
<1>5. QED BY <1>4 DEF T

LEMMA PrunedIs ==
  ASSUME NEW tp, NEW doomed, Cardinality(Names) \in Nat
  PROVE  \E r : Rounds(r, tp, doomed, Cardinality(Names)) /\ Pruned(tp, doomed) = r[Cardinality(Names)]
<1> DEFINE n == Cardinality(Names)
           r == CHOOSE s : Rounds(s, tp, doomed, n)
<1>1. Pruned(tp, doomed) = r[n]
  BY DEF Pruned, Rounds, Round, Start
<1>2. \E s : Rounds(s, tp, doomed, n)
  <2> HIDE DEF n
  <2>1. QED BY RoundsExist DEF n
<1>3. Rounds(r, tp, doomed, n)
  BY <1>2
<1> HIDE DEF r, n
<1>4. QED BY <1>1, <1>3 DEF n

\* A table that holds what the other one does, but for the names in S.
Without(u, tp, S) ==
  \A m \in Names : \A w : Holds(u, m, w) <=> m \notin S /\ Holds(tp, m, w)

\* What is so of a walk over tp before each of its rounds.
Walking(p, tp, doomed) ==
  /\ p.tp \in GoodTables /\ p.tp.size = tp.size /\ AtEntry(p.at, tp)
  /\ p.freed \in Int /\ Owned(p.tp) = Owned(tp) - p.freed
  /\ \E S \in SUBSET (Names \cap doomed) : Without(p.tp, tp, S)

LEMMA StartWalks ==
  ASSUME HashAssumption, NEW tp \in GoodTables, NEW doomed
  PROVE  Walking(Start(tp), tp, doomed)
<1> DEFINE p == Start(tp)
<1>1. p.tp = tp /\ p.at = hashFirst(tp) /\ p.freed = 0
  BY DEF Start
<1> HIDE DEF p
<1>2. AtEntry(p.at, tp)
  <2>1. PICK i : i = 0
    OBVIOUS
  <2>2. AtEntry(FirstFrom(tp, i), tp)
    BY <2>1, FirstFromIs
  <2>3. QED BY <1>1, <2>1, <2>2 DEF hashFirst
<1>3. Owned(tp) \in Int
  BY TableOwns
<1>4. Owned(p.tp) = Owned(tp) - p.freed
  BY <1>1, <1>3
<1>5. Without(tp, tp, {})
  BY DEF Without
<1>6. Walking(p, tp, doomed)
  BY <1>1, <1>2, <1>4, <1>5 DEF Walking
<1>7. QED BY <1>6 DEF p

LEMMA RoundWalks ==
  ASSUME HashAssumption, NEW tp \in GoodTables, NEW doomed, NEW p, Walking(p, tp, doomed)
  PROVE  Walking(Round(p, doomed), tp, doomed)
<1> DEFINE q == Round(p, doomed)
<1>1. /\ p.tp \in GoodTables /\ p.tp.size = tp.size /\ AtEntry(p.at, tp)
      /\ p.freed \in Int /\ Owned(p.tp) = Owned(tp) - p.freed
  BY DEF Walking
<1>2. PICK S \in SUBSET (Names \cap doomed) : Without(p.tp, tp, S)
  BY DEF Walking
<1>3. CASE p.at = NoEntry
  <2>1. q = p
    BY <1>3 DEF Round
  <2>2. QED BY <2>1
<1>4. CASE p.at # NoEntry
  <2>1. p.at \in Entry /\ p.at.bucket \in 0 .. p.tp.size - 1
    BY <1>1, <1>4 DEF AtEntry
  <2>2. p.at.name \in Names
    BY <2>1 DEF Entry
  <2>3. q.at = hashNext(p.tp, p.at)
    BY <1>4 DEF Round
  <2>4. /\ q.tp = IF p.at.name \in doomed THEN hashDelete(p.tp, p.at.name) ELSE p.tp
        /\ q.freed = p.freed + (IF p.at.name \in doomed THEN Deleted(p.tp, p.at.name) ELSE 0)
    BY <1>4 DEF Round
  <2> SUFFICES Walking(q, tp, doomed)
    OBVIOUS
  <2> HIDE DEF q
  <2>5. AtEntry(q.at, tp)
    <3>1. AtEntry(hashNext(p.tp, p.at), p.tp)
      BY <1>1, <2>1, NextIs
    <3>2. QED BY <1>1, <2>3, <3>1 DEF AtEntry
  <2>6. Owned(tp) \in Int
    BY TableOwns
  <2>7. CASE p.at.name \in doomed
    <3>1. q.tp = hashDelete(p.tp, p.at.name) /\ q.freed = p.freed + Deleted(p.tp, p.at.name)
      BY <2>4, <2>7
    <3>2. /\ q.tp \in GoodTables /\ q.tp.size = p.tp.size
          /\ Owned(q.tp) = Owned(p.tp) - Deleted(p.tp, p.at.name)
          /\ Deleted(p.tp, p.at.name) \in Int
          /\ \A m \in Names : \A w : Holds(q.tp, m, w) <=> m # p.at.name /\ Holds(p.tp, m, w)
      BY <1>1, <2>2, <3>1, DeleteIs
    <3>3. q.freed \in Int /\ Owned(q.tp) = Owned(tp) - q.freed
      BY <1>1, <2>6, <3>1, <3>2
    <3>4. Without(q.tp, tp, S \cup {p.at.name})
      BY <1>2, <3>2 DEF Without
    <3>5. S \cup {p.at.name} \in SUBSET (Names \cap doomed)
      BY <2>2, <2>7
    <3>6. QED BY <1>1, <2>5, <3>2, <3>3, <3>4, <3>5 DEF Walking
  <2>8. CASE p.at.name \notin doomed
    <3>1. q.tp = p.tp /\ q.freed = p.freed
      BY <1>1, <2>4, <2>8
    <3>2. QED BY <1>1, <1>2, <2>5, <3>1 DEF Walking
  <2>9. QED BY <2>7, <2>8
<1>5. QED BY <1>3, <1>4

\* A loop that deletes the present entry takes only names it was to take, and
\* what it frees is what the table no longer owns.
LEMMA PruneIs ==
  ASSUME HashAssumption, NEW tp \in GoodTables, NEW doomed
  PROVE  /\ Pruned(tp, doomed).tp \in GoodTables /\ Pruned(tp, doomed).freed \in Int
         /\ Owned(Pruned(tp, doomed).tp) = Owned(tp) - Pruned(tp, doomed).freed
         /\ \E S \in SUBSET (Names \cap doomed) : Without(Pruned(tp, doomed).tp, tp, S)
<1> DEFINE n == Cardinality(Names)
<1>1. n \in Nat
  BY FS_CardinalityType DEF HashAssumption
<1>2. PICK r : Rounds(r, tp, doomed, n) /\ Pruned(tp, doomed) = r[n]
  BY <1>1, PrunedIs
<1> DEFINE W == {m \in Nat : Walking(r[m], tp, doomed)}
<1> HIDE DEF n
<1>3. \A m \in 0 .. n : r[m] = IF m = 0 THEN Start(tp) ELSE Round(r[m - 1], doomed)
  BY <1>2 DEF Rounds
<1>4. 0 \in W
  <2>1. r[0] = Start(tp)
    BY <1>1, <1>3
  <2>2. Walking(r[0], tp, doomed)
    BY <2>1, StartWalks
  <2>3. QED BY <2>2
<1>5. ASSUME NEW m \in 0 .. n - 1, m \in W PROVE m + 1 \in W
  <2>1. m + 1 \in 0 .. n /\ m + 1 # 0 /\ (m + 1) - 1 = m /\ m + 1 \in Nat
    BY <1>1
  <2>2. r[m + 1] = Round(r[m], doomed)
    BY <1>3, <2>1
  <2>3. Walking(r[m + 1], tp, doomed)
    BY <1>5, <2>2, RoundWalks
  <2>4. QED BY <2>1, <2>3
<1>6. n \in 0 .. n
  BY <1>1
<1> HIDE DEF W
<1>7. n \in W
  BY <1>1, <1>4, <1>5, <1>6, UpTo
<1>8. Walking(Pruned(tp, doomed), tp, doomed)
  BY <1>2, <1>7 DEF W
<1>9. QED BY <1>8 DEF Walking
----------------------------------------------------------------------------
(* The functions that tables stand for. *)

LEMMA MeaningIs ==
  ASSUME HashAssumption, NEW tp \in GoodTables, NEW n \in Names
  PROVE  \A w : Holds(tp, n, w) <=> n \in DOMAIN Meaning(tp) /\ Meaning(tp)[n] = w
<1> PICK b : b = hashIndex(tp, n)
  OBVIOUS
<1> PICK c : c = tp.hash_table[b]
  OBVIOUS
<1> PICK k : k = Place(c, n)
  OBVIOUS
<1>1. /\ hashLookup(tp, n) = IF k = 0 THEN NoEntry ELSE c[k]
      /\ hashLookup(tp, n) = NoEntry <=> k = 0
      /\ \A v : Holds(tp, n, v) <=> k # 0 /\ c[k].content = v
  BY LookupIs
<1>2. n \in DOMAIN Meaning(tp) <=> hashLookup(tp, n) # NoEntry
  BY DEF Meaning, Known
<1>3. n \in DOMAIN Meaning(tp) => Meaning(tp)[n] = hashLookup(tp, n).content
  BY DEF Meaning, Known
<1>4. QED BY <1>1, <1>2, <1>3

LEMMA MeaningEquals ==
  ASSUME HashAssumption, NEW tp \in GoodTables, NEW S \in SUBSET Names, NEW f, f = [n \in S |-> f[n]],
         \A n \in Names : \A w : Holds(tp, n, w) <=> n \in S /\ f[n] = w
  PROVE  Meaning(tp) = f
<1>1. DOMAIN Meaning(tp) \subseteq Names /\ Meaning(tp) = [n \in DOMAIN Meaning(tp) |-> Meaning(tp)[n]]
  BY DEF Meaning, Known
<1>2. ASSUME NEW n \in Names
      PROVE  (n \in S <=> n \in DOMAIN Meaning(tp)) /\ (n \in S => f[n] = Meaning(tp)[n])
  <2>1. \A w : Holds(tp, n, w) <=> n \in DOMAIN Meaning(tp) /\ Meaning(tp)[n] = w
    BY MeaningIs
  <2>2. \A w : Holds(tp, n, w) <=> n \in S /\ f[n] = w
    OBVIOUS
  <2>3. n \in S => n \in DOMAIN Meaning(tp) /\ Meaning(tp)[n] = f[n]
    BY <2>1, <2>2
  <2>4. n \in DOMAIN Meaning(tp) => n \in S
    BY <2>1, <2>2
  <2>5. QED BY <2>3, <2>4
<1> DEFINE g == Meaning(tp)
<1>3. DOMAIN g = S
  BY <1>1, <1>2
<1>4. \A n \in S : g[n] = f[n]
  BY <1>2
<1>5. g = [n \in DOMAIN g |-> g[n]]
  BY <1>1
<1> HIDE DEF g
<1>6. g = f
  BY <1>3, <1>4, <1>5
<1>7. QED BY <1>6 DEF g

LEMMA EmptyMeans ==
  ASSUME HashAssumption, NEW tp \in GoodTables, \A b \in 0 .. tp.size - 1 : tp.hash_table[b] = << >>
  PROVE  Meaning(tp) = Dictionary!Empty
<1> DEFINE f == Dictionary!Empty
<1>1. f = [n \in {} |-> f[n]]
  BY DEF Dictionary!Empty
<1>2. ASSUME NEW n \in Names, NEW w PROVE ~ Holds(tp, n, w)
  <2>1. hashIndex(tp, n) \in 0 .. tp.size - 1
    BY IndexIs
  <2>2. Chain(tp, n) = << >>
    BY <2>1 DEF Chain
  <2>3. Len(<< >>) = 0
    OBVIOUS
  <2>4. QED BY <2>2, <2>3 DEF Holds, InChain
<1> HIDE DEF f
<1>3. Meaning(tp) = f
  BY <1>1, <1>2, MeaningEquals
<1>4. QED BY <1>3 DEF f

LEMMA EnterMeans ==
  ASSUME HashAssumption, NEW tp \in GoodTables, NEW name \in Names, NEW v \in Values,
         NEW u \in GoodTables,
         \A m \in Names : \A w : Holds(u, m, w) <=> IF m = name THEN w = v ELSE Holds(tp, m, w)
  PROVE  Meaning(u) = Dictionary!With(Meaning(tp), name, v)
<1> DEFINE g == Meaning(tp)
           f == Dictionary!With(g, name, v)
           S == DOMAIN g \cup {name}
<1>1. f = [m \in S |-> IF m = name THEN v ELSE g[m]]
  BY DEF Dictionary!With
<1>2. DOMAIN g \subseteq Names
  BY DEF Meaning, Known
<1>3. \A m \in Names : \A w : Holds(tp, m, w) <=> m \in DOMAIN g /\ g[m] = w
  BY MeaningIs
<1> HIDE DEF g, f
<1>4. f = [m \in S |-> f[m]]
  BY <1>1
<1>5. ASSUME NEW m \in Names, NEW w PROVE Holds(u, m, w) <=> m \in S /\ f[m] = w
  <2>1. CASE m = name
    <3>1. m \in S /\ f[m] = v
      BY <1>1, <2>1
    <3>2. Holds(u, m, w) <=> w = v
      BY <2>1
    <3>3. QED BY <3>1, <3>2
  <2>2. CASE m # name
    <3>1. m \in S <=> m \in DOMAIN g
      BY <2>2
    <3>2. m \in S => f[m] = g[m]
      BY <1>1, <2>2
    <3>3. Holds(u, m, w) <=> Holds(tp, m, w)
      BY <2>2
    <3>4. Holds(tp, m, w) <=> m \in DOMAIN g /\ g[m] = w
      BY <1>3
    <3>5. QED BY <3>1, <3>2, <3>3, <3>4
  <2>3. QED BY <2>1, <2>2
<1>6. S \in SUBSET Names
  BY <1>2
<1> HIDE DEF S
<1>7. Meaning(u) = f
  BY <1>4, <1>5, <1>6, MeaningEquals
<1>8. QED BY <1>7 DEF f, g

LEMMA WithoutMeans ==
  ASSUME HashAssumption, NEW tp \in GoodTables, NEW S \in SUBSET Names, NEW u \in GoodTables,
         Without(u, tp, S)
  PROVE  Meaning(u) = Dictionary!Only(Meaning(tp), DOMAIN Meaning(tp) \ S)
<1> DEFINE g == Meaning(tp)
           R == DOMAIN g \ S
           f == Dictionary!Only(g, R)
<1>1. f = [m \in R |-> g[m]]
  BY DEF Dictionary!Only
<1>2. DOMAIN g \subseteq Names
  BY DEF Meaning, Known
<1>3. \A m \in Names : \A w : Holds(tp, m, w) <=> m \in DOMAIN g /\ g[m] = w
  BY MeaningIs
<1> HIDE DEF g, f
<1>4. f = [m \in R |-> f[m]]
  BY <1>1
<1>5. ASSUME NEW m \in Names, NEW w PROVE Holds(u, m, w) <=> m \in R /\ f[m] = w
  <2>1. m \in R => f[m] = g[m]
    BY <1>1
  <2>2. Holds(u, m, w) <=> m \notin S /\ Holds(tp, m, w)
    BY DEF Without
  <2>3. Holds(tp, m, w) <=> m \in DOMAIN g /\ g[m] = w
    BY <1>3
  <2>4. QED BY <2>1, <2>2, <2>3
<1>6. R \in SUBSET Names
  BY <1>2
<1> HIDE DEF R
<1>7. Meaning(u) = f
  BY <1>4, <1>5, <1>6, MeaningEquals
<1>8. QED BY <1>7 DEF f, g, R
----------------------------------------------------------------------------
(* The list of the open tables. *)

\* A list with another entry at h.
SlotWith(t, h, x) == [t EXCEPT !.slot[h] = x]

LEMMA SlotSet ==
  ASSUME NEW S, Null \notin S, NEW t, IsList(t, S), Sound(t), NEW h \in InUse(t), NEW x \in S,
         NEW r, r = SlotWith(t, h, x)
  PROVE  /\ IsList(r, S) /\ Sound(r) /\ InUse(r) = InUse(t) /\ r.slot[h] = x
         /\ \A g \in InUse(t) : g # h => r.slot[g] = t.slot[g]
<1> DEFINE s == [t.slot EXCEPT ![h] = x]
<1>1. /\ t.len \in Nat /\ t.used \in Nat /\ t.max \in Nat
      /\ t.slot \in [0 .. t.len - 1 -> S \cup {Null}]
      /\ t = [len |-> t.len, used |-> t.used, max |-> t.max, slot |-> t.slot]
  BY DEF IsList
<1>2. r = [len |-> t.len, used |-> t.used, max |-> t.max, slot |-> s]
  BY <1>1 DEF SlotWith
<1>3. /\ s \in [0 .. t.len - 1 -> S \cup {Null}] /\ s[h] = x
      /\ \A g \in 0 .. t.len - 1 : g # h => s[g] = t.slot[g]
  BY <1>1 DEF InUse
<1> HIDE DEF s
<1>4. r.len = t.len /\ r.used = t.used /\ r.max = t.max /\ r.slot = s
  BY <1>2
<1>5. IsList(r, S)
  BY <1>1, <1>2, <1>3, <1>4 DEF IsList
<1>6. x # Null
  OBVIOUS
<1>7. InUse(r) = InUse(t)
  BY <1>3, <1>4, <1>6 DEF InUse
<1>8. Sound(r)
  <2>1. t.used # 0
    <3>1. t = NoList => InUse(t) = {}
      BY DEF NoList, InUse
    <3>2. QED BY <3>1 DEF Sound
  <2>2. QED BY <1>4, <1>7, <2>1 DEF Sound, Counted
<1>9. \A g \in InUse(t) : g # h => r.slot[g] = t.slot[g]
  BY <1>3, <1>4 DEF InUse
<1>10. QED BY <1>3, <1>4, <1>5, <1>7, <1>8, <1>9

\* The summands of AllOwned, and zeros behind them.
ByTables(t, n) == [h \in 0 .. n - 1 |-> OwnedAt(t, h)]

LEMMA OwnedAtType ==
  ASSUME HashAssumption, NEW t, IsList(t, GoodTables), NEW h
  PROVE  OwnedAt(t, h) \in Int
<1>1. CASE h \in InUse(t)
  <2>1. t.slot[h] \in GoodTables
    BY <1>1 DEF IsList, InUse
  <2>2. QED BY <1>1, <2>1, TableOwns DEF OwnedAt
<1>2. CASE h \notin InUse(t)
  BY <1>2 DEF OwnedAt
<1>3. QED BY <1>1, <1>2

LEMMA AllOwnedType ==
  ASSUME HashAssumption, NEW t, IsList(t, GoodTables)
  PROVE  AllOwned(t) \in Int
<1>1. \A i \in 0 .. t.len - 1 : ByTables(t, t.len)[i] = OwnedAt(t, i)
  BY DEF ByTables
<1>2. t.len \in Nat /\ t.len \in 0 .. t.len
  BY DEF IsList
<1>3. Total(ByTables(t, t.len), t.len) \in Int
  BY <1>1, <1>2, OwnedAtType, TotalType
<1>4. QED BY <1>3 DEF AllOwned, ByTables

\* The sum is that up to any larger bound.
LEMMA AllOwnedUpTo ==
  ASSUME HashAssumption, NEW t, IsList(t, GoodTables), NEW n \in Nat, t.len <= n
  PROVE  AllOwned(t) = Total(ByTables(t, n), n)
<1> DEFINE l == t.len
           f == ByTables(t, l)
           g == ByTables(t, n)
<1>1. l \in Nat /\ l <= n
  BY DEF IsList
<1>2. \A h \in 0 .. l - 1 : f[h] = OwnedAt(t, h)
  BY DEF ByTables
<1>3. \A h \in 0 .. n - 1 : g[h] = OwnedAt(t, h)
  BY DEF ByTables
<1>4. \A h \in l .. n - 1 : OwnedAt(t, h) = 0
  BY <1>1 DEF OwnedAt, InUse
<1> HIDE DEF l, f, g
<1>5. \A h \in 0 .. l - 1 : f[h] \in Int /\ g[h] = f[h]
  <2>1. \A h \in 0 .. l - 1 : h \in 0 .. n - 1
    BY <1>1
  <2>2. QED BY <1>2, <1>3, <2>1, OwnedAtType
<1>6. \A h \in l .. n - 1 : g[h] = 0
  <2>1. \A h \in l .. n - 1 : h \in 0 .. n - 1
    BY <1>1
  <2>2. QED BY <1>3, <1>4, <2>1
<1>7. Total(g, n) = Total(f, l)
  BY <1>1, <1>5, <1>6, TotalExtended
<1>8. AllOwned(t) = Total(f, l)
  BY DEF AllOwned, ByTables, f, l
<1>9. QED BY <1>7, <1>8 DEF g

\* Lists that differ at one handle.
LEMMA OneTableChanges ==
  ASSUME HashAssumption, NEW t, IsList(t, GoodTables), NEW r, IsList(r, GoodTables), NEW h \in Nat,
         \A g \in Nat : g # h => OwnedAt(r, g) = OwnedAt(t, g)
  PROVE  AllOwned(r) = AllOwned(t) + OwnedAt(r, h) - OwnedAt(t, h)
<1>1. t.len \in Nat /\ r.len \in Nat
  BY DEF IsList
<1>2. PICK n \in Nat : t.len <= n /\ r.len <= n /\ h \in 0 .. n - 1
  <2>1. t.len + r.len + h + 1 \in Nat
    BY <1>1
  <2>2. QED BY <1>1, <2>1
<1> DEFINE f == ByTables(t, n)
           g == ByTables(r, n)
<1>3. AllOwned(t) = Total(f, n) /\ AllOwned(r) = Total(g, n)
  BY <1>2, AllOwnedUpTo
<1>4. \A i \in 0 .. n - 1 : f[i] = OwnedAt(t, i) /\ g[i] = OwnedAt(r, i) /\ i \in Nat
  BY DEF ByTables
<1> HIDE DEF f, g
<1>5. \A i \in 0 .. n - 1 : f[i] \in Int /\ g[i] \in Int /\ (i # h => g[i] = f[i])
  BY <1>4, OwnedAtType
<1>6. Total(g, n) = Total(f, n) + g[h] - f[h]
  BY <1>2, <1>5, TotalChanged
<1>7. QED BY <1>2, <1>3, <1>4, <1>6

----------------------------------------------------------------------------
(* The steps. *)

\* What holds between calls.
HashInv == IsList(sym, GoodTables) /\ Sound(sym) /\ CopiesOwned

LEMMA NullIsNoTable == ASSUME HashAssumption PROVE Null \notin GoodTables
<1>1. Null \notin Tables
  BY DEF HashAssumption, Tables
<1>2. QED BY <1>1 DEF GoodTables

LEMMA TableInUse ==
  ASSUME HashAssumption, NEW t, IsList(t, GoodTables), NEW h \in InUse(t)
  PROVE  t.slot[h] \in GoodTables /\ h \in Nat
  BY DEF IsList, InUse

LEMMA CreateAdds ==
  ASSUME HashAssumption, NEW t, IsList(t, GoodTables), Sound(t), NEW size \in Sizes,
         NEW r, r = AllocObject(t, NewTable(size))
  PROVE  /\ IsList(r, GoodTables) /\ Sound(r) /\ AllOwned(r) = AllOwned(t)
         /\ Dictionary!Create(Meanings(t), Meanings(r))
<1> DEFINE h == NextHandle(t)
           tp == NewTable(size)
<1>1. tp \in GoodTables /\ \A b \in 0 .. tp.size - 1 : tp.hash_table[b] = << >>
  BY NewTableIs
<1>2. Owned(tp) = 0
  BY NewTableOwns
<1>3. Null \notin GoodTables
  BY NullIsNoTable
<1> HIDE DEF tp
<1>4. /\ IsList(r, GoodTables) /\ Sound(r) /\ InUse(r) = InUse(t) \cup {h} /\ r.slot[h] = tp
      /\ \A g \in InUse(t) : r.slot[g] = t.slot[g]
  BY <1>1, <1>3, AllocAdds DEF tp
<1>5. h \in Nat /\ h \notin InUse(t)
  BY NextHandleVacant
<1> HIDE DEF h
<1>6. AllOwned(r) = AllOwned(t)
  <2>1. \A g \in Nat : g # h => OwnedAt(r, g) = OwnedAt(t, g)
    BY <1>4 DEF OwnedAt
  <2>2. OwnedAt(r, h) = 0 /\ OwnedAt(t, h) = 0
    BY <1>2, <1>4, <1>5 DEF OwnedAt
  <2>3. AllOwned(t) \in Int
    BY AllOwnedType
  <2>4. AllOwned(r) = AllOwned(t) + OwnedAt(r, h) - OwnedAt(t, h)
    BY <1>4, <1>5, <2>1, OneTableChanges
  <2>5. QED BY <2>2, <2>3, <2>4
<1>7. Dictionary!Create(Meanings(t), Meanings(r))
  <2>1. Meaning(tp) = Dictionary!Empty
    BY <1>1, EmptyMeans
  <2>2. DOMAIN Meanings(t) = InUse(t) /\ DOMAIN Meanings(r) = InUse(t) \cup {h}
    BY <1>4 DEF Meanings
  <2>3. Meanings(r) = Dictionary!With(Meanings(t), h, Dictionary!Empty)
    <3>1. ASSUME NEW g \in InUse(t) \cup {h}
          PROVE  Meanings(r)[g] = IF g = h THEN Dictionary!Empty ELSE Meanings(t)[g]
      <4>1. Meanings(r)[g] = Meaning(r.slot[g])
        BY <1>4 DEF Meanings
      <4>2. g # h => Meanings(t)[g] = Meaning(t.slot[g])
        BY DEF Meanings
      <4>3. QED BY <1>4, <2>1, <4>1, <4>2
    <3>2. Meanings(r) = [g \in InUse(t) \cup {h} |-> Meanings(r)[g]]
      BY <1>4 DEF Meanings
    <3>3. QED BY <2>2, <3>1, <3>2 DEF Dictionary!With
  <2>4. QED BY <1>5, <2>2, <2>3 DEF Dictionary!Create
<1>8. QED BY <1>4, <1>6, <1>7

\* A call on one table: what it comes to own, and what it then stands for.
LEMMA OneTableSet ==
  ASSUME HashAssumption, NEW t, IsList(t, GoodTables), Sound(t), NEW h \in InUse(t),
         NEW u \in GoodTables, NEW r, r = SlotWith(t, h, u)
  PROVE  /\ IsList(r, GoodTables) /\ Sound(r)
         /\ AllOwned(r) = AllOwned(t) + Owned(u) - Owned(t.slot[h])
         /\ Meanings(r) = [Meanings(t) EXCEPT ![h] = Meaning(u)]
<1>1. Null \notin GoodTables
  BY NullIsNoTable
<1>2. /\ IsList(r, GoodTables) /\ Sound(r) /\ InUse(r) = InUse(t) /\ r.slot[h] = u
      /\ \A g \in InUse(t) : g # h => r.slot[g] = t.slot[g]
  BY <1>1, SlotSet
<1>3. h \in Nat
  BY TableInUse
<1>4. \A g \in Nat : g # h => OwnedAt(r, g) = OwnedAt(t, g)
  BY <1>2 DEF OwnedAt
<1>5. OwnedAt(r, h) = Owned(u) /\ OwnedAt(t, h) = Owned(t.slot[h])
  BY <1>2 DEF OwnedAt
<1>6. AllOwned(r) = AllOwned(t) + OwnedAt(r, h) - OwnedAt(t, h)
  BY <1>2, <1>3, <1>4, OneTableChanges
<1>7. Meanings(r) = [Meanings(t) EXCEPT ![h] = Meaning(u)]
  <2>1. Meanings(r) = [g \in InUse(t) |-> IF g = h THEN Meaning(u) ELSE Meaning(t.slot[g])]
    BY <1>2 DEF Meanings
  <2>2. QED BY <2>1 DEF Meanings
<1>8. QED BY <1>2, <1>5, <1>6, <1>7

LEMMA FreeTakes ==
  ASSUME HashAssumption, NEW t, IsList(t, GoodTables), Sound(t), NEW h \in InUse(t),
         NEW r, r = FreeHandle(t, h)
  PROVE  /\ IsList(r, GoodTables) /\ Sound(r) /\ AllOwned(r) = AllOwned(t) - Owned(t.slot[h])
         /\ Meanings(r) = Dictionary!Only(Meanings(t), DOMAIN Meanings(t) \ {h})
<1>1. /\ IsList(r, GoodTables) /\ Sound(r) /\ InUse(r) = InUse(t) \ {h}
      /\ \A g \in InUse(r) : r.slot[g] = t.slot[g]
  BY FreeRemoves
<1>2. h \in Nat /\ t.slot[h] \in GoodTables
  BY TableInUse
<1>3. \A g \in Nat : g # h => OwnedAt(r, g) = OwnedAt(t, g)
  BY <1>1 DEF OwnedAt
<1>4. OwnedAt(r, h) = 0 /\ OwnedAt(t, h) = Owned(t.slot[h])
  BY <1>1 DEF OwnedAt
<1>5. AllOwned(r) = AllOwned(t) + OwnedAt(r, h) - OwnedAt(t, h)
  BY <1>1, <1>2, <1>3, OneTableChanges
<1>6. AllOwned(t) \in Int /\ Owned(t.slot[h]) \in Int
  BY <1>2, AllOwnedType, TableOwns
<1>7. Meanings(r) = Dictionary!Only(Meanings(t), DOMAIN Meanings(t) \ {h})
  BY <1>1 DEF Meanings, Dictionary!Only
<1>8. QED BY <1>1, <1>4, <1>5, <1>6, <1>7

\* What each step keeps and what it is for the functions.
Step == HashInv' /\ [Dictionary!Next]_(Meanings(sym))

LEMMA NextOf ==
  ASSUME \/ Dictionary!Create(Meanings(sym), Meanings(sym)')
         \/ Dictionary!Free(Meanings(sym), Meanings(sym)')
         \/ Dictionary!Enter(Meanings(sym), Meanings(sym)')
         \/ Dictionary!Delete(Meanings(sym), Meanings(sym)')
  PROVE  Dictionary!Next
  BY DEF Dictionary!Next, Meanings

LEMMA CreateStep == ASSUME HashAssumption, HashInv, Create PROVE Step
<1>1. PICK size \in Sizes : sym' = AllocObject(sym, NewTable(size)) /\ strings' = strings
  BY DEF Create
<1>2. PICK r : r = AllocObject(sym, NewTable(size))
  OBVIOUS
<1>3. /\ IsList(r, GoodTables) /\ Sound(r) /\ AllOwned(r) = AllOwned(sym)
      /\ Dictionary!Create(Meanings(sym), Meanings(r))
  BY <1>2, CreateAdds DEF HashInv
<1>4. sym' = r /\ Meanings(sym)' = Meanings(r) /\ AllOwned(sym)' = AllOwned(r)
  BY <1>1, <1>2 DEF Meanings
<1>5. strings' = AllOwned(sym)'
  BY <1>1, <1>3, <1>4 DEF HashInv, CopiesOwned
<1>6. QED BY <1>3, <1>4, <1>5, NextOf DEF Step, HashInv, CopiesOwned

LEMMA FreeStep == ASSUME HashAssumption, HashInv, Free PROVE Step
<1>1. PICK h \in InUse(sym) : /\ sym' = FreeHandle(sym, h)
                              /\ strings' = strings - Owned(sym.slot[h])
  BY DEF Free, hashFree
<1>2. PICK r : r = FreeHandle(sym, h)
  OBVIOUS
<1>3. /\ IsList(r, GoodTables) /\ Sound(r) /\ AllOwned(r) = AllOwned(sym) - Owned(sym.slot[h])
      /\ Meanings(r) = Dictionary!Only(Meanings(sym), DOMAIN Meanings(sym) \ {h})
  BY <1>2, FreeTakes DEF HashInv
<1>4. sym' = r /\ Meanings(sym)' = Meanings(r) /\ AllOwned(sym)' = AllOwned(r)
  BY <1>1, <1>2 DEF Meanings
<1>5. strings' = AllOwned(sym)'
  BY <1>1, <1>3, <1>4 DEF HashInv, CopiesOwned
<1>6. Dictionary!Free(Meanings(sym), Meanings(r))
  <2>1. h \in DOMAIN Meanings(sym)
    BY DEF Meanings
  <2>2. QED BY <1>3, <2>1 DEF Dictionary!Free
<1>7. QED BY <1>3, <1>4, <1>5, <1>6, NextOf DEF Step, HashInv, CopiesOwned

\* A step that sets the entry of a handle, and accounts for what it owns.
LEMMA SetStep ==
  ASSUME HashAssumption, HashInv, NEW h \in InUse(sym), NEW u \in GoodTables,
         sym' = SlotWith(sym, h, u), NEW more \in Int, strings' = strings + more,
         Owned(u) = Owned(sym.slot[h]) + more
  PROVE  /\ HashInv'
         /\ Meanings(sym)' = [Meanings(sym) EXCEPT ![h] = Meaning(u)]
<1>1. PICK r : r = SlotWith(sym, h, u)
  OBVIOUS
<1>2. /\ IsList(r, GoodTables) /\ Sound(r)
      /\ AllOwned(r) = AllOwned(sym) + Owned(u) - Owned(sym.slot[h])
      /\ Meanings(r) = [Meanings(sym) EXCEPT ![h] = Meaning(u)]
  BY <1>1, OneTableSet DEF HashInv
<1>3. sym' = r /\ Meanings(sym)' = Meanings(r) /\ AllOwned(sym)' = AllOwned(r)
  BY <1>1 DEF Meanings
<1>4. AllOwned(sym) \in Int /\ Owned(sym.slot[h]) \in Int /\ strings = AllOwned(sym)
  <2>1. sym.slot[h] \in GoodTables
    BY TableInUse DEF HashInv
  <2>2. QED BY <2>1, AllOwnedType, TableOwns DEF HashInv, CopiesOwned
<1>5. strings' = AllOwned(sym)'
  BY <1>2, <1>3, <1>4
<1>6. QED BY <1>2, <1>3, <1>5 DEF HashInv, CopiesOwned

LEMMA EnterStep == ASSUME HashAssumption, HashInv, Enter PROVE Step
<1>1. PICK h \in InUse(sym), n \in Names, v \in Values :
        /\ sym' = [sym EXCEPT !.slot[h] = hashEnter(@, n, v)]
        /\ strings' = strings + Entered(sym.slot[h], n, v)
  BY DEF Enter
<1>2. PICK tp : tp = sym.slot[h]
  OBVIOUS
<1>3. tp \in GoodTables
  BY <1>2, TableInUse DEF HashInv
<1>4. PICK u : u = hashEnter(tp, n, v)
  OBVIOUS
<1>5. /\ u \in GoodTables /\ Owned(u) = Owned(tp) + Entered(tp, n, v)
      /\ \A m \in Names : \A w : Holds(u, m, w) <=> IF m = n THEN w = v ELSE Holds(tp, m, w)
  BY <1>3, <1>4, EnterIs
<1>6. Entered(tp, n, v) \in Int
  BY <1>3, EnteredType
<1>7. sym' = SlotWith(sym, h, u)
  BY <1>1, <1>2, <1>4 DEF SlotWith
<1>8. HashInv' /\ Meanings(sym)' = [Meanings(sym) EXCEPT ![h] = Meaning(u)]
  BY <1>1, <1>2, <1>5, <1>6, <1>7, SetStep
<1>9. Meaning(u) = Dictionary!With(Meanings(sym)[h], n, v)
  <2>1. Meanings(sym)[h] = Meaning(tp)
    BY <1>2 DEF Meanings
  <2>2. QED BY <1>3, <1>5, <2>1, EnterMeans
<1>10. Dictionary!Enter(Meanings(sym), Meanings(sym)')
  <2>1. h \in DOMAIN Meanings(sym)
    BY DEF Meanings
  <2>2. QED BY <1>8, <1>9, <2>1 DEF Dictionary!Enter
<1>11. QED BY <1>8, <1>10, NextOf DEF Step

\* A table that holds less is what a deletion makes.
LEMMA DeletionOf ==
  ASSUME HashAssumption, HashInv, NEW h \in InUse(sym), NEW u \in GoodTables,
         NEW S \in SUBSET Names, Without(u, sym.slot[h], S),
         Meanings(sym)' = [Meanings(sym) EXCEPT ![h] = Meaning(u)]
  PROVE  Dictionary!Delete(Meanings(sym), Meanings(sym)')
<1>1. sym.slot[h] \in GoodTables
  BY TableInUse DEF HashInv
<1>2. h \in DOMAIN Meanings(sym) /\ Meanings(sym)[h] = Meaning(sym.slot[h])
  BY DEF Meanings
<1>3. Meaning(u) = Dictionary!Only(Meanings(sym)[h], DOMAIN Meanings(sym)[h] \ S)
  BY <1>1, <1>2, WithoutMeans
<1>4. QED BY <1>2, <1>3 DEF Dictionary!Delete

LEMMA DeleteStep == ASSUME HashAssumption, HashInv, Delete PROVE Step
<1>1. PICK h \in InUse(sym), n \in Names :
        /\ sym' = [sym EXCEPT !.slot[h] = hashDelete(@, n)]
        /\ strings' = strings - Deleted(sym.slot[h], n)
  BY DEF Delete
<1>2. PICK tp : tp = sym.slot[h]
  OBVIOUS
<1>3. tp \in GoodTables
  BY <1>2, TableInUse DEF HashInv
<1>4. PICK u : u = hashDelete(tp, n)
  OBVIOUS
<1>5. /\ u \in GoodTables /\ Owned(u) = Owned(tp) - Deleted(tp, n) /\ Deleted(tp, n) \in Int
      /\ \A m \in Names : \A w : Holds(u, m, w) <=> m # n /\ Holds(tp, m, w)
  BY <1>3, <1>4, DeleteIs
<1>6. PICK more \in Int : /\ more = - Deleted(tp, n) /\ strings' = strings + more
                          /\ Owned(u) = Owned(tp) + more
  <2>1. strings \in Int /\ Owned(tp) \in Int
    BY <1>3, AllOwnedType, TableOwns DEF HashInv, CopiesOwned
  <2>2. QED BY <1>1, <1>2, <1>5, <2>1
<1>7. sym' = SlotWith(sym, h, u)
  BY <1>1, <1>2, <1>4 DEF SlotWith
<1>8. HashInv' /\ Meanings(sym)' = [Meanings(sym) EXCEPT ![h] = Meaning(u)]
  BY <1>2, <1>5, <1>6, <1>7, SetStep
<1>9. PICK S \in SUBSET Names : Without(u, tp, S)
  <2>1. Without(u, tp, {n})
    BY <1>5 DEF Without
  <2>2. QED BY <2>1
<1>10. Dictionary!Delete(Meanings(sym), Meanings(sym)')
  BY <1>2, <1>5, <1>8, <1>9, DeletionOf
<1>11. QED BY <1>8, <1>10, NextOf DEF Step

LEMMA PruneStep == ASSUME HashAssumption, HashInv, Prune PROVE Step
<1>1. PICK h \in InUse(sym), doomed \in SUBSET Names :
        /\ sym' = [sym EXCEPT !.slot[h] = Pruned(sym.slot[h], doomed).tp]
        /\ strings' = strings - Pruned(sym.slot[h], doomed).freed
  BY DEF Prune
<1>2. PICK tp : tp = sym.slot[h]
  OBVIOUS
<1>3. tp \in GoodTables
  BY <1>2, TableInUse DEF HashInv
<1>4. PICK p : p = Pruned(tp, doomed)
  OBVIOUS
<1>5. /\ p.tp \in GoodTables /\ p.freed \in Int /\ Owned(p.tp) = Owned(tp) - p.freed
      /\ \E S \in SUBSET (Names \cap doomed) : Without(p.tp, tp, S)
  BY <1>3, <1>4, PruneIs
<1>6. PICK more \in Int : /\ more = - p.freed /\ strings' = strings + more
                          /\ Owned(p.tp) = Owned(tp) + more
  <2>1. strings \in Int /\ Owned(tp) \in Int
    BY <1>3, AllOwnedType, TableOwns DEF HashInv, CopiesOwned
  <2>2. strings' = strings - p.freed
    BY <1>1, <1>2, <1>4
  <2>3. QED BY <1>5, <2>1, <2>2
<1>7. sym' = SlotWith(sym, h, p.tp)
  BY <1>1, <1>2, <1>4 DEF SlotWith
<1>8. HashInv' /\ Meanings(sym)' = [Meanings(sym) EXCEPT ![h] = Meaning(p.tp)]
  BY <1>2, <1>5, <1>6, <1>7, SetStep
<1>9. PICK S \in SUBSET Names : Without(p.tp, tp, S)
  BY <1>5
<1>10. Dictionary!Delete(Meanings(sym), Meanings(sym)')
  BY <1>2, <1>5, <1>8, <1>9, DeletionOf
<1>11. QED BY <1>8, <1>10, NextOf DEF Step

----------------------------------------------------------------------------
(* The refinement. *)

LEMMA InitMaps == HashInit => HashInv /\ Dictionary!Init
<1> SUFFICES ASSUME HashInit PROVE HashInv /\ Dictionary!Init
  OBVIOUS
<1>1. sym = NoList /\ strings = 0
  BY DEF HashInit
<1>2. IsList(sym, GoodTables) /\ Sound(sym) /\ InUse(sym) = {}
  BY <1>1, NoListSound
<1>3. AllOwned(sym) = 0
  BY <1>1, TotalNone DEF AllOwned, NoList
<1>4. Meanings(sym) = Dictionary!Empty
  BY <1>2 DEF Meanings, Dictionary!Empty
<1>5. QED BY <1>1, <1>2, <1>3, <1>4 DEF HashInv, CopiesOwned, Dictionary!Init

LEMMA StepMaps ==
  HashAssumption /\ HashInv /\ [HashNext]_<<sym, strings>> => Step
<1> SUFFICES ASSUME HashAssumption, HashInv, [HashNext]_<<sym, strings>>
             PROVE  Step
  OBVIOUS
<1>1. CASE UNCHANGED <<sym, strings>>
  BY <1>1 DEF Step, HashInv, CopiesOwned, Meanings
<1>2. CASE Create
  BY <1>2, CreateStep
<1>3. CASE Free
  BY <1>3, FreeStep
<1>4. CASE Enter
  BY <1>4, EnterStep
<1>5. CASE Delete
  BY <1>5, DeleteStep
<1>6. CASE Prune
  BY <1>6, PruneStep
<1>7. QED BY <1>1, <1>2, <1>3, <1>4, <1>5, <1>6 DEF HashNext

LEMMA HashInvariant == ASSUME HashAssumption PROVE HashSpec => []HashInv
<1>1. HashInit => HashInv
  BY InitMaps
<1>2. HashInv /\ [HashNext]_<<sym, strings>> => HashInv'
  BY StepMaps DEF Step
<1> HIDE DEF HashInv
<1>3. QED BY <1>1, <1>2, PTL DEF HashSpec

\* Whatever names share a chain and however entries come and go, with a loop
\* over the table that deletes the entry it is at too: hashLookup finds what
\* hashEnter last gave the name, and hashDelete takes no other name with it.
THEOREM HashIsDictionary == ASSUME HashAssumption PROVE HashSpec => Dictionary!Spec
<1>1. HashInit => Dictionary!Init
  BY InitMaps
<1>2. HashInv /\ [HashNext]_<<sym, strings>> => [Dictionary!Next]_(Meanings(sym))
  BY StepMaps DEF Step
<1> HIDE DEF HashInv
<1>3. QED BY <1>1, <1>2, HashInvariant, PTL DEF HashSpec, Dictionary!Spec

\* The copies of names and values that valueString and sclone made and that
\* valueFree and wfree did not free are those that the entries of the open
\* tables own: none leaks, and none is freed twice.
THEOREM CopiesAccounted == ASSUME HashAssumption PROVE HashSpec => []CopiesOwned
<1>1. HashInv => CopiesOwned
  BY DEF HashInv
<1> HIDE DEF HashInv
<1>2. QED BY <1>1, HashInvariant, PTL

----------------------------------------------------------------------------
(* A walk over a table, in the order of its chains and their entries. *)

\* e is the k-th entry of the chain of index b.
EntryAt(tp, e, b, k) ==
  /\ b \in 0 .. tp.size - 1 /\ k \in 1 .. Len(tp.hash_table[b])
  /\ e = tp.hash_table[b][k]

\* Where a name is, and whether that is before the k-th entry of chain b.
PlaceOf(tp, n) == Place(Chain(tp, n), n)
Before(tp, n, b, k) ==
  /\ n \in Known(tp)
  /\ hashIndex(tp, n) < b \/ (hashIndex(tp, n) = b /\ PlaceOf(tp, n) < k)

LEMMA KnownIs ==
  ASSUME HashAssumption, NEW tp \in GoodTables, NEW n \in Known(tp)
  PROVE  /\ n \in Names /\ hashIndex(tp, n) \in 0 .. tp.size - 1
         /\ Chain(tp, n) = tp.hash_table[hashIndex(tp, n)] /\ Chain(tp, n) \in Seq(Entry)
         /\ PlaceOf(tp, n) \in 1 .. Len(Chain(tp, n)) /\ Chain(tp, n)[PlaceOf(tp, n)].name = n
<1>1. n \in Names /\ hashLookup(tp, n) # NoEntry
  BY DEF Known
<1> PICK b : b = hashIndex(tp, n)
  OBVIOUS
<1> PICK c : c = tp.hash_table[b]
  OBVIOUS
<1> PICK k : k = Place(c, n)
  OBVIOUS
<1>2. /\ b \in 0 .. tp.size - 1 /\ c = Chain(tp, n) /\ OneChain(c, tp.size, b)
      /\ hashLookup(tp, n) = NoEntry <=> k = 0
      /\ k # 0 => k \in 1 .. Len(c) /\ c[k] \in Entry /\ c[k].name = n
  BY <1>1, LookupIs
<1>3. k = PlaceOf(tp, n)
  BY <1>2 DEF PlaceOf
<1>4. c \in Seq(Entry)
  BY <1>2 DEF OneChain
<1>5. QED BY <1>1, <1>2, <1>3, <1>4

LEMMA EntryAtIs ==
  ASSUME HashAssumption, NEW tp \in GoodTables, NEW e, NEW b, NEW k, EntryAt(tp, e, b, k)
  PROVE  /\ e \in Entry /\ e.name \in Known(tp) /\ e.bucket = b /\ e # NoEntry
         /\ Place(tp.hash_table[b], e.name) = k
         /\ \A n \in Known(tp) : n = e.name <=> hashIndex(tp, n) = b /\ PlaceOf(tp, n) = k
<1> PICK c : c = tp.hash_table[b]
  OBVIOUS
<1>1. b \in 0 .. tp.size - 1 /\ k \in 1 .. Len(c) /\ e = c[k]
  BY DEF EntryAt
<1>2. OneChain(c, tp.size, b)
  BY <1>1, TableParts
<1>3. e \in Entry /\ e.bucket = b /\ Sum[e.name] % tp.size = b
  BY <1>1, <1>2 DEF OneChain
<1>4. e.name \in Names
  BY <1>3 DEF Entry
<1>5. Place(c, e.name) = k
  <2>1. \A j \in 1 .. Len(c) : c[j].name = e.name => j = Place(c, e.name)
    BY <1>2, PlaceIs
  <2>2. QED BY <1>1, <2>1
<1>6. hashIndex(tp, e.name) = b
  BY <1>3 DEF hashIndex
<1>7. Chain(tp, e.name) = c /\ PlaceOf(tp, e.name) = k
  BY <1>5, <1>6 DEF Chain, PlaceOf
<1>8. k # 0
  BY <1>1
<1>9. hashLookup(tp, e.name) # NoEntry
  <2>1. PICK j : j = Place(c, e.name)
    OBVIOUS
  <2>2. PICK a : a = hashIndex(tp, e.name)
    OBVIOUS
  <2>3. c = tp.hash_table[a]
    BY <1>6, <2>2
  <2>4. hashLookup(tp, e.name) = NoEntry <=> j = 0
    BY <1>4, <2>1, <2>2, <2>3, LookupIs
  <2>5. QED BY <1>5, <1>8, <2>1, <2>4
<1>10. e.name \in Known(tp)
  BY <1>4, <1>9 DEF Known
<1>11. e # NoEntry
  <2>1. NoEntry.name = << >>
    BY DEF NoEntry
  <2>2. QED BY <1>4, <2>1 DEF HashAssumption
<1>12. ASSUME NEW n \in Known(tp)
       PROVE  n = e.name <=> hashIndex(tp, n) = b /\ PlaceOf(tp, n) = k
  <2>1. ASSUME hashIndex(tp, n) = b, PlaceOf(tp, n) = k PROVE n = e.name
    <3>1. Chain(tp, n)[PlaceOf(tp, n)].name = n /\ Chain(tp, n) = tp.hash_table[hashIndex(tp, n)]
      BY KnownIs
    <3>2. QED BY <1>1, <2>1, <3>1
  <2>2. QED BY <1>6, <1>7, <2>1
<1>13. QED BY <1>3, <1>5, <1>10, <1>11, <1>12

\* What comes at index i or behind it.
LEMMA FirstFromAt ==
  ASSUME HashAssumption, NEW tp \in GoodTables, NEW i \in Nat, NEW e, e = FirstFrom(tp, i)
  PROVE  \/ e = NoEntry /\ \A n \in Known(tp) : hashIndex(tp, n) < i
         \/ \E b, k : /\ EntryAt(tp, e, b, k)
                      /\ \A n \in Known(tp) : Before(tp, n, b, k) <=> hashIndex(tp, n) < i
<1> DEFINE full == {b \in i .. tp.size - 1 : tp.hash_table[b] # << >>}
           b == Smallest(full)
<1>1. e = IF full = {} THEN NoEntry ELSE tp.hash_table[b][1]
  BY DEF FirstFrom
<1>2. \A n \in Known(tp) : /\ hashIndex(tp, n) \in 0 .. tp.size - 1
                           /\ hashIndex(tp, n) < i \/ hashIndex(tp, n) \in full
  <2>1. ASSUME NEW n \in Known(tp)
        PROVE  hashIndex(tp, n) \in 0 .. tp.size - 1 /\ (hashIndex(tp, n) < i \/ hashIndex(tp, n) \in full)
    <3> PICK x : x = hashIndex(tp, n)
      OBVIOUS
    <3> PICK c : c = tp.hash_table[x]
      OBVIOUS
    <3>1. x \in 0 .. tp.size - 1 /\ c \in Seq(Entry) /\ PlaceOf(tp, n) \in 1 .. Len(c)
      BY KnownIs
    <3>2. Len(<< >>) = 0
      OBVIOUS
    <3>3. c # << >>
      BY <3>1, <3>2
    <3>4. tp.size \in Nat
      BY TableParts
    <3>5. QED BY <3>1, <3>3, <3>4
  <2>2. QED BY <2>1
<1>3. CASE full = {}
  BY <1>1, <1>2, <1>3
<1>4. CASE full # {}
  <2>1. full \in SUBSET Nat /\ full \subseteq 0 .. tp.size - 1 /\ \A x \in full : i <= x
    BY TableParts
  <2>2. b \in full /\ \A x \in full : b <= x
    <3> HIDE DEF full
    <3>1. QED BY <1>4, <2>1, SmallestOfNat
  <2>3. b \in 0 .. tp.size - 1 /\ tp.hash_table[b] # << >> /\ i <= b
    BY <2>1, <2>2
  <2>4. tp.hash_table[b] \in Seq(Entry)
    BY <2>3, TableParts
  <2> HIDE DEF b, full
  <2>5. PICK c : c = tp.hash_table[b]
    OBVIOUS
  <2>6. PICK k : k = 1
    OBVIOUS
  <2>7. k \in 1 .. Len(c)
    BY <2>3, <2>4, <2>5, <2>6
  <2>8. EntryAt(tp, e, b, k)
    BY <1>1, <1>4, <2>3, <2>5, <2>6, <2>7 DEF EntryAt
  <2>9. ASSUME NEW n \in Known(tp) PROVE Before(tp, n, b, k) <=> hashIndex(tp, n) < i
    <3>1. PICK x : x = hashIndex(tp, n)
      OBVIOUS
    <3>2. PICK p : p = PlaceOf(tp, n)
      OBVIOUS
    <3>3. x \in Nat /\ (x < i \/ x \in full) /\ b \in Nat
      BY <1>2, <2>1, <2>2, <3>1
    <3>4. p \in Nat /\ ~ p < k
      BY <2>6, <3>2, KnownIs
    <3>5. Before(tp, n, b, k) <=> x < b \/ (x = b /\ p < k)
      BY <3>1, <3>2 DEF Before
    <3>6. x < b <=> x < i
      BY <2>2, <2>3, <3>3
    <3>7. QED BY <3>1, <3>4, <3>5, <3>6
  <2>10. QED BY <2>8, <2>9
<1>5. QED BY <1>3, <1>4

\* The next entry comes right behind e.
LEMMA NextAt ==
  ASSUME HashAssumption, NEW tp \in GoodTables, NEW e, NEW b, NEW k, EntryAt(tp, e, b, k),
         NEW next, next = hashNext(tp, e)
  PROVE  \/ next = NoEntry /\ \A n \in Known(tp) : Before(tp, n, b, k) \/ n = e.name
         \/ \E x, y : /\ EntryAt(tp, next, x, y)
                      /\ \A n \in Known(tp) : Before(tp, n, x, y) <=> Before(tp, n, b, k) \/ n = e.name
<1> PICK c : c = tp.hash_table[b]
  OBVIOUS
<1>1. b \in 0 .. tp.size - 1 /\ k \in 1 .. Len(c) /\ e = c[k] /\ b \in Nat
  BY DEF EntryAt
<1>2. /\ e.bucket = b /\ Place(c, e.name) = k
      /\ \A n \in Known(tp) : n = e.name <=> hashIndex(tp, n) = b /\ PlaceOf(tp, n) = k
  BY EntryAtIs
<1>3. Len(c) \in Nat
  <2>1. OneChain(c, tp.size, b)
    BY <1>1, TableParts
  <2>2. QED BY <2>1 DEF OneChain
<1>4. next = IF k < Len(c) THEN c[k + 1] ELSE FirstFrom(tp, b + 1)
  BY <1>2 DEF hashNext
<1>5. \A n \in Known(tp) : /\ hashIndex(tp, n) \in Nat /\ PlaceOf(tp, n) \in Nat
                           /\ hashIndex(tp, n) = b => PlaceOf(tp, n) \in 1 .. Len(c)
  <2>1. ASSUME NEW n \in Known(tp)
        PROVE  /\ hashIndex(tp, n) \in Nat /\ PlaceOf(tp, n) \in Nat
               /\ hashIndex(tp, n) = b => PlaceOf(tp, n) \in 1 .. Len(c)
    <3>1. /\ hashIndex(tp, n) \in 0 .. tp.size - 1 /\ PlaceOf(tp, n) \in 1 .. Len(Chain(tp, n))
          /\ Chain(tp, n) = tp.hash_table[hashIndex(tp, n)]
      BY KnownIs
    <3>2. QED BY <3>1
  <2>2. QED BY <2>1
<1>6. CASE k < Len(c)
  <2>1. PICK j : j = k + 1
    OBVIOUS
  <2>2. EntryAt(tp, next, b, j)
    <3>1. j \in 1 .. Len(c)
      BY <1>1, <1>3, <1>6, <2>1
    <3>2. QED BY <1>1, <1>4, <1>6, <2>1, <3>1 DEF EntryAt
  <2>3. ASSUME NEW n \in Known(tp) PROVE Before(tp, n, b, j) <=> Before(tp, n, b, k) \/ n = e.name
    <3>1. PICK x : x = hashIndex(tp, n)
      OBVIOUS
    <3>2. PICK p : p = PlaceOf(tp, n)
      OBVIOUS
    <3>3. x \in Nat /\ p \in Nat /\ (n = e.name <=> x = b /\ p = k)
      BY <1>2, <1>5, <3>1, <3>2
    <3>4. /\ Before(tp, n, b, k) <=> x < b \/ (x = b /\ p < k)
          /\ Before(tp, n, b, j) <=> x < b \/ (x = b /\ p < j)
      BY <3>1, <3>2 DEF Before
    <3>5. p < j <=> p < k \/ p = k
      BY <1>1, <2>1, <3>3
    <3>6. QED BY <3>3, <3>4, <3>5
  <2>4. QED BY <2>2, <2>3
<1>7. CASE ~ k < Len(c)
  <2>1. PICK i \in Nat : i = b + 1
    BY <1>1
  <2>2. next = FirstFrom(tp, i)
    BY <1>4, <1>7, <2>1
  <2>3. ASSUME NEW n \in Known(tp) PROVE hashIndex(tp, n) < i <=> Before(tp, n, b, k) \/ n = e.name
    <3>1. PICK x : x = hashIndex(tp, n)
      OBVIOUS
    <3>2. PICK p : p = PlaceOf(tp, n)
      OBVIOUS
    <3>3. /\ x \in Nat /\ p \in Nat /\ (n = e.name <=> x = b /\ p = k)
          /\ x = b => p \in 1 .. Len(c)
      BY <1>2, <1>5, <3>1, <3>2
    <3>4. Before(tp, n, b, k) <=> x < b \/ (x = b /\ p < k)
      BY <3>1, <3>2 DEF Before
    <3>5. x < i <=> x < b \/ x = b
      BY <1>1, <2>1, <3>3
    <3>6. x = b => p < k \/ p = k
      BY <1>1, <1>3, <1>7, <3>3
    <3>7. QED BY <3>1, <3>3, <3>4, <3>5, <3>6
  <2>4. CASE next = NoEntry /\ \A n \in Known(tp) : hashIndex(tp, n) < i
    BY <2>3, <2>4
  <2>5. CASE \E x, y : /\ EntryAt(tp, next, x, y)
                       /\ \A n \in Known(tp) : Before(tp, n, x, y) <=> hashIndex(tp, n) < i
    BY <2>3, <2>5
  <2>6. QED BY <2>2, <2>4, <2>5, FirstFromAt
<1>8. QED BY <1>6, <1>7

\* An entry behind the one that is deleted moves up by one place.
Shift(b, k, x, j) == IF x = b /\ j > k THEN j - 1 ELSE j

LEMMA EntriesShift ==
  ASSUME HashAssumption, NEW tp \in GoodTables, NEW e, NEW b, NEW k, EntryAt(tp, e, b, k),
         NEW u, u = hashDelete(tp, e.name), NEW next, NEW x, NEW j, EntryAt(tp, next, x, j),
         x # b \/ j # k
  PROVE  EntryAt(u, next, x, Shift(b, k, x, j))
<1> PICK c : c = tp.hash_table[b]
  OBVIOUS
<1> PICK d : d = ChainWithout(c, k)
  OBVIOUS
<1>1. b \in 0 .. tp.size - 1 /\ k \in 1 .. Len(c) /\ e = c[k]
  BY DEF EntryAt
<1>2. OneChain(c, tp.size, b)
  BY <1>1, TableParts
<1>3. c \in Seq(Entry) /\ Len(c) \in Nat
  BY <1>2 DEF OneChain
<1>4. e.name \in Names /\ hashIndex(tp, e.name) = b /\ Place(c, e.name) = k
  <2>1. e.name \in Known(tp) /\ Place(c, e.name) = k
    BY EntryAtIs
  <2>2. e.name \in Names /\ hashIndex(tp, e.name) = b
    BY <2>1, EntryAtIs, KnownIs
  <2>3. QED BY <2>1, <2>2
<1>5. u = TableWith(tp, b, d)
  BY <1>1, <1>4 DEF hashDelete, TableWith, ChainWithout
<1>6. OneChain(d, tp.size, b)
  BY <1>1, <1>2, ChainCut
<1>7. /\ u.size = tp.size /\ u.hash_table[b] = d
      /\ \A a \in 0 .. tp.size - 1 : a # b => u.hash_table[a] = tp.hash_table[a]
  BY <1>1, <1>5, <1>6, ChainSet
<1>8. /\ Len(d) = Len(c) - 1
      /\ \A i \in 1 .. Len(c) - 1 : d[i] = IF i < k THEN c[i] ELSE c[i + 1]
  BY <1>1, <1>3, CutOut
<1>9. x \in 0 .. tp.size - 1 /\ j \in 1 .. Len(tp.hash_table[x]) /\ next = tp.hash_table[x][j]
  BY DEF EntryAt
<1>10. CASE x # b
  <2>1. Shift(b, k, x, j) = j
    BY <1>10 DEF Shift
  <2>2. QED BY <1>7, <1>9, <1>10, <2>1 DEF EntryAt
<1>11. CASE x = b
  <2>1. PICK i : i = Shift(b, k, x, j)
    OBVIOUS
  <2>2. i = IF j > k THEN j - 1 ELSE j
    BY <1>11, <2>1 DEF Shift
  <2>3. j \in 1 .. Len(c) /\ j # k /\ next = c[j]
    BY <1>9, <1>11
  <2>4. i \in 1 .. Len(c) - 1 /\ (i < k => i = j) /\ (~ i < k => i + 1 = j)
    BY <1>1, <1>3, <2>2, <2>3
  <2>5. d[i] = next
    BY <1>8, <2>3, <2>4
  <2>6. QED BY <1>7, <1>8, <1>9, <1>11, <2>1, <2>4, <2>5 DEF EntryAt
<1>12. QED BY <1>10, <1>11

\* What comes before an entry is the same when another entry goes, but for that.
LEMMA BeforeShifts ==
  ASSUME HashAssumption, NEW tp \in GoodTables, NEW e, NEW b, NEW k, EntryAt(tp, e, b, k),
         NEW u \in GoodTables, u = hashDelete(tp, e.name),
         NEW x, NEW j, j \in Nat, x # b \/ j # k,
         NEW n \in Known(tp), n # e.name
  PROVE  Before(u, n, x, Shift(b, k, x, j)) <=> Before(tp, n, x, j)
<1> PICK a : a = hashIndex(tp, n)
  OBVIOUS
<1> PICK p : p = PlaceOf(tp, n)
  OBVIOUS
<1> PICK w : w = Chain(tp, n)[p]
  OBVIOUS
<1>1. /\ a \in 0 .. tp.size - 1 /\ p \in 1 .. Len(tp.hash_table[a])
      /\ w = tp.hash_table[a][p] /\ w.name = n
  BY KnownIs
<1>2. EntryAt(tp, w, a, p)
  BY <1>1 DEF EntryAt
<1>3. a # b \/ p # k
  BY EntryAtIs
<1>4. PICK q : q = Shift(b, k, a, p)
  OBVIOUS
<1>5. EntryAt(u, w, a, q)
  BY <1>2, <1>3, <1>4, EntriesShift
<1>6. n \in Known(u) /\ hashIndex(u, n) = a /\ PlaceOf(u, n) = q
  BY <1>1, <1>5, EntryAtIs
<1>7. p \in Nat /\ k \in Nat
  BY <1>1 DEF EntryAt
<1>8. a = x => (q < Shift(b, k, x, j) <=> p < j)
  BY <1>3, <1>4, <1>7 DEF Shift
<1>9. QED BY <1>6, <1>8 DEF Before

LEMMA KnownWithout ==
  ASSUME HashAssumption, NEW tp \in GoodTables, NEW u \in GoodTables, NEW S, Without(u, tp, S)
  PROVE  \A n \in Names : n \in Known(u) <=> n \notin S /\ n \in Known(tp)
<1>1. ASSUME NEW n \in Names PROVE n \in Known(u) <=> n \notin S /\ n \in Known(tp)
  <2>1. \A w : Holds(u, n, w) <=> n \notin S /\ Holds(tp, n, w)
    BY DEF Without
  <2>2. \A w : Holds(u, n, w) <=> n \in Known(u) /\ Meaning(u)[n] = w
    BY MeaningIs DEF Meaning
  <2>3. \A w : Holds(tp, n, w) <=> n \in Known(tp) /\ Meaning(tp)[n] = w
    BY MeaningIs DEF Meaning
  <2>4. QED BY <2>1, <2>2, <2>3
<1>2. QED BY <1>1

InSeq(s, n) == \E i \in 1 .. Len(s) : s[i] = n
Once(s) == \A i, j \in 1 .. Len(s) : s[i] = s[j] => i = j

LEMMA OnceMore ==
  ASSUME NEW s \in Seq(Names), NEW x \in Names, Once(s), ~ InSeq(s, x)
  PROVE  /\ Append(s, x) \in Seq(Names) /\ Once(Append(s, x)) /\ Len(Append(s, x)) = Len(s) + 1
         /\ \A n : InSeq(Append(s, x), n) <=> InSeq(s, n) \/ n = x
<1> DEFINE d == Append(s, x)
           l == Len(s)
<1>1. l \in Nat /\ d \in Seq(Names) /\ Len(d) = l + 1 /\ d[l + 1] = x /\ \A i \in 1 .. l : d[i] = s[i]
  OBVIOUS
<1>2. \A i \in 1 .. l : s[i] # x
  BY DEF InSeq
<1>3. \A i, j \in 1 .. l : s[i] = s[j] => i = j
  BY DEF Once
<1>4. \A n : InSeq(s, n) <=> \E i \in 1 .. l : s[i] = n
  BY DEF InSeq
<1> HIDE DEF d, l
<1>5. \A i \in 1 .. l + 1 : i \in 1 .. l \/ i = l + 1
  BY <1>1
<1>6. 1 .. l \subseteq 1 .. l + 1 /\ l + 1 \in 1 .. l + 1
  BY <1>1
<1>7. Once(d)
  <2>1. ASSUME NEW i \in 1 .. l + 1, NEW j \in 1 .. l + 1, d[i] = d[j] PROVE i = j
    BY <1>1, <1>2, <1>3, <1>5, <2>1
  <2>2. QED BY <1>1, <2>1 DEF Once
<1>8. ASSUME NEW n PROVE InSeq(d, n) <=> InSeq(s, n) \/ n = x
  <2>1. InSeq(d, n) <=> \E i \in 1 .. l + 1 : d[i] = n
    BY <1>1 DEF InSeq
  <2>2. QED BY <1>1, <1>4, <1>5, <1>6, <2>1
<1>9. QED BY <1>1, <1>7, <1>8 DEF d, l

\* What is so after m rounds over tp: the names came by once, those that were
\* to go are gone, and what was before the present entry has come by.
Walked(p, tp, doomed, m) ==
  /\ p.tp \in GoodTables /\ p.seen \in Seq(Names) /\ Once(p.seen)
  /\ \A n \in Names : /\ InSeq(p.seen, n) => n \in Known(tp)
                      /\ n \in Known(p.tp) <=> n \in Known(tp) /\ ~ (n \in doomed /\ InSeq(p.seen, n))
  /\ \/ p.at = NoEntry /\ \A n \in Known(p.tp) : InSeq(p.seen, n)
     \/ /\ Len(p.seen) = m
        /\ \E b, k : /\ EntryAt(p.tp, p.at, b, k)
                     /\ \A n \in Known(p.tp) : InSeq(p.seen, n) <=> Before(p.tp, n, b, k)

LEMMA WalkStarts ==
  ASSUME HashAssumption, NEW tp \in GoodTables, NEW doomed, NEW m, m = 0
  PROVE  Walked(Start(tp), tp, doomed, m)
<1> DEFINE p == Start(tp)
<1>1. p.tp = tp /\ p.at = FirstFrom(tp, 0) /\ p.seen = << >>
  BY DEF Start, hashFirst
<1> HIDE DEF p
<1>2. p.seen \in Seq(Names) /\ Len(p.seen) = 0
  BY <1>1
<1>3. Once(p.seen) /\ \A n : ~ InSeq(p.seen, n)
  BY <1>2 DEF Once, InSeq
<1>4. PICK i \in Nat : i = 0
  OBVIOUS
<1>5. \A n \in Known(tp) : ~ hashIndex(tp, n) < i
  BY <1>4, KnownIs
<1>6. p.at = FirstFrom(tp, i)
  BY <1>1, <1>4
<1>7. CASE p.at = NoEntry /\ \A n \in Known(tp) : hashIndex(tp, n) < i
  <2>1. Walked(p, tp, doomed, m)
    BY <1>1, <1>2, <1>3, <1>5, <1>7 DEF Walked
  <2>2. QED BY <2>1 DEF p
<1>8. CASE \E b, k : /\ EntryAt(tp, p.at, b, k)
                     /\ \A n \in Known(tp) : Before(tp, n, b, k) <=> hashIndex(tp, n) < i
  <2>1. PICK b, k : /\ EntryAt(tp, p.at, b, k)
                    /\ \A n \in Known(tp) : Before(tp, n, b, k) <=> hashIndex(tp, n) < i
    BY <1>8
  <2>2. \A n \in Known(tp) : ~ Before(tp, n, b, k)
    BY <1>5, <2>1
  <2>3. Walked(p, tp, doomed, m)
    BY <1>1, <1>2, <1>3, <2>1, <2>2 DEF Walked
  <2>4. QED BY <2>3 DEF p
<1>9. QED BY <1>6, <1>7, <1>8, FirstFromAt

LEMMA WalkGoesOn ==
  ASSUME HashAssumption, NEW tp \in GoodTables, NEW doomed, NEW m \in Nat,
         NEW p, Walked(p, tp, doomed, m)
  PROVE  Walked(Round(p, doomed), tp, doomed, m + 1)
<1>1. /\ p.tp \in GoodTables /\ p.seen \in Seq(Names) /\ Once(p.seen)
      /\ \A n \in Names : InSeq(p.seen, n) => n \in Known(tp)
  BY DEF Walked
<1>a. \A n \in Names : n \in Known(p.tp) <=> n \in Known(tp) /\ ~ (n \in doomed /\ InSeq(p.seen, n))
  BY DEF Walked
<1>2. CASE p.at = NoEntry /\ \A n \in Known(p.tp) : InSeq(p.seen, n)
  <2>1. Round(p, doomed) = p
    BY <1>2 DEF Round
  <2>2. QED BY <1>1, <1>a, <1>2, <2>1 DEF Walked
<1>3. CASE /\ Len(p.seen) = m
           /\ \E b, k : /\ EntryAt(p.tp, p.at, b, k)
                        /\ \A n \in Known(p.tp) : InSeq(p.seen, n) <=> Before(p.tp, n, b, k)
  <2>1. PICK b, k : /\ EntryAt(p.tp, p.at, b, k)
                    /\ \A n \in Known(p.tp) : InSeq(p.seen, n) <=> Before(p.tp, n, b, k)
    BY <1>3
  <2> PICK x : x = p.at.name
    OBVIOUS
  <2>2. /\ x \in Known(p.tp) /\ p.at # NoEntry
        /\ hashIndex(p.tp, x) = b /\ PlaceOf(p.tp, x) = k
    BY <1>1, <2>1, EntryAtIs
  <2>3. x \in Names /\ ~ Before(p.tp, x, b, k) /\ x \in Known(tp)
    <3>1. x \in Names /\ b \in Nat /\ k \in Nat
      BY <1>1, <2>1, <2>2, KnownIs DEF EntryAt
    <3>2. QED BY <1>a, <2>2, <3>1 DEF Before
  <2> PICK next : next = hashNext(p.tp, p.at)
    OBVIOUS
  <2> PICK d : d = Append(p.seen, x)
    OBVIOUS
  <2> PICK u : u = IF x \in doomed THEN hashDelete(p.tp, x) ELSE p.tp
    OBVIOUS
  <2> PICK q : q = Round(p, doomed)
    OBVIOUS
  <2>4. q.at = next /\ q.seen = d /\ q.tp = u
    BY <2>2 DEF Round
  <2>5. /\ d \in Seq(Names) /\ Once(d) /\ Len(d) = m + 1
        /\ \A n : InSeq(d, n) <=> InSeq(p.seen, n) \/ n = x
    <3>1. ~ InSeq(p.seen, x)
      BY <2>1, <2>2, <2>3
    <3>2. QED BY <1>1, <1>3, <2>3, <3>1, OnceMore
  <2>6. /\ u \in GoodTables
        /\ \A n \in Names : n \in Known(u) <=> n \in Known(p.tp) /\ ~ (x \in doomed /\ n = x)
    <3>1. CASE x \in doomed
      <4>1. u = hashDelete(p.tp, x)
        BY <3>1
      <4>2. /\ u \in GoodTables
            /\ \A n \in Names : \A w : Holds(u, n, w) <=> n # x /\ Holds(p.tp, n, w)
        BY <1>1, <2>3, <4>1, DeleteIs
      <4>3. PICK S : S = {x}
        OBVIOUS
      <4>4. Without(u, p.tp, S)
        BY <4>2, <4>3 DEF Without
      <4>5. \A n \in Names : n \in Known(u) <=> n \notin S /\ n \in Known(p.tp)
        BY <1>1, <4>2, <4>4, KnownWithout
      <4>6. QED BY <3>1, <4>2, <4>3, <4>5
    <3>2. CASE x \notin doomed
      BY <1>1, <3>2
    <3>3. QED BY <3>1, <3>2
  <2>7. \A n \in Names : /\ InSeq(d, n) => n \in Known(tp)
                         /\ n \in Known(u) <=> n \in Known(tp) /\ ~ (n \in doomed /\ InSeq(d, n))
    <3>1. ASSUME NEW n \in Names
          PROVE  /\ InSeq(d, n) => n \in Known(tp)
                 /\ n \in Known(u) <=> n \in Known(tp) /\ ~ (n \in doomed /\ InSeq(d, n))
      <4>1. InSeq(d, n) <=> InSeq(p.seen, n) \/ n = x
        BY <2>5
      <4>2. n \in Known(u) <=> n \in Known(p.tp) /\ ~ (x \in doomed /\ n = x)
        BY <2>6
      <4>3. n \in Known(p.tp) <=> n \in Known(tp) /\ ~ (n \in doomed /\ InSeq(p.seen, n))
        BY <1>a
      <4>4. InSeq(p.seen, n) => n \in Known(tp)
        BY <1>1
      <4>5. QED BY <2>3, <4>1, <4>2, <4>3, <4>4
    <3>2. QED BY <3>1
  <2>8. \A n \in Known(u) : n \in Known(p.tp) /\ n \in Names /\ (x \in doomed => n # x)
    <3>1. \A n \in Known(u) : n \in Names
      BY DEF Known
    <3>2. QED BY <2>6, <3>1
  <2>9. CASE next = NoEntry /\ \A n \in Known(p.tp) : Before(p.tp, n, b, k) \/ n = x
    <3>1. \A n \in Known(u) : InSeq(d, n)
      BY <2>1, <2>5, <2>8, <2>9
    <3>2. QED BY <2>4, <2>5, <2>6, <2>7, <2>9, <3>1 DEF Walked
  <2>10. CASE \E y, z : /\ EntryAt(p.tp, next, y, z)
                        /\ \A n \in Known(p.tp) : Before(p.tp, n, y, z) <=> Before(p.tp, n, b, k) \/ n = x
    <3>1. PICK y, z : /\ EntryAt(p.tp, next, y, z)
                      /\ \A n \in Known(p.tp) : Before(p.tp, n, y, z) <=> Before(p.tp, n, b, k) \/ n = x
      BY <2>10
    <3>2. y # b \/ z # k
      BY <2>2, <2>3, <3>1
    <3>3. PICK v : /\ EntryAt(u, next, y, v)
                   /\ \A n \in Known(u) : Before(u, n, y, v) <=> Before(p.tp, n, y, z)
      <4>1. CASE x \in doomed
        <5>1. u = hashDelete(p.tp, p.at.name)
          BY <4>1
        <5>2. PICK v : v = Shift(b, k, y, z)
          OBVIOUS
        <5>3. EntryAt(u, next, y, v)
          BY <1>1, <2>1, <3>1, <3>2, <5>1, <5>2, EntriesShift
        <5>4. ASSUME NEW n \in Known(u) PROVE Before(u, n, y, v) <=> Before(p.tp, n, y, z)
          <6>1. n \in Known(p.tp) /\ n # p.at.name
            BY <2>8, <4>1
          <6>2. z \in Nat
            BY <3>1 DEF EntryAt
          <6>3. QED BY <1>1, <2>1, <2>6, <3>2, <5>1, <5>2, <6>1, <6>2, BeforeShifts
        <5>5. QED BY <5>3, <5>4
      <4>2. CASE x \notin doomed
        BY <3>1, <4>2
      <4>3. QED BY <4>1, <4>2
    <3>4. \A n \in Known(u) : InSeq(d, n) <=> Before(u, n, y, v)
      BY <2>1, <2>5, <2>8, <3>1, <3>3
    <3>5. QED BY <2>4, <2>5, <2>6, <2>7, <3>3, <3>4 DEF Walked
  <2>11. QED BY <1>1, <2>1, <2>9, <2>10, NextAt
<1>4. QED BY <1>2, <1>3 DEF Walked

LEMMA WalkIs ==
  ASSUME HashAssumption, NEW tp \in GoodTables, NEW doomed, NEW p, p = Pruned(tp, doomed)
  PROVE  /\ p.seen \in Seq(Names) /\ Once(p.seen)
         /\ \A n \in Names : /\ InSeq(p.seen, n) <=> n \in Known(tp)
                             /\ n \in Known(p.tp) <=> n \in Known(tp) /\ n \notin doomed
<1> PICK N : N = Cardinality(Names)
  OBVIOUS
<1>1. N \in Nat
  BY FS_CardinalityType DEF HashAssumption
<1>2. PICK r : Rounds(r, tp, doomed, N) /\ Pruned(tp, doomed) = r[N]
  BY <1>1, PrunedIs
<1>3. \A m \in 0 .. N : r[m] = IF m = 0 THEN Start(tp) ELSE Round(r[m - 1], doomed)
  BY <1>2 DEF Rounds
<1> DEFINE W == {m \in Nat : Walked(r[m], tp, doomed, m)}
<1>4. 0 \in W
  <2>1. PICK m \in Nat : m = 0
    OBVIOUS
  <2>2. r[m] = Start(tp)
    BY <1>1, <1>3, <2>1
  <2>3. Walked(r[m], tp, doomed, m)
    BY <2>1, <2>2, WalkStarts
  <2>4. QED BY <2>1, <2>3
<1>5. ASSUME NEW m \in 0 .. N - 1, m \in W PROVE m + 1 \in W
  <2>1. m + 1 \in 0 .. N /\ m + 1 # 0 /\ (m + 1) - 1 = m /\ m + 1 \in Nat
    BY <1>1
  <2>2. r[m + 1] = Round(r[m], doomed)
    BY <1>3, <2>1
  <2>3. Walked(r[m + 1], tp, doomed, m + 1)
    BY <1>5, <2>2, WalkGoesOn
  <2>4. QED BY <2>1, <2>3
<1>6. N \in 0 .. N
  BY <1>1
<1> HIDE DEF W
<1>7. N \in W
  BY <1>1, <1>4, <1>5, <1>6, UpTo
<1> PICK s : s = p.seen
  OBVIOUS
<1>8. Walked(p, tp, doomed, N)
  BY <1>2, <1>7 DEF W
<1>9. /\ s \in Seq(Names) /\ Once(s)
      /\ \A n \in Names : /\ InSeq(s, n) => n \in Known(tp)
                          /\ n \in Known(p.tp) <=> n \in Known(tp) /\ ~ (n \in doomed /\ InSeq(s, n))
  BY <1>8 DEF Walked
<1>10. CASE p.at = NoEntry /\ \A n \in Known(p.tp) : InSeq(s, n)
  <2>1. ASSUME NEW n \in Names
        PROVE  /\ InSeq(s, n) <=> n \in Known(tp)
               /\ n \in Known(p.tp) <=> n \in Known(tp) /\ n \notin doomed
    <3>1. /\ InSeq(s, n) => n \in Known(tp)
          /\ n \in Known(p.tp) <=> n \in Known(tp) /\ ~ (n \in doomed /\ InSeq(s, n))
      BY <1>9
    <3>2. n \in Known(p.tp) => InSeq(s, n)
      BY <1>10
    <3>3. QED BY <3>1, <3>2
  <2>2. QED BY <1>9, <2>1
\* There are not enough names for a walk that goes on.
<1>11. CASE /\ Len(s) = N
            /\ \E b, k : /\ EntryAt(p.tp, p.at, b, k)
                         /\ \A n \in Known(p.tp) : InSeq(s, n) <=> Before(p.tp, n, b, k)
  <2>1. PICK b, k : /\ EntryAt(p.tp, p.at, b, k)
                    /\ \A n \in Known(p.tp) : InSeq(s, n) <=> Before(p.tp, n, b, k)
    BY <1>11
  <2>2. p.tp \in GoodTables
    BY <1>8 DEF Walked
  <2> PICK x : x = p.at.name
    OBVIOUS
  <2>3. x \in Names /\ x \in Known(p.tp) /\ ~ Before(p.tp, x, b, k)
    <3>1. x \in Known(p.tp) /\ hashIndex(p.tp, x) = b /\ PlaceOf(p.tp, x) = k
      BY <2>1, <2>2, EntryAtIs
    <3>2. x \in Names /\ b \in Nat /\ k \in Nat
      BY <2>1, <2>2, <3>1, KnownIs DEF EntryAt
    <3>3. QED BY <3>1, <3>2 DEF Before
  <2>4. PICK T : T = Names \ {x}
    OBVIOUS
  <2>5. IsFiniteSet(T) /\ Cardinality(T) = N - 1
    <3>1. IsFiniteSet(Names)
      BY DEF HashAssumption
    <3>2. IsFiniteSet(Names \ {x}) /\ Cardinality(Names \ {x}) = Cardinality(Names) - 1
      BY <2>3, <3>1, FS_RemoveElement
    <3>3. QED BY <2>4, <3>2
  <2>6. PICK I : I = 1 .. N
    OBVIOUS
  <2>7. IsFiniteSet(I) /\ Cardinality(I) = N
    BY <1>1, <2>6, FS_Interval
  <2>8. s \in [I -> T]
    <3>1. s \in [I -> Names]
      BY <1>9, <1>11, <2>6
    <3>2. \A i \in I : s[i] # x
      BY <1>11, <2>1, <2>3, <2>6 DEF InSeq
    <3>3. QED BY <2>4, <3>1, <3>2
  <2>9. Cardinality(T) < Cardinality(I)
    BY <1>1, <2>5, <2>7
  <2>10. \E i, j \in I : i # j /\ s[i] = s[j]
    BY <2>5, <2>7, <2>8, <2>9, FS_PigeonHole
  <2>11. QED BY <1>9, <1>11, <2>6, <2>10 DEF Once
<1>12. QED BY <1>8, <1>10, <1>11 DEF Walked

\* A loop that begins with hashFirst and goes on with hashNext comes by every
\* name of the table and by none of them twice, also when it deletes entries
\* that it is at, as pruneCache does; and those are what is gone then.
THEOREM WalksComplete == ASSUME HashAssumption PROVE HashSpec => []WalksOnce
<1>1. ASSUME HashInv PROVE WalksOnce
  <2>1. ASSUME NEW h \in InUse(sym), NEW doomed \in SUBSET Names
        PROVE  LET p == Pruned(sym.slot[h], doomed)
                   known == Known(sym.slot[h])
               IN /\ Len(p.seen) = Cardinality(known) /\ {p.seen[k] : k \in DOMAIN p.seen} = known
                  /\ Known(p.tp) = known \ doomed
    <3> PICK p : p = Pruned(sym.slot[h], doomed)
      OBVIOUS
    <3> PICK s : s = p.seen
      OBVIOUS
    <3> PICK K : K = Known(sym.slot[h])
      OBVIOUS
    <3>1. sym.slot[h] \in GoodTables
      BY <1>1, TableInUse DEF HashInv
    <3>2. /\ s \in Seq(Names) /\ Once(s) /\ \A n \in Names : InSeq(s, n) <=> n \in K
          /\ \A n \in Names : n \in Known(p.tp) <=> n \in K /\ n \notin doomed
      BY <3>1, WalkIs
    <3>3. K \subseteq Names /\ Known(p.tp) \subseteq Names
      BY DEF Known
    <3>4. PICK l \in Nat : l = Len(s)
      BY <3>2
    <3>5. DOMAIN s = 1 .. l /\ s \in [1 .. l -> Names]
      BY <3>2, <3>4
    <3>6. {s[k] : k \in DOMAIN s} = K
      <4>1. \A n : InSeq(s, n) <=> \E k \in 1 .. l : s[k] = n
        BY <3>4 DEF InSeq
      <4>2. \A k \in 1 .. l : s[k] \in Names
        BY <3>5
      <4>3. QED BY <3>2, <3>3, <3>5, <4>1, <4>2
    <3>7. s \in Bijection(1 .. l, K)
      <4>1. s \in [1 .. l -> K] /\ \A n \in K : \E k \in 1 .. l : s[k] = n
        BY <3>5, <3>6
      <4>2. IsInjective(s)
        BY <3>2, <3>4, <3>5 DEF Once, IsInjective
      <4>3. QED BY <4>1, <4>2 DEF Bijection, Injection, Surjection
    <3>8. Cardinality(K) = l
      BY <3>7, FS_CountingElements DEF ExistsBijection
    <3>9. Known(p.tp) = K \ doomed
      BY <3>2, <3>3
    <3>10. QED BY <3>4, <3>6, <3>8, <3>9
  <2>2. QED BY <2>1 DEF WalksOnce
<1>2. HashInv => WalksOnce
  BY <1>1
<1> HIDE DEF HashInv, WalksOnce
<1>3. QED BY <1>2, HashInvariant, PTL
=============================================================================
