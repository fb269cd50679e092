---------------------------- MODULE RingBuf_proofs ----------------------------
(***************************************************************************)
(* A ring buffer is a sequence: each call of runtime.c that is made on it  *)
(* is a call on the sequence of Fifo, for memory of any size, blocks of    *)
(* any size and any bytes.                                                 *)
(***************************************************************************)
EXTENDS RingBuf, WellFoundedInduction, TLAPS

RingSpec == RingInit /\ [][RingNext]_<<ring, io>>

----------------------------------------------------------------------------
(* The buffer and what it contains. *)

Ring(b) ==
  /\ b.buflen \in Nat \ {0} /\ b.increment \in Nat \ {0} /\ b.maxsize \in Int
  /\ b.servp \in 0 .. b.buflen - 1 /\ b.endp \in 0 .. b.buflen - 1
  /\ b.mem \in [0 .. b.buflen - 1 -> Int]
  /\ b = [mem |-> b.mem, buflen |-> b.buflen, increment |-> b.increment,
          maxsize |-> b.maxsize, servp |-> b.servp, endp |-> b.endp]

\* Where the k-th byte is.
Place(b, k) ==
  IF b.servp + k - 1 < b.buflen THEN b.servp + k - 1 ELSE b.servp + k - 1 - b.buflen

LEMMA Modulo ==
  ASSUME NEW n \in Nat \ {0}, NEW a \in Nat, a < 2 * n
  PROVE  a % n = IF a < n THEN a ELSE a - n
OBVIOUS

LEMMA SameSequence ==
  ASSUME NEW S, NEW s \in Seq(S), NEW t \in Seq(S), Len(s) = Len(t),
         \A i \in 1 .. Len(s) : s[i] = t[i]
  PROVE  s = t
OBVIOUS

LEMMA JoinIs ==
  ASSUME NEW t \in Seq(Int), NEW u \in Seq(Int)
  PROVE  /\ t \o u \in Seq(Int) /\ Len(t \o u) = Len(t) + Len(u)
         /\ Len(t) \in Nat /\ Len(u) \in Nat
         /\ \A i \in 1 .. Len(t) : (t \o u)[i] = t[i]
         /\ \A i \in 1 .. Len(u) : (t \o u)[Len(t) + i] = u[i]
<1>1. t \o u \in Seq(Int) /\ Len(t \o u) = Len(t) + Len(u)
  OBVIOUS
<1>2. Len(t) \in Nat /\ Len(u) \in Nat
  OBVIOUS
<1>3. ASSUME NEW i \in 1 .. Len(t) PROVE (t \o u)[i] = t[i]
  OBVIOUS
<1>4. ASSUME NEW i \in 1 .. Len(u) PROVE (t \o u)[Len(t) + i] = u[i]
  OBVIOUS
<1>5. QED BY <1>1, <1>2, <1>3, <1>4

LEMMA ListIs ==
  ASSUME NEW S, NEW n \in Nat, NEW F, F = [k \in 1 .. n |-> F[k]],
         \A k \in 1 .. n : F[k] \in S
  PROVE  F \in Seq(S) /\ Len(F) = n
OBVIOUS

\* What there is and what there is room for.
LEMMA SizesOf ==
  ASSUME NEW b, Ring(b)
  PROVE  /\ b.buflen \in Nat \ {0} /\ b.servp \in Nat /\ b.servp < b.buflen
         /\ b.endp \in Nat /\ b.endp < b.buflen
         /\ bufLen(b) \in 0 .. b.buflen - 1
         /\ bufRoom(b) \in 0 .. b.buflen - 1 - bufLen(b)
         /\ bufRoom(b) <= b.buflen - b.endp
         /\ bufGetBlkMax(b) \in 0 .. bufLen(b)
         /\ bufGetBlkMax(b) <= b.buflen - b.servp
         /\ bufRoom(b) = 0 <=> bufLen(b) = b.buflen - 1
         /\ b.endp = IF b.servp + bufLen(b) < b.buflen THEN b.servp + bufLen(b)
                     ELSE b.servp + bufLen(b) - b.buflen
<1> DEFINE n == b.buflen
           p == b.servp
           e == b.endp
           l == bufLen(b)
           room == bufRoom(b)
           line == bufGetBlkMax(b)
<1>1. n \in Nat \ {0} /\ p \in Nat /\ e \in Nat /\ p < n /\ e < n
  BY DEF Ring
<1>2. l = IF p > e THEN n + e - p ELSE e - p
  BY DEF bufLen
<1>3. room = IF n - e <= n - l - 1 THEN n - e ELSE n - l - 1
  BY DEF bufRoom, Min2
<1>4. line = IF n - p <= l THEN n - p ELSE l
  BY DEF bufGetBlkMax, Min2
<1> HIDE DEF n, p, e, l, room, line
<1>5. l \in 0 .. n - 1 /\ e = IF p + l < n THEN p + l ELSE p + l - n
  BY <1>1, <1>2
<1>6. /\ room \in 0 .. n - 1 - l /\ room <= n - e
      /\ room = 0 <=> l = n - 1
  BY <1>1, <1>3, <1>5
<1>7. line \in 0 .. l /\ line <= n - p
  BY <1>1, <1>4, <1>5
<1>8. QED BY <1>1, <1>5, <1>6, <1>7 DEF n, p, e, l, room, line

LEMMA NoRingIs == ASSUME NEW b, Ring(b) PROVE b # NoRing
BY DEF Ring, NoRing

LEMMA PlaceIs ==
  ASSUME NEW b, Ring(b), NEW k \in 1 .. b.buflen
  PROVE  /\ Place(b, k) \in 0 .. b.buflen - 1
         /\ (b.servp + k - 1) % b.buflen = Place(b, k)
<1>1. b.buflen \in Nat \ {0} /\ b.servp \in Nat /\ b.servp < b.buflen
  BY DEF Ring
<1>2. Place(b, k) \in 0 .. b.buflen - 1
  BY <1>1 DEF Place
<1> DEFINE a == b.servp + k - 1
<1>3. a \in Nat /\ a < 2 * b.buflen
  BY <1>1
<1>4. Place(b, k) = IF a < b.buflen THEN a ELSE a - b.buflen
  BY <1>1 DEF Place
<1> HIDE DEF a
<1>5. a % b.buflen = Place(b, k)
  BY <1>1, <1>3, <1>4, Modulo
<1>6. QED BY <1>2, <1>5 DEF a

LEMMA ContentsAre ==
  ASSUME NEW b, Ring(b)
  PROVE  /\ Contents(b) \in Seq(Int) /\ Len(Contents(b)) = bufLen(b)
         /\ \A k \in 1 .. bufLen(b) : Contents(b)[k] = b.mem[Place(b, k)]
<1> DEFINE c == [k \in 1 .. bufLen(b) |-> b.mem[(b.servp + k - 1) % b.buflen]]
<1>1. Contents(b) = c
  BY NoRingIs DEF Contents
<1>2. bufLen(b) \in Nat /\ bufLen(b) < b.buflen /\ b.buflen \in Nat
  BY SizesOf DEF Ring
<1>3. ASSUME NEW k \in 1 .. bufLen(b)
      PROVE  c[k] = b.mem[Place(b, k)] /\ c[k] \in Int
  <2>1. k \in 1 .. b.buflen
    BY <1>2
  <2>2. Place(b, k) \in 0 .. b.buflen - 1 /\ (b.servp + k - 1) % b.buflen = Place(b, k)
    BY <2>1, PlaceIs
  <2>3. QED BY <2>2 DEF Ring
<1>4. c = [k \in 1 .. bufLen(b) |-> c[k]]
  OBVIOUS
<1> HIDE DEF c
<1>5. c \in Seq(Int) /\ Len(c) = bufLen(b)
  BY <1>2, <1>3, <1>4, ListIs
<1>6. QED BY <1>1, <1>3, <1>5

\* How to tell what a buffer contains.
LEMMA Contains ==
  ASSUME NEW b, Ring(b), NEW s \in Seq(Int), Len(s) = bufLen(b),
         \A k \in 1 .. bufLen(b) : s[k] = b.mem[Place(b, k)]
  PROVE  Contents(b) = s
<1>1. /\ Contents(b) \in Seq(Int) /\ Len(Contents(b)) = bufLen(b)
      /\ \A k \in 1 .. bufLen(b) : Contents(b)[k] = b.mem[Place(b, k)]
  BY ContentsAre
<1>2. \A k \in 1 .. Len(s) : s[k] = Contents(b)[k]
  BY <1>1
<1>3. QED BY <1>1, <1>2, SameSequence

----------------------------------------------------------------------------
(* Putting and getting. *)

\* Both ways to go round the end.
LEMMA Round ==
  ASSUME NEW b, Ring(b), NEW a \in 0 .. b.buflen
  PROVE  /\ AtWrap(b, a) = IF a < b.buflen THEN a ELSE 0
         /\ a % b.buflen = AtWrap(b, a)
         /\ AtWrap(b, a) \in 0 .. b.buflen - 1
<1>1. b.buflen \in Nat \ {0} /\ a \in Nat /\ a <= b.buflen
  BY DEF Ring
<1>2. AtWrap(b, a) = IF a < b.buflen THEN a ELSE 0
  BY <1>1 DEF AtWrap
<1>3. a % b.buflen = IF a < b.buflen THEN a ELSE a - b.buflen
  BY <1>1, Modulo
<1>4. QED BY <1>1, <1>2, <1>3

\* Buffers that differ outside their data.
LEMMA SameData ==
  ASSUME NEW b, NEW c, Ring(b), Ring(c), c.buflen = b.buflen, c.servp = b.servp,
         c.endp = b.endp,
         \A k \in 1 .. bufLen(b) : c.mem[Place(b, k)] = b.mem[Place(b, k)]
  PROVE  Contents(c) = Contents(b) /\ bufLen(c) = bufLen(b)
<1>1. bufLen(c) = bufLen(b)
  BY DEF bufLen
<1>2. /\ Contents(b) \in Seq(Int) /\ Len(Contents(b)) = bufLen(b)
      /\ \A k \in 1 .. bufLen(b) : Contents(b)[k] = b.mem[Place(b, k)]
  BY ContentsAre
<1>3. \A k \in 1 .. bufLen(c) : Contents(b)[k] = c.mem[Place(c, k)]
  BY <1>1, <1>2 DEF Place
<1>4. QED BY <1>1, <1>2, <1>3, Contains

LEMMA Copied ==
  ASSUME NEW b, Ring(b), NEW s \in Seq(Int), Len(s) <= bufRoom(b), NEW c,
         c = bufAdjustEnd(Copy(b, s), Len(s))
  PROVE  /\ Ring(c) /\ Contents(c) = Contents(b) \o s
         /\ bufLen(c) = bufLen(b) + Len(s)
         /\ c.buflen = b.buflen /\ c.maxsize = b.maxsize /\ c.increment = b.increment
<1> DEFINE n == b.buflen
           p == b.servp
           e == b.endp
           l == bufLen(b)
           m == Len(s)
           room == bufRoom(b)
<1>1. /\ n \in Nat \ {0} /\ p \in Nat /\ e \in Nat /\ p < n /\ e < n /\ m \in Nat
      /\ l \in Nat /\ l + m <= n - 1 /\ e + m <= n
      /\ e = IF p + l < n THEN p + l ELSE p + l - n
  <2>1. /\ n \in Nat \ {0} /\ p \in Nat /\ e \in Nat /\ p < n /\ e < n
        /\ l \in 0 .. n - 1 /\ room \in 0 .. n - 1 - l /\ room <= n - e
        /\ e = IF p + l < n THEN p + l ELSE p + l - n
    BY SizesOf
  <2>2. m \in Nat /\ m <= room
    OBVIOUS
  <2> HIDE DEF n, p, e, l, m, room
  <2>3. QED BY <2>1, <2>2
<1>2. b.mem \in [0 .. n - 1 -> Int]
  BY DEF Ring
<1>3. /\ c.buflen = n /\ c.servp = p
      /\ c.maxsize = b.maxsize /\ c.increment = b.increment
      /\ c.endp = (e + m) % n
      /\ c.mem = [o \in 0 .. n - 1 |-> IF o \in e .. e + m - 1 THEN s[o - e + 1] ELSE b.mem[o]]
      /\ c = [mem |-> c.mem, buflen |-> c.buflen, increment |-> c.increment,
              maxsize |-> c.maxsize, servp |-> c.servp, endp |-> c.endp]
  BY <1>2 DEF bufAdjustEnd, Copy, Ring
<1>4. c.endp = IF e + m < n THEN e + m ELSE 0
  <2>1. e + m \in 0 .. b.buflen
    BY <1>1
  <2>2. QED BY <1>3, <2>1, Round
<1>5. ASSUME NEW o \in 0 .. n - 1
      PROVE  c.mem[o] \in Int /\ c.mem[o] = IF o \in e .. e + m - 1 THEN s[o - e + 1] ELSE b.mem[o]
  <2>1. c.mem[o] = IF o \in e .. e + m - 1 THEN s[o - e + 1] ELSE b.mem[o]
    BY <1>3
  <2>2. o \in e .. e + m - 1 => o - e + 1 \in 1 .. Len(s)
    <3>1. e \in Nat /\ m \in Nat /\ m = Len(s)
      BY <1>1
    <3> HIDE DEF n, p, e, l, m
    <3>2. QED BY <3>1
  <2>3. o \in e .. e + m - 1 => s[o - e + 1] \in Int
    BY <2>2
  <2>4. b.mem[o] \in Int
    BY <1>2
  <2>5. QED BY <2>1, <2>3, <2>4
<1>6. Ring(c)
  <2>1. c.mem \in [0 .. n - 1 -> Int]
    <3>1. c.mem = [o \in 0 .. n - 1 |-> c.mem[o]]
      BY <1>3
    <3>2. QED BY <1>5, <3>1
  <2>2. c.endp \in 0 .. n - 1
    BY <1>1, <1>4
  <2>3. b.increment \in Nat \ {0} /\ b.maxsize \in Int /\ p \in 0 .. n - 1
    BY DEF Ring
  <2>4. QED BY <1>1, <1>3, <2>1, <2>2, <2>3 DEF Ring
<1>7. bufLen(c) = l + m
  <2>1. bufLen(c) = IF p > c.endp THEN n + c.endp - p ELSE c.endp - p
    BY <1>3 DEF bufLen
  <2> HIDE DEF n, p, e, l, m
  <2>2. QED BY <1>1, <1>4, <2>1
<1>8. /\ Contents(b) \in Seq(Int) /\ Len(Contents(b)) = l
      /\ \A k \in 1 .. l : Contents(b)[k] = b.mem[Place(b, k)]
  BY ContentsAre
<1> DEFINE j == Contents(b) \o s
<1>9. /\ j \in Seq(Int) /\ Len(j) = l + m
      /\ \A i \in 1 .. l : j[i] = Contents(b)[i]
      /\ \A i \in 1 .. m : j[l + i] = s[i]
  <2> DEFINE q == Contents(b)
  <2>1. q \in Seq(Int) /\ Len(q) = l /\ Len(s) = m
    BY <1>8
  <2> HIDE DEF q
  <2>2. /\ q \o s \in Seq(Int) /\ Len(q \o s) = Len(q) + Len(s)
        /\ \A i \in 1 .. Len(q) : (q \o s)[i] = q[i]
        /\ \A i \in 1 .. Len(s) : (q \o s)[Len(q) + i] = s[i]
    BY <2>1, JoinIs
  <2>3. j = q \o s
    BY DEF q
  <2> HIDE DEF j, l, m
  <2>4. QED BY <2>1, <2>2, <2>3 DEF q
<1> HIDE DEF j
<1>10. ASSUME NEW k \in 1 .. l + m PROVE j[k] = c.mem[Place(c, k)]
  <2>1. CASE k <= l
    <3>1. k \in 1 .. l /\ k \in 1 .. b.buflen
      BY <1>1, <2>1
    <3>2. Place(c, k) = Place(b, k) /\ Place(b, k) \in 0 .. n - 1
      BY <1>3, <3>1, PlaceIs DEF Place
    <3>3. Place(b, k) = IF p + k - 1 < n THEN p + k - 1 ELSE p + k - 1 - n
      BY DEF Place
    <3> DEFINE q == Place(b, k)
    <3> HIDE DEF n, p, e, l, m, q
    <3>4. ~(q \in e .. e + m - 1)
      BY <1>1, <3>1, <3>3 DEF q
    <3>5. c.mem[q] = b.mem[q]
      BY <1>5, <3>2, <3>4 DEF q
    <3>6. QED BY <1>8, <1>9, <3>1, <3>2, <3>5 DEF q
  <2>2. CASE k > l
    <3> DEFINE i == k - l
    <3>1. i \in 1 .. m /\ k = l + i
      BY <1>1, <2>2
    <3>2. Place(c, k) = IF p + k - 1 < n THEN p + k - 1 ELSE p + k - 1 - n
      BY <1>3 DEF Place
    <3> HIDE DEF n, p, e, l, m, i
    <3>3. Place(c, k) = e + i - 1
      BY <1>1, <3>1, <3>2
    <3>4. e + i - 1 \in e .. e + m - 1 /\ e + i - 1 \in 0 .. n - 1 /\ (e + i - 1) - e + 1 = i
      BY <1>1, <3>1
    <3>5. c.mem[e + i - 1] = s[i]
      BY <1>5, <3>4
    <3>6. QED BY <1>9, <3>1, <3>3, <3>5
  <2>3. QED BY <1>1, <2>1, <2>2
<1>11. Contents(c) = j
  BY <1>6, <1>7, <1>9, <1>10, Contains
<1>12. QED BY <1>3, <1>6, <1>7, <1>11 DEF j

\* m bytes in a straight line from servp.
Front(b, m) == [k \in 1 .. m |-> b.mem[b.servp + k - 1]]

LEMMA Drained ==
  ASSUME NEW b, Ring(b), NEW m \in 0 .. bufGetBlkMax(b), NEW c, c = bufAdjustStart(b, m)
  PROVE  /\ Ring(c) /\ Front(b, m) \in Seq(Int) /\ Len(Front(b, m)) = m
         /\ Contents(b) = Front(b, m) \o Contents(c)
         /\ bufLen(c) = bufLen(b) - m
         /\ c.buflen = b.buflen /\ c.servp = AtWrap(b, b.servp + m)
<1> DEFINE n == b.buflen
           p == b.servp
           e == b.endp
           l == bufLen(b)
           line == bufGetBlkMax(b)
<1>1. /\ n \in Nat \ {0} /\ p \in Nat /\ e \in Nat /\ p < n /\ e < n /\ m \in Nat
      /\ l \in Nat /\ l <= n - 1 /\ m <= l /\ p + m <= n
      /\ e = IF p + l < n THEN p + l ELSE p + l - n
  <2>1. /\ n \in Nat \ {0} /\ p \in Nat /\ e \in Nat /\ p < n /\ e < n
        /\ l \in 0 .. n - 1 /\ line \in 0 .. l /\ line <= n - p
        /\ e = IF p + l < n THEN p + l ELSE p + l - n
    BY SizesOf
  <2>2. m \in 0 .. line
    OBVIOUS
  <2> HIDE DEF n, p, e, l, line
  <2>3. QED BY <2>1, <2>2
<1>2. b.mem \in [0 .. n - 1 -> Int]
  BY DEF Ring
<1>3. /\ c.buflen = n /\ c.servp = (p + m) % n /\ c.endp = e /\ c.mem = b.mem
      /\ c.increment = b.increment /\ c.maxsize = b.maxsize
      /\ c = [mem |-> c.mem, buflen |-> c.buflen, increment |-> c.increment,
              maxsize |-> c.maxsize, servp |-> c.servp, endp |-> c.endp]
  BY DEF bufAdjustStart, Ring
<1>4. c.servp = AtWrap(b, p + m) /\ c.servp = IF p + m < n THEN p + m ELSE 0
  <2>1. p + m \in 0 .. b.buflen
    BY <1>1
  <2>2. QED BY <1>3, <2>1, Round
<1>5. Ring(c)
  <2>1. b.increment \in Nat \ {0} /\ b.maxsize \in Int
    BY DEF Ring
  <2>2. c.servp \in 0 .. n - 1 /\ c.endp \in 0 .. n - 1
    BY <1>1, <1>3, <1>4
  <2>3. QED BY <1>1, <1>2, <1>3, <2>1, <2>2 DEF Ring
<1>6. bufLen(c) = l - m
  <2>1. bufLen(c) = IF c.servp > e THEN n + e - c.servp ELSE e - c.servp
    BY <1>3 DEF bufLen
  <2> HIDE DEF n, p, e, l
  <2>2. QED BY <1>1, <1>4, <2>1
<1> DEFINE f == Front(b, m)
<1>7. ASSUME NEW k \in 1 .. m PROVE f[k] = b.mem[p + k - 1] /\ f[k] \in Int
  <2>1. f[k] = b.mem[p + k - 1]
    BY DEF Front
  <2>2. p + k - 1 \in 0 .. n - 1
    BY <1>1
  <2>3. QED BY <1>2, <2>1, <2>2
<1>8. f = [k \in 1 .. m |-> f[k]]
  BY DEF Front
<1> HIDE DEF f
<1>9. f \in Seq(Int) /\ Len(f) = m
  BY <1>1, <1>7, <1>8, ListIs
<1>10. /\ Contents(b) \in Seq(Int) /\ Len(Contents(b)) = l
       /\ \A k \in 1 .. l : Contents(b)[k] = b.mem[Place(b, k)]
  BY ContentsAre
<1>11. /\ Contents(c) \in Seq(Int) /\ Len(Contents(c)) = l - m
       /\ \A k \in 1 .. l - m : Contents(c)[k] = c.mem[Place(c, k)]
  BY <1>5, <1>6, ContentsAre
<1> DEFINE j == f \o Contents(c)
<1>12. /\ j \in Seq(Int) /\ Len(j) = m + (l - m)
       /\ \A i \in 1 .. m : j[i] = f[i]
       /\ \A i \in 1 .. l - m : j[m + i] = Contents(c)[i]
  <2> DEFINE q == Contents(c)
  <2>1. f \in Seq(Int) /\ q \in Seq(Int) /\ Len(f) = m /\ Len(q) = l - m
    BY <1>9, <1>11
  <2> HIDE DEF q
  <2>2. /\ f \o q \in Seq(Int) /\ Len(f \o q) = Len(f) + Len(q)
        /\ \A i \in 1 .. Len(f) : (f \o q)[i] = f[i]
        /\ \A i \in 1 .. Len(q) : (f \o q)[Len(f) + i] = q[i]
    BY <2>1, JoinIs
  <2>3. j = f \o q
    BY DEF q
  <2> HIDE DEF j, l
  <2>4. QED BY <2>1, <2>2, <2>3 DEF q
<1> HIDE DEF j
<1>13. ASSUME NEW k \in 1 .. l PROVE j[k] = b.mem[Place(b, k)]
  <2>1. Place(b, k) = IF p + k - 1 < n THEN p + k - 1 ELSE p + k - 1 - n
    BY DEF Place
  <2>2. CASE k <= m
    <3>1. k \in 1 .. m
      BY <1>1, <2>2
    <3> HIDE DEF n, p, e, l
    <3>2. Place(b, k) = p + k - 1
      BY <1>1, <2>1, <3>1
    <3>3. QED BY <1>7, <1>12, <3>1, <3>2
  <2>3. CASE k > m
    <3> DEFINE i == k - m
    <3>1. i \in 1 .. l - m /\ k = m + i
      BY <1>1, <2>3
    <3>2. Place(c, i) = IF c.servp + i - 1 < n THEN c.servp + i - 1 ELSE c.servp + i - 1 - n
      BY <1>3 DEF Place
    <3> HIDE DEF n, p, e, l, i
    <3>3. Place(c, i) = Place(b, k)
      BY <1>1, <1>4, <2>1, <3>1, <3>2
    <3>4. QED BY <1>3, <1>11, <1>12, <3>1, <3>3
  <2>4. QED BY <1>1, <2>2, <2>3
<1>14. Len(j) = l
  BY <1>1, <1>12
<1>15. Contents(b) = j
  BY <1>12, <1>13, <1>14, Contains
<1>16. QED BY <1>3, <1>4, <1>5, <1>6, <1>9, <1>15 DEF f, j

----------------------------------------------------------------------------
(* Blocks, and the memory that a buffer grows into. *)

LEMMA Least ==
  ASSUME NEW T \in SUBSET Nat, T # {}
  PROVE  \E x \in T : \A y \in T : x <= y
<1>1. PICK x \in T : \A y \in T : ~(<<y, x>> \in OpToRel(<, Nat))
  BY NatLessThanWellFounded, WFMin
<1>2. \A y \in T : ~(y < x)
  BY <1>1, Zenon DEF OpToRel
<1>3. QED BY <1>2

\* What getBinBlockSize doubles: the function exists, and has no other values.
Doubling(f, m, block) ==
  f = [n \in 0 .. m |-> IF n = 0 THEN block ELSE 2 * f[n \div 2]]

LEMMA DoublingExists ==
  ASSUME NEW block, NEW m \in Nat
  PROVE  \E f : Doubling(f, m, block)
<1> DEFINE T == {n \in Nat : ~ \E f : Doubling(f, n, block)}
<1> SUFFICES ASSUME T # {} PROVE FALSE
  OBVIOUS
<1>1. PICK n \in T : \A y \in T : n <= y
  BY Least
<1>2. CASE n = 0
  <2>1. Doubling([k \in 0 .. 0 |-> block], 0, block)
    BY DEF Doubling
  <2>2. QED BY <1>2, <2>1
<1>3. CASE n # 0
  <2>1. n \in Nat /\ n - 1 \in Nat /\ n - 1 \notin T
    BY <1>1, <1>3
  <2>2. PICK f : Doubling(f, n - 1, block)
    BY <2>1
  <2> DEFINE g == [k \in 0 .. n |-> IF k = n THEN 2 * f[n \div 2] ELSE f[k]]
  <2>3. ASSUME NEW k \in 0 .. n PROVE g[k] = IF k = 0 THEN block ELSE 2 * g[k \div 2]
    <3>1. k # 0 => k \div 2 \in 0 .. n - 1 /\ k \div 2 # n
      BY <2>1
    <3>2. k # n => f[k] = IF k = 0 THEN block ELSE 2 * f[k \div 2]
      <4>1. k # n => k \in 0 .. n - 1
        BY <2>1
      <4>2. QED BY <2>2, <4>1 DEF Doubling
    <3>3. k # 0 => g[k \div 2] = f[k \div 2]
      BY <2>1, <3>1
    <3>4. QED BY <1>3, <3>1, <3>2, <3>3
  <2>4. Doubling(g, n, block)
    <3>1. g = [k \in 0 .. n |-> g[k]]
      OBVIOUS
    <3> HIDE DEF g
    <3>2. QED BY <2>3, <3>1 DEF Doubling
  <2>5. QED BY <2>4
<1>4. QED BY <1>2, <1>3

LEMMA Stretched ==
  ASSUME NEW n \in Nat, NEW m \in Nat, NEW a \in Nat, n <= m
  PROVE  a * n <= a * m
OBVIOUS

LEMMA DoublingPositive ==
  ASSUME NEW block \in Nat \ {0}, NEW m \in Nat, NEW f, Doubling(f, m, block),
         NEW k \in 0 .. m
  PROVE  f[k] \in Nat \ {0}
<1> DEFINE T == {n \in 0 .. m : f[n] \notin Nat \ {0}}
<1> SUFFICES ASSUME T # {} PROVE FALSE
  OBVIOUS
<1>1. T \in SUBSET Nat
  OBVIOUS
<1>2. PICK n \in T : \A y \in T : n <= y
  <2> HIDE DEF T
  <2>1. QED BY <1>1, Least
<1>3. n \in 0 .. m /\ f[n] = IF n = 0 THEN block ELSE 2 * f[n \div 2]
  BY DEF Doubling
<1>4. n # 0 => n \div 2 \in 0 .. m /\ n \div 2 < n
  BY <1>3
<1>5. n # 0 => n \div 2 \notin T
  BY <1>2, <1>3, <1>4
<1>6. n # 0 => f[n \div 2] \in Nat \ {0}
  BY <1>4, <1>5
<1>7. f[n] \in Nat \ {0}
  BY <1>3, <1>6
<1>8. QED BY <1>7

LEMMA DoublingGrows ==
  ASSUME NEW block \in Nat \ {0}, NEW m \in Nat, NEW f, Doubling(f, m, block),
         NEW k \in 0 .. m
  PROVE  f[k] >= block * k + block
<1> DEFINE T == {n \in 0 .. m : ~ f[n] >= block * n + block}
<1> SUFFICES ASSUME T # {} PROVE FALSE
  OBVIOUS
<1>1. T \in SUBSET Nat
  OBVIOUS
<1>2. PICK n \in T : \A y \in T : n <= y
  <2> HIDE DEF T
  <2>1. QED BY <1>1, Least
<1>3. n \in 0 .. m /\ f[n] = IF n = 0 THEN block ELSE 2 * f[n \div 2]
  BY DEF Doubling
<1>4. CASE n = 0
  <2>1. f[n] >= block * n + block
    BY <1>3, <1>4
  <2>2. QED BY <2>1
<1>5. CASE n # 0
  <2> DEFINE h == n \div 2
  <2>1. h \in 0 .. m /\ h < n /\ h \in Nat /\ n <= 2 * h + 1
    BY <1>3, <1>5
  <2>2. h \notin T
    BY <1>2, <1>3, <2>1
  <2>3. f[h] >= block * h + block /\ f[h] \in Nat
    BY <2>1, <2>2, DoublingPositive
  <2>4. f[n] = 2 * f[h]
    BY <1>3, <1>5
  <2> HIDE DEF h
  <2>5. block * n <= block * (2 * h + 1)
    BY <1>3, <2>1, Stretched
  <2>6. block * (2 * h + 1) = 2 * (block * h) + block
    BY <2>1
  <2>7. block * h \in Nat /\ block * n \in Nat
    BY <1>3, <2>1
  <2>8. f[n] >= block * n + block
    BY <2>3, <2>4, <2>5, <2>6, <2>7
  <2>9. QED BY <2>8
<1>6. QED BY <1>4, <1>5

LEMMA BlockSize ==
  ASSUME RingAssumption, NEW size \in Nat
  PROVE  getBinBlockSize(size) \in Nat \ {0} /\ getBinBlockSize(size) >= size
<1> DEFINE block == 2 ^ WEBS_SHIFT
           blocks == size \div block
<1>1. block \in Nat \ {0} /\ blocks \in Nat
  BY DEF RingAssumption
<1> DEFINE d == CHOOSE f : Doubling(f, blocks, block)
<1>2. getBinBlockSize(size) = d[blocks]
  BY DEF getBinBlockSize, Doubling
<1> HIDE DEF block, blocks
<1>3. Doubling(d, blocks, block)
  BY <1>1, DoublingExists
<1>4. blocks \in 0 .. blocks
  BY <1>1
<1> HIDE DEF d
<1>5. d[blocks] \in Nat \ {0} /\ d[blocks] >= block * blocks + block
  BY <1>1, <1>3, <1>4, DoublingPositive, DoublingGrows
<1>6. size < block * blocks + block
  <2>1. size < block * (size \div block) + block
    BY <1>1
  <2>2. QED BY <2>1 DEF blocks
<1>7. block * blocks \in Nat
  BY <1>1
<1> DEFINE product == block * blocks
           last == d[blocks]
<1>8. /\ last \in Nat \ {0} /\ last >= product + block /\ size < product + block
      /\ product \in Nat /\ block \in Nat
  BY <1>1, <1>5, <1>6, <1>7
<1> HIDE DEF product, last
<1>9. last >= size
  BY <1>8
<1>10. QED BY <1>2, <1>8, <1>9 DEF last

LEMMA MemoryIs ==
  ASSUME NEW n \in Nat, NEW s \in Seq(Int)
  PROVE  /\ Memory(n, s) \in [0 .. n - 1 -> Int]
         /\ \A o \in 0 .. n - 1 : o < Len(s) => Memory(n, s)[o] = s[o + 1]
<1>1. Len(s) \in Nat /\ Junk \in Int
  BY DEF Junk
<1>2. ASSUME NEW o \in 0 .. n - 1, o < Len(s) PROVE s[o + 1] \in Int
  <2>1. o + 1 \in 1 .. Len(s)
    BY <1>1, <1>2
  <2>2. QED BY <2>1
<1>3. QED BY <1>1, <1>2 DEF Memory

LEMMA Empty ==
  ASSUME NEW b, Ring(b), b.servp = b.endp
  PROVE  Contents(b) = << >> /\ bufLen(b) = 0
<1>1. bufLen(b) = 0
  BY DEF bufLen, Ring
<1>2. Contents(b) \in Seq(Int) /\ Len(Contents(b)) = 0
  BY <1>1, ContentsAre
<1>3. QED BY <1>1, <1>2

LEMMA Created ==
  ASSUME RingAssumption, NEW n \in Int, NEW max \in Int
  PROVE  Ring(bufCreate(n, max)) /\ Contents(bufCreate(n, max)) = << >>
<1> DEFINE b == bufCreate(n, max)
           size == IF n <= 0 THEN LIMIT_BUFFER ELSE n
           increment == getBinBlockSize(size)
           memory == Memory(increment, <<Nul>>)
<1>1. size \in Nat
  BY DEF RingAssumption
<1>2. increment \in Nat \ {0}
  <2> HIDE DEF size
  <2>1. QED BY <1>1, BlockSize
<1>3. memory \in [0 .. increment - 1 -> Int]
  <2>1. <<Nul>> \in Seq(Int)
    BY DEF Nul
  <2> HIDE DEF increment
  <2>2. QED BY <1>2, <2>1, MemoryIs
<1>4. b = [mem |-> memory, buflen |-> increment, increment |-> increment,
           maxsize |-> IF max <= 0 THEN size ELSE max, servp |-> 0, endp |-> 0]
  BY DEF bufCreate
<1> HIDE DEF b, size, increment, memory
<1>5. Ring(b) /\ b.servp = b.endp
  BY <1>1, <1>2, <1>3, <1>4 DEF Ring
<1>6. QED BY <1>5, Empty DEF b

\* A buffer that was moved to the front of its memory, or of more of it.
LEMMA Moved ==
  ASSUME NEW b, Ring(b), NEW c, Ring(c), c.servp = 0, c.endp = bufLen(b),
         \A k \in 1 .. bufLen(b) : c.mem[k - 1] = Contents(b)[k]
  PROVE  Contents(c) = Contents(b) /\ bufLen(c) = bufLen(b)
<1>1. /\ Contents(b) \in Seq(Int) /\ Len(Contents(b)) = bufLen(b)
      /\ bufLen(b) \in Nat /\ bufLen(b) < c.buflen /\ c.buflen \in Nat
  <2>1. c.buflen \in Nat /\ bufLen(b) \in 0 .. c.buflen - 1
    BY DEF Ring
  <2>2. QED BY <2>1, ContentsAre
<1>2. bufLen(c) = bufLen(b)
  BY <1>1 DEF bufLen
<1>3. ASSUME NEW k \in 1 .. bufLen(c) PROVE Contents(b)[k] = c.mem[Place(c, k)]
  <2>1. Place(c, k) = k - 1
    BY <1>1, <1>2 DEF Place
  <2>2. QED BY <1>2, <2>1
<1>4. QED BY <1>1, <1>2, <1>3, Contains

LEMMA Increments ==
  ASSUME RingAssumption, NEW b, Ring(b), NEW room \in Nat
  PROVE  /\ NextIncrement(b, room) \in Nat \ {0} /\ Increase(b, room) \in Nat \ {0}
         /\ NextIncrement(b, room) >= b.increment
<1>1. b.increment \in Nat \ {0} /\ MemoryMax \in Nat
  BY DEF Ring, RingAssumption
<1>2. 2 * b.increment \in Nat
  BY <1>1
<1>3. /\ getBinBlockSize(2 * b.increment) \in Nat \ {0}
      /\ getBinBlockSize(2 * b.increment) >= b.increment
  BY <1>1, <1>2, BlockSize
<1>4. QED BY <1>1, <1>3 DEF NextIncrement, Increase

\* A buffer that grows keeps its data, and has room then; one that cannot grow
\* cannot grow the next time.
LEMMA Grown ==
  ASSUME RingAssumption, NEW b, Ring(b), NEW room \in Nat, NEW c, c = bufGrow(b, room)
  PROVE  /\ Ring(c) /\ Contents(c) = Contents(b) /\ bufLen(c) = bufLen(b)
         /\ \/ c.servp = b.servp /\ c.endp = b.endp
            \/ c.servp = 0 /\ c.endp = bufLen(b)
         /\ CanGrow(b, room) => bufRoom(c) > 0
         /\ ~ CanGrow(b, room) => /\ c.buflen = b.buflen
                                  /\ ~ CanGrow(b, 0) => ~ CanGrow(c, 0)
<1> DEFINE next == NextIncrement(b, room)
           more == Increase(b, room)
<1>1. next \in Nat \ {0} /\ more \in Nat \ {0} /\ next >= b.increment
  BY Increments
<1>2. /\ b.buflen \in Nat \ {0} /\ b.increment \in Nat \ {0} /\ b.maxsize \in Int
      /\ MemoryMax \in Nat
  BY DEF Ring, RingAssumption
<1>3. CASE ~ CanGrow(b, room)
  <2>1. /\ c.buflen = b.buflen /\ c.increment = next /\ c.servp = b.servp /\ c.endp = b.endp
        /\ c.mem = b.mem /\ c.maxsize = b.maxsize
        /\ c = [mem |-> c.mem, buflen |-> c.buflen, increment |-> c.increment,
                maxsize |-> c.maxsize, servp |-> c.servp, endp |-> c.endp]
    BY <1>3 DEF bufGrow, Ring
  <2> HIDE DEF next, more
  <2>2. Ring(c)
    BY <1>1, <2>1 DEF Ring
  <2>3. Contents(c) = Contents(b) /\ bufLen(c) = bufLen(b)
    BY <2>1, <2>2, SameData
  <2>4. ~ CanGrow(b, 0) => ~ CanGrow(c, 0)
    BY <1>1, <1>2, <2>1 DEF CanGrow, MayGrow, Increase
  <2>5. QED BY <1>3, <2>1, <2>2, <2>3, <2>4
<1>4. CASE CanGrow(b, room)
  <2> DEFINE n == b.buflen + more
             memory == Memory(n, Contents(b))
  <2>1. /\ c.buflen = n /\ c.increment = next /\ c.servp = 0 /\ c.endp = bufLen(b)
        /\ c.mem = memory /\ c.maxsize = b.maxsize
        /\ c = [mem |-> c.mem, buflen |-> c.buflen, increment |-> c.increment,
                maxsize |-> c.maxsize, servp |-> c.servp, endp |-> c.endp]
    BY <1>4 DEF bufGrow, Ring
  <2>2. n \in Nat \ {0} /\ b.buflen < n
    BY <1>1, <1>2
  <2>3. /\ Contents(b) \in Seq(Int) /\ Len(Contents(b)) = bufLen(b)
        /\ bufLen(b) \in 0 .. b.buflen - 1
    BY ContentsAre, SizesOf
  <2> HIDE DEF n, next, more
  <2>4. /\ memory \in [0 .. n - 1 -> Int]
        /\ \A o \in 0 .. n - 1 : o < Len(Contents(b)) => memory[o] = Contents(b)[o + 1]
    BY <2>2, <2>3, MemoryIs
  <2> HIDE DEF memory
  <2>5. c.endp \in 0 .. n - 1
    BY <1>2, <2>1, <2>2, <2>3
  <2>6. Ring(c)
    BY <1>1, <1>2, <2>1, <2>2, <2>4, <2>5 DEF Ring
  <2>7. ASSUME NEW k \in 1 .. bufLen(b) PROVE c.mem[k - 1] = Contents(b)[k]
    <3>1. k - 1 \in 0 .. n - 1 /\ k - 1 < Len(Contents(b)) /\ (k - 1) + 1 = k
      BY <1>2, <2>2, <2>3
    <3>2. QED BY <2>1, <2>4, <3>1
  <2>8. Contents(c) = Contents(b) /\ bufLen(c) = bufLen(b)
    BY <2>1, <2>6, <2>7, Moved
  <2>9. bufRoom(c) > 0
    <3>1. bufRoom(c) \in Nat /\ (bufRoom(c) = 0 <=> bufLen(c) = c.buflen - 1)
      BY <2>6, SizesOf
    <3>2. bufLen(b) # n - 1
      BY <1>2, <2>2, <2>3
    <3>3. QED BY <2>1, <2>8, <3>1, <3>2
  <2>10. QED BY <1>4, <2>1, <2>6, <2>8, <2>9
<1>5. QED BY <1>3, <1>4

\* A call that needs room has it, or the buffer is full and cannot grow.
LEMMA RoomyIs ==
  ASSUME RingAssumption, NEW b, Ring(b), NEW c, c = Roomy(b)
  PROVE  /\ Ring(c) /\ Contents(c) = Contents(b) /\ bufRoom(c) \in Nat
         /\ bufRoom(c) = 0 => bufLen(c) = c.buflen - 1 /\ ~ CanGrow(c, 0)
<1>1. CASE bufRoom(b) < 1
  <2>1. c = bufGrow(b, 0)
    BY <1>1 DEF Roomy
  <2>2. /\ Ring(c) /\ Contents(c) = Contents(b)
        /\ CanGrow(b, 0) => bufRoom(c) > 0
        /\ ~ CanGrow(b, 0) => ~ CanGrow(c, 0)
    BY <2>1, Grown
  <2>3. bufRoom(c) \in Nat /\ (bufRoom(c) = 0 <=> bufLen(c) = c.buflen - 1)
    BY <2>2, SizesOf
  <2>4. QED BY <2>2, <2>3
<1>2. CASE ~ bufRoom(b) < 1
  <2>1. c = b
    BY <1>2 DEF Roomy
  <2>2. bufRoom(b) \in Nat
    BY SizesOf
  <2>3. QED BY <1>2, <2>1, <2>2
<1>3. QED BY <1>1, <1>2

----------------------------------------------------------------------------
(* One byte at either end. *)

LEMMA Put1 ==
  ASSUME NEW b, Ring(b), bufRoom(b) > 0, NEW x \in Int, NEW c, c = bufPutc(b, x)
  PROVE  Ring(c) /\ Contents(c) = Contents(b) \o <<x>>
<1> DEFINE s == <<x>>
<1>1. s \in Seq(Int) /\ Len(s) = 1 /\ s[1] = x
  OBVIOUS
<1> HIDE DEF s
<1> DEFINE d == bufAdjustEnd(Copy(b, s), Len(s))
<1>2. /\ b.mem \in [0 .. b.buflen - 1 -> Int] /\ b.endp \in 0 .. b.buflen - 1
      /\ b.buflen \in Nat
      /\ b = [mem |-> b.mem, buflen |-> b.buflen, increment |-> b.increment,
              maxsize |-> b.maxsize, servp |-> b.servp, endp |-> b.endp]
  BY DEF Ring
<1>3. (b.endp + 1) % b.buflen = AtWrap(b, b.endp + 1)
  <2>1. b.endp + 1 \in 0 .. b.buflen
    BY <1>2
  <2>2. QED BY <2>1, Round
<1> DEFINE m == [o \in 0 .. b.buflen - 1 |->
                   IF o \in b.endp .. b.endp + Len(s) - 1 THEN s[o - b.endp + 1] ELSE b.mem[o]]
<1>4. m = [b.mem EXCEPT ![b.endp] = x]
  <2>1. ASSUME NEW o \in 0 .. b.buflen - 1 PROVE m[o] = [b.mem EXCEPT ![b.endp] = x][o]
    <3>1. CASE o = b.endp
      <4>1. o \in b.endp .. b.endp + Len(s) - 1 /\ o - b.endp + 1 = 1
        BY <1>1, <1>2, <3>1
      <4>2. QED BY <1>1, <1>2, <3>1, <4>1
    <3>2. CASE o # b.endp
      <4>1. ~(o \in b.endp .. b.endp + Len(s) - 1)
        BY <1>1, <1>2, <3>2
      <4>2. QED BY <1>2, <3>2, <4>1
    <3>3. QED BY <3>1, <3>2
  <2>2. [b.mem EXCEPT ![b.endp] = x] \in [0 .. b.buflen - 1 -> Int]
    BY <1>2
  <2>3. m = [o \in 0 .. b.buflen - 1 |-> m[o]]
    OBVIOUS
  <2> HIDE DEF m
  <2>4. QED BY <2>1, <2>2, <2>3
<1>5. d = [mem |-> m, buflen |-> b.buflen, increment |-> b.increment,
           maxsize |-> b.maxsize, servp |-> b.servp, endp |-> (b.endp + 1) % b.buflen]
  <2> DEFINE a == Copy(b, s)
  <2>1. DOMAIN b.mem = 0 .. b.buflen - 1
    BY <1>2
  <2> DEFINE f == [o \in DOMAIN b.mem |->
                     IF o \in b.endp .. b.endp + Len(s) - 1 THEN s[o - b.endp + 1] ELSE b.mem[o]]
  <2>2. a = [b EXCEPT !.mem = f]
    BY DEF Copy
  <2>3. f = m
    BY <2>1
  <2> HIDE DEF a, f, m
  <2>4. a = [mem |-> m, buflen |-> b.buflen, increment |-> b.increment,
             maxsize |-> b.maxsize, servp |-> b.servp, endp |-> b.endp]
    BY <1>2, <2>2, <2>3
  <2>5. d = [a EXCEPT !.endp = (@ + 1) % a.buflen]
    BY <1>1 DEF bufAdjustEnd, a
  <2> HIDE DEF d
  <2>6. QED BY <2>4, <2>5
<1>6. c = [mem |-> [b.mem EXCEPT ![b.endp] = x], buflen |-> b.buflen,
           increment |-> b.increment, maxsize |-> b.maxsize, servp |-> b.servp,
           endp |-> AtWrap(b, b.endp + 1)]
  BY <1>2 DEF bufPutc
<1> HIDE DEF m
<1>7. c = d
  BY <1>3, <1>4, <1>5, <1>6
<1>8. Len(s) <= bufRoom(b)
  <2>1. bufRoom(b) \in Nat
    BY SizesOf
  <2>2. QED BY <1>1, <2>1
<1>9. Ring(c) /\ Contents(c) = Contents(b) \o s
  <2>1. s \in Seq(Int) /\ Len(s) <= bufRoom(b) /\ c = bufAdjustEnd(Copy(b, s), Len(s))
    BY <1>1, <1>7, <1>8
  <2>2. QED BY <2>1, Copied
<1>10. QED BY <1>9 DEF s

LEMMA Inserted ==
  ASSUME NEW b, Ring(b), bufRoom(b) > 0, NEW x \in Int, NEW c, c = bufInsertc(b, x)
  PROVE  Ring(c) /\ Contents(c) = <<x>> \o Contents(b)
<1> DEFINE n == b.buflen
           p == b.servp
           e == b.endp
           l == bufLen(b)
           q == (IF p <= 0 THEN n ELSE p) - 1
<1>1. /\ n \in Nat \ {0} /\ p \in Nat /\ e \in Nat /\ p < n /\ e < n
      /\ l \in Nat /\ l + 1 <= n - 1
      /\ e = IF p + l < n THEN p + l ELSE p + l - n
  <2>1. bufRoom(b) \in 0 .. n - 1 - l /\ l \in 0 .. n - 1 /\ n \in Nat
    BY SizesOf
  <2> DEFINE room == bufRoom(b)
  <2>2. room > 0
    OBVIOUS
  <2>3. /\ n \in Nat \ {0} /\ p \in Nat /\ e \in Nat /\ p < n /\ e < n
        /\ e = IF p + l < n THEN p + l ELSE p + l - n
    BY SizesOf
  <2> HIDE DEF n, p, e, l, room
  <2>4. l \in Nat /\ l + 1 <= n - 1
    BY <2>1, <2>2 DEF room
  <2>5. QED BY <2>3, <2>4
<1>2. q \in 0 .. n - 1 /\ (p = 0 => q = n - 1) /\ (p # 0 => q = p - 1)
  <2>1. n \in Nat \ {0} /\ p \in Nat /\ p < n
    BY <1>1
  <2> HIDE DEF n, p
  <2>2. QED BY <2>1
<1>3. b.mem \in [0 .. n - 1 -> Int]
  BY DEF Ring
<1>4. /\ c.buflen = n /\ c.servp = q /\ c.endp = e
      /\ c.mem = [b.mem EXCEPT ![q] = x]
      /\ c.increment = b.increment /\ c.maxsize = b.maxsize
      /\ c = [mem |-> c.mem, buflen |-> c.buflen, increment |-> c.increment,
              maxsize |-> c.maxsize, servp |-> c.servp, endp |-> c.endp]
  BY DEF bufInsertc, Ring
<1> HIDE DEF q
<1>5. Ring(c)
  <2>1. b.increment \in Nat \ {0} /\ b.maxsize \in Int /\ e \in 0 .. n - 1
    BY DEF Ring
  <2>2. c.mem \in [0 .. n - 1 -> Int]
    BY <1>2, <1>3, <1>4
  <2>3. QED BY <1>1, <1>2, <1>4, <2>1, <2>2 DEF Ring
<1>6. bufLen(c) = l + 1
  <2>1. bufLen(c) = IF q > e THEN n + e - q ELSE e - q
    BY <1>4 DEF bufLen
  <2> HIDE DEF n, p, e, l
  <2>2. QED BY <1>1, <1>2, <2>1
<1> DEFINE s == Contents(b)
           t == <<x>>
           j == t \o s
<1>7. /\ s \in Seq(Int) /\ Len(s) = l
      /\ \A k \in 1 .. l : s[k] = b.mem[Place(b, k)]
  BY ContentsAre
<1>8. t \in Seq(Int) /\ Len(t) = 1 /\ t[1] = x
  OBVIOUS
<1> HIDE DEF s, t
<1>9. /\ j \in Seq(Int) /\ Len(j) = Len(t) + Len(s)
      /\ \A i \in 1 .. Len(t) : j[i] = t[i]
      /\ \A i \in 1 .. Len(s) : j[Len(t) + i] = s[i]
  BY <1>7, <1>8, JoinIs
<1> HIDE DEF j
<1>10. ASSUME NEW k \in 1 .. l + 1 PROVE j[k] = c.mem[Place(c, k)]
  <2>1. Place(c, k) = IF q + k - 1 < n THEN q + k - 1 ELSE q + k - 1 - n
    BY <1>4 DEF Place
  <2>2. CASE k = 1
    <3>1. Place(c, k) = q
      BY <1>1, <1>2, <2>1, <2>2
    <3>2. c.mem[q] = x
      BY <1>2, <1>3, <1>4
    <3>3. 1 \in 1 .. Len(t)
      BY <1>8
    <3>4. QED BY <1>8, <1>9, <2>2, <3>1, <3>2, <3>3
  <2>3. CASE k # 1
    <3> DEFINE i == k - 1
    <3>1. i \in 1 .. l /\ k = 1 + i
      BY <1>1, <2>3
    <3>2. Place(b, i) = IF p + i - 1 < n THEN p + i - 1 ELSE p + i - 1 - n
      BY DEF Place
    <3> HIDE DEF n, p, e, l, i
    <3>3. Place(c, k) = Place(b, i) /\ Place(b, i) # q /\ Place(b, i) \in 0 .. n - 1
      BY <1>1, <1>2, <2>1, <3>1, <3>2
    <3>4. c.mem[Place(b, i)] = b.mem[Place(b, i)]
      BY <1>2, <1>3, <1>4, <3>3
    <3>5. j[1 + i] = s[i]
      BY <1>7, <1>8, <1>9, <3>1
    <3>6. QED BY <1>7, <3>1, <3>3, <3>4, <3>5
  <2>4. QED BY <2>2, <2>3
<1>11. Len(j) = l + 1
  BY <1>1, <1>7, <1>8, <1>9
<1>12. Contents(c) = j
  BY <1>5, <1>6, <1>9, <1>10, <1>11, Contains
<1>13. QED BY <1>5, <1>12 DEF j, s, t

----------------------------------------------------------------------------
(* The loops that put and get blocks. *)

Putting(f, m, b, s) ==
  f = [n \in 0 .. m |-> IF n = 0 THEN [b |-> b, added |-> 0, full |-> FALSE]
                        ELSE PutRound(f[n - 1], s)]
Getting(f, m, b, size) ==
  f = [n \in 0 .. m |-> IF n = 0 THEN [b |-> b, got |-> << >>] ELSE GetRound(f[n - 1], size)]

LEMMA PuttingExists ==
  ASSUME NEW b, NEW s, NEW m \in Nat
  PROVE  \E f : Putting(f, m, b, s)
<1> DEFINE T == {n \in Nat : ~ \E f : Putting(f, n, b, s)}
           first == [b |-> b, added |-> 0, full |-> FALSE]
<1> SUFFICES ASSUME T # {} PROVE FALSE
  OBVIOUS
<1>1. PICK n \in T : \A y \in T : n <= y
  BY Least
<1>2. CASE n = 0
  <2>1. Putting([k \in 0 .. 0 |-> first], 0, b, s)
    BY DEF Putting
  <2>2. QED BY <1>2, <2>1
<1>3. CASE n # 0
  <2>1. n \in Nat /\ n - 1 \in Nat /\ n - 1 \notin T
    BY <1>1, <1>3
  <2>2. PICK f : Putting(f, n - 1, b, s)
    BY <2>1
  <2> DEFINE g == [k \in 0 .. n |-> IF k = n THEN PutRound(f[n - 1], s) ELSE f[k]]
  <2>3. ASSUME NEW k \in 0 .. n PROVE g[k] = IF k = 0 THEN first ELSE PutRound(g[k - 1], s)
    <3>1. k # 0 => k - 1 \in 0 .. n - 1 /\ k - 1 # n
      BY <2>1
    <3>2. k # n => f[k] = IF k = 0 THEN first ELSE PutRound(f[k - 1], s)
      <4>1. k # n => k \in 0 .. n - 1
        BY <2>1
      <4>2. QED BY <2>2, <4>1 DEF Putting
    <3>3. k # 0 => g[k - 1] = f[k - 1]
      BY <2>1, <3>1
    <3>4. QED BY <1>3, <3>1, <3>2, <3>3
  <2>4. Putting(g, n, b, s)
    <3>1. g = [k \in 0 .. n |-> g[k]]
      OBVIOUS
    <3> HIDE DEF g
    <3>2. QED BY <2>3, <3>1 DEF Putting
  <2>5. QED BY <2>4
<1>4. QED BY <1>2, <1>3

\* The two rounds of bufGetBlk.
LEMMA GettingIs ==
  ASSUME NEW b, NEW size
  PROVE  bufGetBlk(b, size) = GetRound(GetRound([b |-> b, got |-> << >>], size), size)
<1> DEFINE x == [b |-> b, got |-> << >>]
           y == GetRound(x, size)
           z == GetRound(y, size)
           f == [n \in 0 .. 2 |-> IF n = 0 THEN x ELSE IF n = 1 THEN y ELSE z]
           d == CHOOSE g : Getting(g, 2, b, size)
<1>1. bufGetBlk(b, size) = d[2]
  BY DEF bufGetBlk, Getting
<1>2. Getting(f, 2, b, size)
  <2>1. ASSUME NEW n \in 0 .. 2 PROVE f[n] = IF n = 0 THEN x ELSE GetRound(f[n - 1], size)
    <3>1. CASE n = 0
      BY <3>1
    <3>2. CASE n = 1
      BY <3>2
    <3>3. CASE n = 2
      BY <3>3
    <3>4. QED BY <3>1, <3>2, <3>3
  <2>2. f = [n \in 0 .. 2 |-> f[n]]
    OBVIOUS
  <2> HIDE DEF f
  <2>3. QED BY <2>1, <2>2 DEF Getting
<1>3. Getting(d, 2, b, size)
  BY <1>2
<1> HIDE DEF d
<1>4. d[0] = x /\ d[1] = GetRound(d[0], size) /\ d[2] = GetRound(d[1], size)
  BY <1>3 DEF Getting
<1>5. QED BY <1>1, <1>4

\* What a loop of bufPutBlk has done after n rounds.
PutSoFar(p, n, b, s) ==
  /\ Ring(p.b) /\ p.added \in 0 .. Len(s) /\ p.full \in BOOLEAN
  /\ Contents(p.b) = Contents(b) \o SubSeq(s, 1, p.added)
  /\ IF p.full THEN bufLen(p.b) = p.b.buflen - 1 /\ ~ CanGrow(p.b, 0)
     ELSE p.added = Len(s) \/ p.added >= n

LEMMA Regroup ==
  ASSUME NEW s \in Seq(Int), NEW t \in Seq(Int), NEW u \in Seq(Int)
  PROVE  (s \o t) \o u = s \o (t \o u)
OBVIOUS

LEMMA PieceIs ==
  ASSUME NEW s \in Seq(Int), NEW a \in Nat, NEW m \in Nat, a + m <= Len(s)
  PROVE  /\ SubSeq(s, a + 1, a + m) \in Seq(Int) /\ Len(SubSeq(s, a + 1, a + m)) = m
         /\ \A i \in 1 .. m : SubSeq(s, a + 1, a + m)[i] = s[a + i]
<1>1. Len(s) \in Nat
  OBVIOUS
<1>2. SubSeq(s, a + 1, a + m) \in Seq(Int) /\ Len(SubSeq(s, a + 1, a + m)) = m
  BY <1>1
<1>3. ASSUME NEW i \in 1 .. m PROVE SubSeq(s, a + 1, a + m)[i] = s[a + i]
  BY <1>1
<1>4. QED BY <1>2, <1>3

LEMMA PiecesJoin ==
  ASSUME NEW s \in Seq(Int), NEW a \in Nat, NEW m \in Nat, a + m <= Len(s)
  PROVE  /\ SubSeq(s, 1, a) \in Seq(Int) /\ SubSeq(s, a + 1, a + m) \in Seq(Int)
         /\ Len(SubSeq(s, a + 1, a + m)) = m
         /\ SubSeq(s, 1, a) \o SubSeq(s, a + 1, a + m) = SubSeq(s, 1, a + m)
<1> DEFINE t == SubSeq(s, 1, a)
           u == SubSeq(s, a + 1, a + m)
           v == SubSeq(s, 1, a + m)
           j == t \o u
<1>1. u \in Seq(Int) /\ Len(u) = m /\ \A i \in 1 .. m : u[i] = s[a + i]
  BY PieceIs
<1>2. Len(s) \in Nat /\ a <= Len(s)
  OBVIOUS
<1>3. t \in Seq(Int) /\ Len(t) = a /\ \A i \in 1 .. a : t[i] = s[i]
  BY <1>2
<1>4. v \in Seq(Int) /\ Len(v) = a + m /\ \A i \in 1 .. a + m : v[i] = s[i]
  BY <1>2
<1> HIDE DEF t, u, v
<1>5. /\ j \in Seq(Int) /\ Len(j) = Len(t) + Len(u)
      /\ \A i \in 1 .. Len(t) : j[i] = t[i]
      /\ \A i \in 1 .. Len(u) : j[Len(t) + i] = u[i]
  BY <1>1, <1>3, JoinIs
<1> HIDE DEF j
<1>6. ASSUME NEW i \in 1 .. a + m PROVE j[i] = v[i]
  <2>1. CASE i <= a
    <3>1. i \in 1 .. a
      BY <2>1
    <3>2. QED BY <1>3, <1>4, <1>5, <3>1
  <2>2. CASE i > a
    <3>1. i - a \in 1 .. m /\ a + (i - a) = i
      BY <2>2
    <3>2. j[a + (i - a)] = u[i - a] /\ u[i - a] = s[a + (i - a)]
      BY <1>1, <1>3, <1>5, <3>1
    <3>3. QED BY <1>4, <3>1, <3>2
  <2>3. QED BY <2>1, <2>2
<1>7. Len(j) = Len(v) /\ Len(j) = a + m
  BY <1>1, <1>3, <1>4, <1>5
<1>8. j = v
  BY <1>4, <1>5, <1>6, <1>7, SameSequence
<1>9. QED BY <1>1, <1>3, <1>8 DEF t, u, v, j

LEMMA PutRoundKeeps ==
  ASSUME RingAssumption, NEW b, Ring(b), NEW s \in Seq(Int), NEW n \in Nat, NEW p,
         PutSoFar(p, n, b, s), NEW q, q = PutRound(p, s)
  PROVE  PutSoFar(q, n + 1, b, s)
<1> DEFINE a == p.added
           r == Roomy(p.b)
           this == Min2(bufRoom(r), Len(s) - a)
           piece == SubSeq(s, a + 1, a + this)
           c == bufAdjustEnd(Copy(r, piece), this)
<1>1. Ring(p.b) /\ a \in Nat /\ a <= Len(s) /\ Len(s) \in Nat /\ p.full \in BOOLEAN
  BY DEF PutSoFar
<1>2. CASE p.full \/ a = Len(s)
  <2>1. q = p
    BY <1>2 DEF PutRound
  <2>2. QED BY <1>2, <2>1 DEF PutSoFar
<1>3. CASE ~ p.full /\ a # Len(s)
  <2>1. q = [b |-> c, added |-> a + this, full |-> this = 0]
    BY <1>3 DEF PutRound
  <2>2. /\ Ring(r) /\ Contents(r) = Contents(p.b) /\ bufRoom(r) \in Nat
        /\ bufRoom(r) = 0 => bufLen(r) = r.buflen - 1 /\ ~ CanGrow(r, 0)
    BY <1>1, RoomyIs
  <2>3. /\ this \in Nat /\ this <= bufRoom(r) /\ a + this <= Len(s)
        /\ this = 0 => bufRoom(r) = 0
    <3> DEFINE room == bufRoom(r)
    <3>1. this = IF room <= Len(s) - a THEN room ELSE Len(s) - a
      BY DEF Min2
    <3>2. room \in Nat
      BY <2>2
    <3> HIDE DEF room, this, a
    <3>3. /\ this \in Nat /\ this <= room /\ a + this <= Len(s)
          /\ this = 0 => room = 0
      BY <1>1, <1>3, <3>1, <3>2
    <3>4. QED BY <3>3 DEF room
  <2> HIDE DEF a, r, this
  <2>4. /\ SubSeq(s, 1, a) \in Seq(Int) /\ piece \in Seq(Int) /\ Len(piece) = this
        /\ SubSeq(s, 1, a) \o piece = SubSeq(s, 1, a + this)
    BY <1>1, <2>3, PiecesJoin
  <2> HIDE DEF piece
  <2>5. /\ Ring(c) /\ Contents(c) = Contents(r) \o piece /\ bufLen(c) = bufLen(r) + this
        /\ c.buflen = r.buflen /\ c.maxsize = r.maxsize /\ c.increment = r.increment
    BY <2>2, <2>3, <2>4, Copied
  <2> HIDE DEF c
  <2>6. Contents(c) = Contents(b) \o SubSeq(s, 1, a + this)
    <3> DEFINE t == SubSeq(s, 1, a)
               e == Contents(b)
    <3>1. Contents(r) = e \o t
      BY <2>2 DEF PutSoFar, a
    <3>2. e \in Seq(Int) /\ t \in Seq(Int)
      BY <2>4, ContentsAre
    <3>3. t \o piece = SubSeq(s, 1, a + this)
      BY <2>4
    <3> HIDE DEF t, e
    <3>4. (e \o t) \o piece = e \o (t \o piece)
      BY <2>4, <3>2, Regroup
    <3>5. QED BY <2>5, <3>1, <3>3, <3>4 DEF e
  <2>7. this = 0 => bufLen(c) = c.buflen - 1 /\ ~ CanGrow(c, 0)
    <3>1. SUFFICES ASSUME this = 0 PROVE bufLen(c) = c.buflen - 1 /\ ~ CanGrow(c, 0)
      OBVIOUS
    <3>2. bufLen(r) = r.buflen - 1 /\ ~ CanGrow(r, 0)
      BY <2>2, <2>3, <3>1
    <3>3. bufLen(r) \in Nat
      BY <2>2, SizesOf
    <3>4. bufLen(c) = c.buflen - 1
      BY <2>5, <3>1, <3>2, <3>3
    <3>5. QED BY <2>5, <3>2, <3>4 DEF CanGrow, MayGrow, Increase
  <2>8. q.b = c /\ q.added = a + this /\ q.full = (this = 0)
    BY <2>1
  <2>9. a >= n
    BY <1>3 DEF PutSoFar, a
  <2>10. a + this \in 0 .. Len(s)
    BY <1>1, <2>3
  <2>11. q.full \in BOOLEAN
    BY <2>8
  <2>12. this # 0 => a + this >= n + 1
    BY <1>1, <2>3, <2>9
  <2>13. QED BY <2>5, <2>6, <2>7, <2>8, <2>10, <2>11, <2>12 DEF PutSoFar
<1>4. QED BY <1>1, <1>2, <1>3

LEMMA PutBlkIs ==
  ASSUME RingAssumption, NEW b, Ring(b), NEW s \in Seq(Int), NEW p, p = bufPutBlk(b, s)
  PROVE  /\ Ring(p.b) /\ p.added \in 0 .. Len(s)
         /\ Contents(p.b) = Contents(b) \o SubSeq(s, 1, p.added)
         /\ p.added < Len(s) => bufLen(p.b) = p.b.buflen - 1 /\ ~ CanGrow(p.b, 0)
<1> DEFINE m == Len(s)
           first == [b |-> b, added |-> 0, full |-> FALSE]
           d == CHOOSE f : Putting(f, m, b, s)
<1>1. m \in Nat
  OBVIOUS
<1>2. p = d[m]
  BY DEF bufPutBlk, Putting
<1> HIDE DEF m
<1>3. Putting(d, m, b, s)
  BY <1>1, PuttingExists
<1> HIDE DEF d
<1> DEFINE T == {n \in 0 .. m : ~ PutSoFar(d[n], n, b, s)}
<1>4. T = {}
  <2> SUFFICES ASSUME T # {} PROVE FALSE
    OBVIOUS
  <2>1. T \in SUBSET Nat
    OBVIOUS
  <2>2. PICK n \in T : \A y \in T : n <= y
    <3> HIDE DEF T
    <3>1. QED BY <2>1, Least
  <2>3. n \in 0 .. m /\ d[n] = IF n = 0 THEN first ELSE PutRound(d[n - 1], s)
    BY <1>3 DEF Putting
  <2>4. CASE n = 0
    <3>1. d[n].b = b /\ d[n].added = 0 /\ d[n].full = FALSE
      BY <2>3, <2>4
    <3>2. Contents(b) = Contents(b) \o SubSeq(s, 1, 0)
      <4>1. Contents(b) \in Seq(Int) /\ SubSeq(s, 1, 0) = << >>
        BY ContentsAre
      <4>2. QED BY <4>1
    <3>3. 0 \in 0 .. Len(s) /\ 0 >= n
      BY <1>1, <2>4 DEF m
    <3>4. PutSoFar(d[n], n, b, s)
      BY <3>1, <3>2, <3>3 DEF PutSoFar
    <3>5. QED BY <3>4
  <2>5. CASE n # 0
    <3>1. n - 1 \in 0 .. m /\ n - 1 \in Nat /\ (n - 1) + 1 = n /\ ~ n <= n - 1
      BY <1>1, <2>3, <2>5
    <3>2. PutSoFar(d[n - 1], n - 1, b, s)
      BY <2>2, <3>1
    <3>3. PutSoFar(d[n], (n - 1) + 1, b, s)
      BY <2>3, <2>5, <3>1, <3>2, PutRoundKeeps
    <3>4. QED BY <3>1, <3>3
  <2>6. QED BY <2>4, <2>5
<1>5. PutSoFar(p, m, b, s)
  BY <1>1, <1>2, <1>4
<1>6. p.added < Len(s) => bufLen(p.b) = p.b.buflen - 1 /\ ~ CanGrow(p.b, 0)
  <2>1. p.added \in 0 .. Len(s) /\ Len(s) \in Nat
    BY <1>5 DEF PutSoFar
  <2>2. p.added < Len(s) => ~(p.added = Len(s) \/ p.added >= m)
    BY <2>1 DEF m
  <2>3. QED BY <1>5, <2>2 DEF PutSoFar
<1>7. QED BY <1>5, <1>6 DEF PutSoFar

LEMMA GetRoundIs ==
  ASSUME NEW p, Ring(p.b), p.got \in Seq(Int), NEW size \in Nat, Len(p.got) <= size,
         NEW q, q = GetRound(p, size)
  PROVE  /\ Ring(q.b) /\ q.got \in Seq(Int) /\ Len(q.got) <= size
         /\ p.got \o Contents(p.b) = q.got \o Contents(q.b)
<1> DEFINE b == p.b
           g == p.got
           this == Min2(bufGetBlkMax(b), size - Len(g))
           c == bufAdjustStart(b, this)
           front == Front(b, this)
<1>1. Ring(b) /\ g \in Seq(Int) /\ Len(g) \in Nat /\ Len(g) <= size
  OBVIOUS
<1>2. q = [b |-> [b EXCEPT !.servp = AtWrap(b, @ + this)], got |-> g \o front]
  BY DEF GetRound, Front
<1> HIDE DEF b, g
<1>3. this \in 0 .. bufGetBlkMax(b) /\ Len(g) + this <= size
  <2> DEFINE line == bufGetBlkMax(b)
  <2>1. line \in Nat
    BY <1>1, SizesOf
  <2>2. this = IF line <= size - Len(g) THEN line ELSE size - Len(g)
    BY DEF Min2
  <2> HIDE DEF line, this
  <2>3. this \in 0 .. line /\ Len(g) + this <= size
    BY <1>1, <2>1, <2>2
  <2>4. QED BY <2>3 DEF line
<1> HIDE DEF this
<1>4. /\ Ring(c) /\ front \in Seq(Int) /\ Len(front) = this
      /\ Contents(b) = front \o Contents(c)
      /\ c.servp = AtWrap(b, b.servp + this)
  BY <1>1, <1>3, Drained
<1>5. c = [b EXCEPT !.servp = AtWrap(b, @ + this)]
  <2>1. c.servp = (b.servp + this) % b.buflen
    BY <1>1 DEF bufAdjustStart, Ring
  <2>2. (b.servp + this) % b.buflen = AtWrap(b, b.servp + this)
    BY <1>4, <2>1
  <2>3. c = [b EXCEPT !.servp = (b.servp + this) % b.buflen]
    BY <1>1 DEF bufAdjustStart, Ring
  <2>4. [b EXCEPT !.servp = AtWrap(b, @ + this)] = [b EXCEPT !.servp = AtWrap(b, b.servp + this)]
    BY <1>1 DEF Ring
  <2> HIDE DEF c
  <2>5. QED BY <2>2, <2>3, <2>4
<1> HIDE DEF c, front
<1>6. q.b = c /\ q.got = g \o front
  BY <1>2, <1>5
<1>7. Contents(c) \in Seq(Int)
  BY <1>4, ContentsAre
<1>8. g \o Contents(b) = (g \o front) \o Contents(c)
  <2> DEFINE left == Contents(c)
  <2>1. left \in Seq(Int) /\ Contents(b) = front \o left
    BY <1>4, <1>7
  <2> HIDE DEF left
  <2>2. (g \o front) \o left = g \o (front \o left)
    BY <1>1, <1>4, <2>1, Regroup
  <2>3. QED BY <2>1, <2>2 DEF left
<1>9. g \o front \in Seq(Int) /\ Len(g \o front) = Len(g) + Len(front)
  BY <1>1, <1>4, JoinIs
<1>10. QED BY <1>3, <1>4, <1>6, <1>8, <1>9 DEF b, g

LEMMA GetBlkIs ==
  ASSUME NEW b, Ring(b), NEW size \in Nat, NEW p, p = bufGetBlk(b, size)
  PROVE  Ring(p.b) /\ p.got \in Seq(Int) /\ Contents(b) = p.got \o Contents(p.b)
<1> DEFINE x == [b |-> b, got |-> << >>]
           y == GetRound(x, size)
<1>1. p = GetRound(y, size)
  BY GettingIs
<1>2. Ring(x.b) /\ x.got \in Seq(Int) /\ Len(x.got) <= size
  OBVIOUS
<1>3. x.got \o Contents(x.b) = Contents(b)
  BY ContentsAre
<1> HIDE DEF x
<1>4. /\ Ring(y.b) /\ y.got \in Seq(Int) /\ Len(y.got) <= size
      /\ x.got \o Contents(x.b) = y.got \o Contents(y.b)
  BY <1>2, GetRoundIs
<1> HIDE DEF y
<1>5. /\ Ring(p.b) /\ p.got \in Seq(Int)
      /\ y.got \o Contents(y.b) = p.got \o Contents(p.b)
  BY <1>1, <1>4, GetRoundIs
<1>6. QED BY <1>3, <1>4, <1>5

----------------------------------------------------------------------------
(* Null bytes and moves to the front. *)

LEMMA NullIs ==
  ASSUME NEW b, Ring(b), NEW c, c = [b EXCEPT !.mem[b.endp] = Nul]
  PROVE  /\ Ring(c) /\ Contents(c) = Contents(b) /\ bufLen(c) = bufLen(b)
         /\ c.servp = b.servp /\ c.endp = b.endp /\ c.mem[c.endp] = Nul
         /\ c.buflen = b.buflen /\ c.maxsize = b.maxsize /\ c.increment = b.increment
<1>1. /\ b.mem \in [0 .. b.buflen - 1 -> Int] /\ b.endp \in 0 .. b.buflen - 1
      /\ Nul \in Int
  BY DEF Ring, Nul
<1>2. /\ c.buflen = b.buflen /\ c.servp = b.servp /\ c.endp = b.endp
      /\ c.mem = [b.mem EXCEPT ![b.endp] = Nul]
      /\ c.increment = b.increment /\ c.maxsize = b.maxsize
      /\ c = [mem |-> c.mem, buflen |-> c.buflen, increment |-> c.increment,
              maxsize |-> c.maxsize, servp |-> c.servp, endp |-> c.endp]
  BY DEF Ring
<1>3. Ring(c)
  BY <1>1, <1>2 DEF Ring
<1>4. ASSUME NEW k \in 1 .. bufLen(b) PROVE c.mem[Place(b, k)] = b.mem[Place(b, k)]
  <2> DEFINE n == b.buflen
             p == b.servp
             e == b.endp
             l == bufLen(b)
             q == Place(b, k)
  <2>1. /\ n \in Nat \ {0} /\ p \in Nat /\ e \in Nat /\ p < n /\ e < n /\ l \in 0 .. n - 1
        /\ e = IF p + l < n THEN p + l ELSE p + l - n
    BY SizesOf
  <2>2. q = IF p + k - 1 < n THEN p + k - 1 ELSE p + k - 1 - n
    BY DEF Place
  <2>3. k \in 1 .. l
    OBVIOUS
  <2> HIDE DEF n, p, e, l, q
  <2>4. q # e /\ q \in 0 .. n - 1
    BY <2>1, <2>2, <2>3
  <2>5. QED BY <1>1, <1>2, <2>4 DEF q, e, n
<1>5. Contents(c) = Contents(b) /\ bufLen(c) = bufLen(b)
  BY <1>2, <1>3, <1>4, SameData
<1>6. c.mem[c.endp] = Nul
  BY <1>1, <1>2
<1>7. QED BY <1>2, <1>3, <1>5, <1>6

LEMMA NullAdded ==
  ASSUME RingAssumption, NEW b, Ring(b), NEW c, c = bufAddNull(b)
  PROVE  /\ Ring(c) /\ Contents(c) = Contents(b) /\ bufLen(c) = bufLen(b)
         /\ \/ c.servp = b.servp /\ c.endp = b.endp
            \/ c.servp = 0 /\ c.endp = bufLen(b)
<1>1. CASE bufRoom(b) < 1
  <2>1. c = bufGrow(b, 0)
    BY <1>1 DEF bufAddNull
  <2>2. QED BY <2>1, Grown
<1>2. CASE ~ bufRoom(b) < 1
  <2>1. c = [b EXCEPT !.mem[b.endp] = Nul]
    BY <1>2 DEF bufAddNull
  <2>2. QED BY <2>1, NullIs
<1>3. QED BY <1>1, <1>2

LEMMA Flushed ==
  ASSUME NEW b, Ring(b), NEW c, c = bufFlush(b)
  PROVE  Ring(c) /\ Contents(c) = << >>
<1>1. /\ b.mem \in [0 .. b.buflen - 1 -> Int] /\ b.buflen \in Nat \ {0} /\ Nul \in Int
  BY DEF Ring, Nul
<1>2. /\ c.buflen = b.buflen /\ c.servp = 0 /\ c.endp = 0
      /\ c.mem = [b.mem EXCEPT ![0] = Nul]
      /\ c.increment = b.increment /\ c.maxsize = b.maxsize
      /\ c = [mem |-> c.mem, buflen |-> c.buflen, increment |-> c.increment,
              maxsize |-> c.maxsize, servp |-> c.servp, endp |-> c.endp]
  BY DEF bufFlush, Ring
<1>3. Ring(c) /\ c.servp = c.endp
  BY <1>1, <1>2 DEF Ring
<1>4. QED BY <1>3, Empty

LEMMA Compacted ==
  ASSUME RingAssumption, NEW b, Ring(b), NEW c, c = bufCompact(b)
  PROVE  Ring(c) /\ Contents(c) = Contents(b)
<1>1. CASE bufLen(b) = 0
  <2>1. c = bufFlush(b)
    BY <1>1 DEF bufCompact
  <2>2. Contents(b) \in Seq(Int) /\ Len(Contents(b)) = 0
    BY <1>1, ContentsAre
  <2>3. Contents(b) = << >>
    BY <2>2
  <2>4. QED BY <2>1, <2>3, Flushed
<1>2. CASE bufLen(b) # 0 /\ ~(b.servp < b.endp /\ b.servp > 0)
  BY <1>2 DEF bufCompact
<1>3. CASE bufLen(b) # 0 /\ b.servp < b.endp /\ b.servp > 0
  <2> DEFINE t == bufAddNull(b)
             l == bufLen(b)
             n == t.buflen
             moved == [k \in 1 .. l + 1 |-> t.mem[t.servp + k - 1]]
             m == [o \in DOMAIN t.mem |-> IF o < Len(moved) THEN moved[o + 1] ELSE t.mem[o]]
  <2>1. /\ Ring(t) /\ Contents(t) = Contents(b) /\ bufLen(t) = l
        /\ \/ t.servp = b.servp /\ t.endp = b.endp
           \/ t.servp = 0 /\ t.endp = l
    BY NullAdded
  <2>2. c = [t EXCEPT !.mem = m, !.servp = 0, !.endp = l]
    BY <1>3 DEF bufCompact
  <2> HIDE DEF t
  <2>3. l \in Nat /\ t.endp = t.servp + l /\ t.servp \in Nat /\ t.endp < n /\ n \in Nat \ {0}
    <3>1. l = b.endp - b.servp /\ b.endp \in Nat /\ b.servp \in Nat
      BY <1>3 DEF bufLen, Ring
    <3>2. t.servp \in Nat /\ t.endp \in Nat /\ t.endp < n /\ n \in Nat \ {0}
      BY <2>1 DEF Ring
    <3>3. l \in Nat
      BY SizesOf
    <3> HIDE DEF l, n
    <3>4. QED BY <2>1, <3>1, <3>2, <3>3
  <2>4. t.mem \in [0 .. n - 1 -> Int]
    BY <2>1 DEF Ring
  <2>5. Len(moved) = l + 1 /\ \A k \in 1 .. l + 1 : moved[k] = t.mem[t.servp + k - 1]
    <3> HIDE DEF l
    <3>1. QED BY <2>3
  <2> HIDE DEF l, n, moved
  <2>6. ASSUME NEW o \in 0 .. n - 1
        PROVE  m[o] \in Int /\ (o < l => m[o] = t.mem[t.servp + o])
    <3>1. m[o] = IF o < l + 1 THEN moved[o + 1] ELSE t.mem[o]
      BY <2>4, <2>5
    <3>2. o < l + 1 => o + 1 \in 1 .. l + 1 /\ t.servp + (o + 1) - 1 = t.servp + o
                       /\ t.servp + o \in 0 .. n - 1
      BY <2>3
    <3>3. o < l + 1 => moved[o + 1] = t.mem[t.servp + o]
      BY <2>5, <3>2
    <3>4. o < l => o < l + 1
      BY <2>3
    <3> HIDE DEF m
    <3>5. QED BY <2>4, <3>1, <3>2, <3>3, <3>4
  <2>7. m \in [0 .. n - 1 -> Int]
    <3>1. m = [o \in 0 .. n - 1 |-> m[o]]
      BY <2>4
    <3> HIDE DEF m
    <3>2. QED BY <2>6, <3>1
  <2> HIDE DEF m
  <2>8. /\ c.buflen = n /\ c.servp = 0 /\ c.endp = l /\ c.mem = m
        /\ c.increment = t.increment /\ c.maxsize = t.maxsize
        /\ c = [mem |-> c.mem, buflen |-> c.buflen, increment |-> c.increment,
                maxsize |-> c.maxsize, servp |-> c.servp, endp |-> c.endp]
    BY <2>1, <2>2 DEF Ring, n
  <2>9. Ring(c)
    <3>1. l \in 0 .. n - 1
      BY <2>3
    <3>2. t.increment \in Nat \ {0} /\ t.maxsize \in Int
      BY <2>1 DEF Ring
    <3>3. QED BY <2>3, <2>7, <2>8, <3>1, <3>2 DEF Ring
  <2>10. ASSUME NEW k \in 1 .. bufLen(t) PROVE c.mem[k - 1] = Contents(t)[k]
    <3>1. k \in 1 .. l
      BY <2>1
    <3>2. k - 1 \in 0 .. n - 1 /\ k - 1 < l /\ t.servp + (k - 1) = t.servp + k - 1
          /\ t.servp + k - 1 < n
      BY <2>3, <3>1
    <3>3. m[k - 1] = t.mem[t.servp + k - 1]
      BY <2>6, <3>2
    <3>4. Place(t, k) = t.servp + k - 1
      BY <3>2 DEF Place, n
    <3>5. Contents(t)[k] = t.mem[Place(t, k)]
      BY <2>1, ContentsAre
    <3>6. QED BY <2>8, <3>3, <3>4, <3>5
  <2>11. Contents(c) = Contents(t)
    BY <2>1, <2>8, <2>9, <2>10, Moved
  <2>12. QED BY <2>1, <2>9, <2>11
<1>4. QED BY <1>1, <1>2, <1>3

----------------------------------------------------------------------------
(* Calls, each of which is one of Fifo's or leaves the sequence alone. *)

LEMMA Ends ==
  ASSUME NEW s \in Seq(Int)
  PROVE  s \o << >> = s /\ << >> \o s = s /\ Len(s) \in Nat
OBVIOUS

LEMMA WholeIs ==
  ASSUME NEW s \in Seq(Int)
  PROVE  SubSeq(s, 1, Len(s)) = s /\ SubSeq(s, 1, 0) = << >>
OBVIOUS

LEMMA Remainder ==
  ASSUME NEW a \in Int, NEW n \in Nat \ {0}
  PROVE  a % n \in Int
OBVIOUS

\* The bytes that callers put.
LEMMA StreamIs ==
  ASSUME RingAssumption, Ring(ring), NEW n \in Nat
  PROVE  Stream(n) \in Seq(Int) /\ Len(Stream(n)) = n
<1> DEFINE c == Contents(ring)
           next == IF c = << >> THEN 0 ELSE c[Len(c)] + 1
<1>1. c \in Seq(Int)
  BY ContentsAre
<1> HIDE DEF c
<1>2. next \in Int
  BY <1>1
<1>3. Stream(n) = [k \in 1 .. n |-> (next + k - 1) % Labels]
  BY DEF Stream, c
<1> HIDE DEF next
<1>4. ASSUME NEW k \in 1 .. n PROVE (next + k - 1) % Labels \in Int
  <2>1. next + k - 1 \in Int /\ Labels \in Nat \ {0}
    BY <1>2 DEF RingAssumption
  <2>2. QED BY <2>1, Remainder
<1>5. QED BY <1>3, <1>4

LEMMA BeforeIs ==
  ASSUME RingAssumption, Ring(ring)
  PROVE  Before \in Int
<1> DEFINE c == Contents(ring)
<1>1. c \in Seq(Int)
  BY ContentsAre
<1>2. Before = IF c = << >> THEN 0 ELSE (c[1] + Labels - 1) % Labels
  BY DEF Before
<1> HIDE DEF c
<1>3. ASSUME c # << >> PROVE (c[1] + Labels - 1) % Labels \in Int
  <2>1. c[1] \in Int /\ Labels \in Nat \ {0}
    BY <1>1, <1>3 DEF RingAssumption
  <2>2. c[1] + Labels - 1 \in Int
    BY <2>1
  <2>3. QED BY <2>1, <2>2, Remainder
<1>4. QED BY <1>2, <1>3

\* What a call keeps and tells.
Step ==
  /\ ring' = NoRing \/ Ring(ring')
  /\ Terminated' /\ ShortMeansFull' /\ Sequence!Next

\* A call that puts the bytes s, or n of them when there is no room for more.
LEMMA PutStep ==
  ASSUME Ring(ring), NEW c, Ring(c), ring' = c, NEW s \in Seq(Int), NEW n \in 0 .. Len(s),
         NEW call \in {"put", "putStr"}, Result(call, s, << >>, n),
         Contents(c) = Contents(ring) \o SubSeq(s, 1, n),
         n < Len(s) => bufLen(c) = c.buflen - 1 /\ ~ CanGrow(c, 0),
         call = "putStr" => c.mem[c.endp] = Nul
  PROVE  Step
<1>1. io'.call = call /\ io'.in = s /\ io'.rc = n
  BY DEF Result
<1>2. Terminated' /\ ShortMeansFull'
  BY <1>1 DEF Terminated, ShortMeansFull
<1>3. Sequence!Put
  BY <1>1 DEF Sequence!Put
<1>4. QED BY <1>2, <1>3 DEF Step, Sequence!Next

\* Of the calls that put nothing, Terminated and ShortMeansFull say nothing.
LEMMA OtherStep ==
  ASSUME ring' = NoRing \/ Ring(ring'), io'.call \notin {"put", "putStr"},
         Sequence!Insert \/ Sequence!Get \/ Sequence!Keep \/ Sequence!Clear
  PROVE  Step
BY DEF Step, Terminated, ShortMeansFull, Sequence!Next

LEMMA GetStep ==
  ASSUME Ring(ring), NEW c, Ring(c), ring' = c, NEW s \in Seq(Int), Result("get", << >>, s, Len(s)),
         Contents(ring) = s \o Contents(c)
  PROVE  Step
<1>1. io'.call = "get" /\ io'.out = s /\ io'.rc = Len(s)
  BY DEF Result
<1>2. Sequence!Get
  BY <1>1 DEF Sequence!Get
<1>3. QED BY <1>1, <1>2, OtherStep

LEMMA KeepStep ==
  ASSUME Ring(ring), NEW c, Ring(c), ring' = c, NEW rc, Result("keep", << >>, << >>, rc),
         Contents(c) = Contents(ring)
  PROVE  Step
<1>1. io'.call = "keep"
  BY DEF Result
<1>2. Sequence!Keep
  BY <1>1 DEF Sequence!Keep
<1>3. QED BY <1>1, <1>2, OtherStep

LEMMA ClearStep ==
  ASSUME NEW c, ring' = c, Ring(c) \/ c = NoRing, Contents(c) = << >>,
         io'.call \in {"create", "flush", "free"}
  PROVE  Step
<1>1. Sequence!Clear
  BY DEF Sequence!Clear
<1>2. QED BY <1>1, OtherStep

LEMMA CreateStep ==
  ASSUME RingAssumption, ring = NoRing, Create
  PROVE  Step
<1>1. PICK n \in InitSizes, max \in MaxSizes :
        \/ ring' = bufCreate(n, max) /\ Result("create", << >>, << >>, 0)
        \/ UNCHANGED ring /\ Result("create", << >>, << >>, -1)
  BY DEF Create
<1>2. io'.call = "create"
  BY <1>1 DEF Result
<1>3. Ring(bufCreate(n, max)) /\ Contents(bufCreate(n, max)) = << >>
  BY Created DEF RingAssumption
<1>4. Contents(NoRing) = << >>
  BY DEF Contents
<1>5. CASE ring' = bufCreate(n, max)
  BY <1>2, <1>3, <1>5, ClearStep
<1>6. CASE UNCHANGED ring
  BY <1>2, <1>4, <1>6, ClearStep
<1>7. QED BY <1>1, <1>5, <1>6

LEMMA FreeStep ==
  ASSUME Free
  PROVE  Step
<1>1. ring' = NoRing /\ io'.call = "free"
  BY DEF Free, NoCall
<1>2. Contents(NoRing) = << >>
  BY DEF Contents
<1>3. QED BY <1>1, <1>2, ClearStep

LEMMA PutcStep ==
  ASSUME RingAssumption, Ring(ring), Putc
  PROVE  Step
<1> DEFINE b == Roomy(ring)
           x == Stream(1)[1]
           c == bufPutc(b, x)
<1>1. /\ Ring(b) /\ Contents(b) = Contents(ring) /\ bufRoom(b) \in Nat
      /\ bufRoom(b) = 0 => bufLen(b) = b.buflen - 1 /\ ~ CanGrow(b, 0)
  BY RoomyIs
<1>2. x \in Int
  BY StreamIs
<1>3. IF bufRoom(b) < 1 THEN ring' = b /\ Result("put", <<x>>, << >>, 0)
      ELSE ring' = c /\ Result("put", <<x>>, << >>, 1)
  BY DEF Putc
<1> HIDE DEF b, x
<1>4. <<x>> \in Seq(Int) /\ Len(<<x>>) = 1
  BY <1>2
<1>5. SubSeq(<<x>>, 1, 0) = << >> /\ SubSeq(<<x>>, 1, 1) = <<x>>
  BY <1>4, WholeIs
<1>6. CASE bufRoom(b) < 1
  <2>1. ring' = b /\ Result("put", <<x>>, << >>, 0) /\ bufRoom(b) = 0
    BY <1>1, <1>3, <1>6
  <2>2. Contents(ring) \in Seq(Int)
    BY ContentsAre
  <2>3. Contents(b) = Contents(ring) \o SubSeq(<<x>>, 1, 0)
    BY <1>1, <1>5, <2>2, Ends
  <2>4. 0 \in 0 .. Len(<<x>>)
    BY <1>4
  <2>5. QED BY <1>1, <1>4, <2>1, <2>3, <2>4, PutStep
<1>7. CASE ~ bufRoom(b) < 1
  <2>1. ring' = c /\ Result("put", <<x>>, << >>, 1) /\ bufRoom(b) > 0
    BY <1>1, <1>3, <1>7
  <2>2. Ring(c) /\ Contents(c) = Contents(ring) \o SubSeq(<<x>>, 1, 1)
    BY <1>1, <1>2, <1>5, <2>1, Put1
  <2>3. 1 \in 0 .. Len(<<x>>) /\ ~ 1 < Len(<<x>>)
    BY <1>4
  <2> HIDE DEF c
  <2>4. QED BY <1>4, <2>1, <2>2, <2>3, PutStep
<1>8. QED BY <1>6, <1>7

LEMMA InsertcStep ==
  ASSUME RingAssumption, Ring(ring), Insertc
  PROVE  Step
<1> DEFINE b == Roomy(ring)
           x == Before
           c == bufInsertc(b, x)
<1>1. Ring(b) /\ Contents(b) = Contents(ring) /\ bufRoom(b) \in Nat
  BY RoomyIs
<1>2. x \in Int
  BY BeforeIs
<1>3. Contents(ring) \in Seq(Int)
  BY ContentsAre
<1>4. IF bufRoom(b) < 1 THEN ring' = b /\ Result("insert", <<x>>, << >>, -1)
      ELSE ring' = c /\ Result("insert", <<x>>, << >>, 0)
  BY DEF Insertc
<1> HIDE DEF b, x
<1>5. CASE bufRoom(b) < 1
  <2>1. ring' = b /\ io'.call = "insert" /\ io'.in = <<x>> /\ io'.rc = -1
    BY <1>4, <1>5 DEF Result
  <2>2. Contents(ring) = << >> \o Contents(ring)
    BY <1>3, Ends
  <2>3. Sequence!Insert
    BY <1>1, <2>1, <2>2 DEF Sequence!Insert
  <2>4. QED BY <1>1, <2>1, <2>3, OtherStep
<1>6. CASE ~ bufRoom(b) < 1
  <2>1. ring' = c /\ io'.call = "insert" /\ io'.in = <<x>> /\ io'.rc = 0 /\ bufRoom(b) > 0
    BY <1>1, <1>4, <1>6 DEF Result
  <2>2. Ring(c) /\ Contents(c) = <<x>> \o Contents(ring)
    BY <1>1, <1>2, <2>1, Inserted
  <2> HIDE DEF c
  <2>3. Sequence!Insert
    BY <2>1, <2>2 DEF Sequence!Insert
  <2>4. QED BY <2>1, <2>2, <2>3, OtherStep
<1>7. QED BY <1>5, <1>6

LEMMA PutBlkStep ==
  ASSUME RingAssumption, Ring(ring), PutBlk
  PROVE  Step
<1>1. PICK n \in Lengths : LET p == bufPutBlk(ring, Stream(n))
                           IN ring' = p.b /\ Result("put", Stream(n), << >>, p.added)
  BY DEF PutBlk
<1> DEFINE s == Stream(n)
           p == bufPutBlk(ring, s)
           c == p.b
<1>2. s \in Seq(Int)
  BY StreamIs DEF RingAssumption
<1>3. /\ Ring(c) /\ p.added \in 0 .. Len(s)
      /\ Contents(c) = Contents(ring) \o SubSeq(s, 1, p.added)
      /\ p.added < Len(s) => bufLen(c) = c.buflen - 1 /\ ~ CanGrow(c, 0)
  BY <1>2, PutBlkIs
<1>4. ring' = c /\ Result("put", s, << >>, p.added)
  BY <1>1
<1> HIDE DEF s, p
<1>5. QED BY <1>2, <1>3, <1>4, PutStep

LEMMA PutStrStep ==
  ASSUME RingAssumption, Ring(ring), PutStr
  PROVE  Step
<1>1. PICK n \in Lengths : LET p == bufPutBlk(ring, Stream(n))
                           IN ring' = [p.b EXCEPT !.mem[p.b.endp] = Nul]
                              /\ Result("putStr", Stream(n), << >>, p.added)
  BY DEF PutStr
<1> DEFINE s == Stream(n)
           p == bufPutBlk(ring, s)
           b == p.b
           c == [b EXCEPT !.mem[b.endp] = Nul]
<1>2. s \in Seq(Int)
  BY StreamIs DEF RingAssumption
<1>3. /\ Ring(b) /\ p.added \in 0 .. Len(s)
      /\ Contents(b) = Contents(ring) \o SubSeq(s, 1, p.added)
      /\ p.added < Len(s) => bufLen(b) = b.buflen - 1 /\ ~ CanGrow(b, 0)
  BY <1>2, PutBlkIs
<1>4. ring' = c /\ Result("putStr", s, << >>, p.added)
  BY <1>1
<1> HIDE DEF s, p
<1>5. /\ Ring(c) /\ Contents(c) = Contents(b) /\ bufLen(c) = bufLen(b) /\ c.mem[c.endp] = Nul
      /\ c.buflen = b.buflen /\ c.maxsize = b.maxsize /\ c.increment = b.increment
  BY <1>3, NullIs
<1> HIDE DEF b, c
<1>6. ~ CanGrow(b, 0) => ~ CanGrow(c, 0)
  BY <1>5 DEF CanGrow, MayGrow, Increase
<1>7. QED BY <1>2, <1>3, <1>4, <1>5, <1>6, PutStep

LEMMA FillStep ==
  ASSUME RingAssumption, Ring(ring), Fill
  PROVE  Step
<1>1. PICK n \in Lengths : /\ n <= bufRoom(ring)
                           /\ ring' = bufAdjustEnd(Copy(ring, Stream(n)), n)
                           /\ Result("put", Stream(n), << >>, n)
  BY DEF Fill
<1> DEFINE s == Stream(n)
           c == bufAdjustEnd(Copy(ring, s), Len(s))
<1>2. s \in Seq(Int) /\ Len(s) = n /\ n \in Nat
  BY StreamIs DEF RingAssumption
<1>3. ring' = c /\ Result("put", s, << >>, n) /\ Len(s) <= bufRoom(ring)
  BY <1>1, <1>2
<1> HIDE DEF s
<1>4. Ring(c) /\ Contents(c) = Contents(ring) \o s
  BY <1>2, <1>3, Copied
<1>5. SubSeq(s, 1, n) = s /\ n \in 0 .. Len(s) /\ ~ n < Len(s)
  BY <1>2, WholeIs
<1> HIDE DEF c
<1>6. QED BY <1>2, <1>3, <1>4, <1>5, PutStep

LEMMA DrainStep ==
  ASSUME RingAssumption, Ring(ring), Drain
  PROVE  Step
<1>1. PICK n \in Lengths :
        /\ n <= bufGetBlkMax(ring) /\ ring' = bufAdjustStart(ring, n)
        /\ Result("get", << >>, [k \in 1 .. n |-> ring.mem[ring.servp + k - 1]], n)
  BY DEF Drain
<1> DEFINE c == bufAdjustStart(ring, n)
           s == Front(ring, n)
<1>2. n \in 0 .. bufGetBlkMax(ring)
  <2>1. n \in Nat /\ bufGetBlkMax(ring) \in Nat
    BY SizesOf DEF RingAssumption
  <2>2. QED BY <1>1, <2>1
<1>3. Ring(c) /\ s \in Seq(Int) /\ Len(s) = n /\ Contents(ring) = s \o Contents(c)
  BY <1>2, Drained
<1>4. ring' = c /\ Result("get", << >>, s, n)
  BY <1>1 DEF Front
<1> HIDE DEF s, c
<1>5. QED BY <1>3, <1>4, GetStep

LEMMA GetcStep ==
  ASSUME Ring(ring), Getc
  PROVE  Step
<1>1. CASE ring.servp = ring.endp
  <2>1. UNCHANGED ring /\ Result("get", << >>, << >>, 0)
    BY <1>1 DEF Getc
  <2>2. << >> \in Seq(Int) /\ Len(<< >>) = 0
    OBVIOUS
  <2>3. Contents(ring) = << >> \o Contents(ring)
    BY ContentsAre, Ends
  <2>4. QED BY <2>1, <2>2, <2>3, GetStep
<1>2. CASE ring.servp # ring.endp
  <2> DEFINE c == bufAdjustStart(ring, 1)
             s == Front(ring, 1)
  <2>1. /\ ring' = [ring EXCEPT !.servp = AtWrap(ring, @ + 1)]
        /\ Result("get", << >>, <<ring.mem[ring.servp]>>, 1)
    BY <1>2 DEF Getc
  <2>2. ring.servp \in 0 .. ring.buflen - 1 /\ ring.endp \in 0 .. ring.buflen - 1
        /\ ring.buflen \in Nat
    BY DEF Ring
  <2>3. (ring.servp + 1) % ring.buflen = AtWrap(ring, ring.servp + 1)
    <3>1. ring.servp + 1 \in 0 .. ring.buflen
      BY <2>2
    <3>2. QED BY <3>1, Round
  <2>4. ring' = c
    BY <2>1, <2>3 DEF bufAdjustStart
  <2>5. s = <<ring.mem[ring.servp]>>
    <3>1. ring.servp + 1 - 1 = ring.servp
      BY <2>2
    <3>2. QED BY <3>1 DEF Front
  <2>6. 1 \in 0 .. bufGetBlkMax(ring)
    <3> DEFINE n == ring.buflen
               p == ring.servp
               e == ring.endp
               line == bufGetBlkMax(ring)
    <3>1. line = IF n - p <= (IF p > e THEN n + e - p ELSE e - p) THEN n - p
                 ELSE IF p > e THEN n + e - p ELSE e - p
      BY DEF bufGetBlkMax, bufLen, Min2
    <3>2. n \in Nat /\ p \in 0 .. n - 1 /\ e \in 0 .. n - 1 /\ p # e
      BY <1>2, <2>2
    <3> HIDE DEF n, p, e, line
    <3>3. 1 \in 0 .. line
      BY <3>1, <3>2
    <3>4. QED BY <3>3 DEF line
  <2>7. Ring(c) /\ s \in Seq(Int) /\ Len(s) = 1 /\ Contents(ring) = s \o Contents(c)
    <3>1. PICK m \in 0 .. bufGetBlkMax(ring) : m = 1
      BY <2>6
    <3>2. /\ Ring(bufAdjustStart(ring, m)) /\ Front(ring, m) \in Seq(Int)
          /\ Len(Front(ring, m)) = m
          /\ Contents(ring) = Front(ring, m) \o Contents(bufAdjustStart(ring, m))
      BY Drained
    <3>3. QED BY <3>1, <3>2
  <2>8. Result("get", << >>, s, Len(s))
    BY <2>1, <2>5, <2>7
  <2> HIDE DEF s, c
  <2>9. QED BY <2>4, <2>7, <2>8, GetStep
<1>3. QED BY <1>1, <1>2

LEMMA GetBlkStep ==
  ASSUME RingAssumption, Ring(ring), GetBlk
  PROVE  Step
<1>1. PICK n \in Lengths : LET p == bufGetBlk(ring, n)
                           IN ring' = p.b /\ Result("get", << >>, p.got, Len(p.got))
  BY DEF GetBlk
<1> DEFINE p == bufGetBlk(ring, n)
           c == p.b
           s == p.got
<1>2. Ring(c) /\ s \in Seq(Int) /\ Contents(ring) = s \o Contents(c)
  BY GetBlkIs DEF RingAssumption
<1>3. ring' = c /\ Result("get", << >>, s, Len(s))
  BY <1>1
<1> HIDE DEF p
<1>4. QED BY <1>2, <1>3, GetStep

\* Neither bytes go in nor out.
LEMMA Resets ==
  ASSUME Ring(ring), NEW c, c = bufReset(ring)
  PROVE  Ring(c) /\ Contents(c) = Contents(ring)
<1>1. CASE ring.servp = ring.endp /\ ring.servp > 0
  <2>1. c = bufFlush(ring)
    BY <1>1 DEF bufReset
  <2>2. Ring(c) /\ Contents(c) = << >>
    BY <2>1, Flushed
  <2>3. Contents(ring) = << >>
    BY <1>1, Empty
  <2>4. QED BY <2>2, <2>3
<1>2. CASE ~(ring.servp = ring.endp /\ ring.servp > 0)
  BY <1>2 DEF bufReset
<1>3. QED BY <1>1, <1>2

LEMMA KeepingStep ==
  ASSUME RingAssumption, Ring(ring), AddNull \/ Compact \/ Reset \/ Grow
  PROVE  Step
<1>1. CASE AddNull
  <2>1. ring' = bufAddNull(ring) /\ Result("keep", << >>, << >>, 0)
    BY <1>1 DEF AddNull
  <2>2. Ring(bufAddNull(ring)) /\ Contents(bufAddNull(ring)) = Contents(ring)
    BY NullAdded
  <2>3. QED BY <2>1, <2>2, KeepStep
<1>2. CASE Compact
  <2>1. ring' = bufCompact(ring) /\ Result("keep", << >>, << >>, 0)
    BY <1>2 DEF Compact
  <2>2. Ring(bufCompact(ring)) /\ Contents(bufCompact(ring)) = Contents(ring)
    BY Compacted
  <2>3. QED BY <2>1, <2>2, KeepStep
<1>3. CASE Reset
  <2>1. ring' = bufReset(ring) /\ Result("keep", << >>, << >>, 0)
    BY <1>3 DEF Reset
  <2>2. Ring(bufReset(ring)) /\ Contents(bufReset(ring)) = Contents(ring)
    BY Resets
  <2>3. QED BY <2>1, <2>2, KeepStep
<1>4. CASE Grow
  <2>1. PICK room \in Rooms : /\ ring' = bufGrow(ring, room)
                              /\ Result("keep", << >>, << >>, IF CanGrow(ring, room) THEN 1 ELSE 0)
    BY <1>4 DEF Grow
  <2>2. room \in Nat
    BY DEF RingAssumption
  <2>3. Ring(bufGrow(ring, room)) /\ Contents(bufGrow(ring, room)) = Contents(ring)
    BY <2>2, Grown
  <2>4. QED BY <2>1, <2>3, KeepStep
<1>5. QED BY <1>1, <1>2, <1>3, <1>4

LEMMA FlushStep ==
  ASSUME Ring(ring), Flush
  PROVE  Step
<1>1. ring' = bufFlush(ring) /\ io'.call = "flush"
  BY DEF Flush, Result
<1>2. Ring(bufFlush(ring)) /\ Contents(bufFlush(ring)) = << >>
  BY Flushed
<1>3. QED BY <1>1, <1>2, ClearStep

----------------------------------------------------------------------------
(* The refinement. *)

\* What holds between calls.
RingInv == (ring = NoRing \/ Ring(ring)) /\ Terminated /\ ShortMeansFull

LEMMA InitMaps == RingInit => RingInv /\ Sequence!Init
<1> SUFFICES ASSUME RingInit PROVE RingInv /\ Sequence!Init
  OBVIOUS
<1>1. ring = NoRing /\ io = NoCall
  BY DEF RingInit
<1>2. Contents(ring) = << >>
  BY <1>1 DEF Contents
<1>3. RingInv
  BY <1>1 DEF RingInv, NoCall, Terminated, ShortMeansFull
<1>4. QED BY <1>1, <1>2, <1>3 DEF Sequence!Init

LEMMA StepMaps ==
  RingAssumption /\ RingInv /\ [RingNext]_<<ring, io>> =>
    RingInv' /\ [Sequence!Next]_<<Contents(ring), io>>
<1> SUFFICES ASSUME RingAssumption, RingInv, [RingNext]_<<ring, io>>
             PROVE  RingInv' /\ [Sequence!Next]_<<Contents(ring), io>>
  OBVIOUS
<1>1. CASE UNCHANGED <<ring, io>>
  BY <1>1 DEF RingInv, Terminated, ShortMeansFull
<1>2. CASE RingNext
  <2>1. Step
    <3>1. CASE ring = NoRing /\ Create
      BY <3>1, CreateStep
    <3>2. CASE ring # NoRing /\ Free
      BY <3>2, FreeStep
    <3>3. CASE /\ ring # NoRing
               /\ \/ Putc \/ Insertc \/ PutBlk \/ PutStr \/ Fill \/ Drain \/ Getc \/ GetBlk
                  \/ AddNull \/ Compact \/ Reset \/ Flush \/ Grow
      <4>1. Ring(ring)
        BY <3>3 DEF RingInv
      <4>2. CASE Putc
        BY <4>1, <4>2, PutcStep
      <4>3. CASE Insertc
        BY <4>1, <4>3, InsertcStep
      <4>4. CASE PutBlk
        BY <4>1, <4>4, PutBlkStep
      <4>5. CASE PutStr
        BY <4>1, <4>5, PutStrStep
      <4>6. CASE Fill
        BY <4>1, <4>6, FillStep
      <4>7. CASE Drain
        BY <4>1, <4>7, DrainStep
      <4>8. CASE Getc
        BY <4>1, <4>8, GetcStep
      <4>9. CASE GetBlk
        BY <4>1, <4>9, GetBlkStep
      <4>10. CASE AddNull \/ Compact \/ Reset \/ Grow
        BY <4>1, <4>10, KeepingStep
      <4>11. CASE Flush
        BY <4>1, <4>11, FlushStep
      <4>12. QED BY <3>3, <4>2, <4>3, <4>4, <4>5, <4>6, <4>7, <4>8, <4>9, <4>10, <4>11
    <3>4. QED BY <1>2, <3>1, <3>2, <3>3 DEF RingNext
  <2>2. QED BY <2>1 DEF Step, RingInv
<1>3. QED BY <1>1, <1>2

LEMMA RingInvariant == ASSUME RingAssumption PROVE RingSpec => []RingInv
<1>1. RingInit => RingInv
  BY InitMaps
<1>2. RingInv /\ [RingNext]_<<ring, io>> => RingInv'
  BY StepMaps
<1> HIDE DEF RingInv
<1>3. QED BY <1>1, <1>2, PTL DEF RingSpec

\* Whatever the calls and wherever the data lie in the memory, wrapped or
\* moved or copied to a larger block: what bufPutc, bufPutBlk, bufInsertc and
\* the callers of bufAdjustEnd put in comes out of bufGetc, bufGetBlk and
\* bufAdjustStart in its order, no byte lost, doubled or made up.
THEOREM RingIsSequence == ASSUME RingAssumption PROVE RingSpec => Sequence!Spec
<1>1. RingInit => Sequence!Init
  BY InitMaps
<1>2. RingInv /\ [RingNext]_<<ring, io>> => [Sequence!Next]_<<Contents(ring), io>>
  BY StepMaps
<1> HIDE DEF RingInv
<1>3. QED BY <1>1, <1>2, RingInvariant, PTL DEF RingSpec, Sequence!Spec

\* bufPutStr leaves its null byte behind the data even when the string went in
\* in part; bufPutBlk, bufPutStr and bufPutc tell of bytes that did not go in
\* only of a buffer that is full and may not grow.
THEOREM PutsAreTold ==
  ASSUME RingAssumption PROVE RingSpec => [](Terminated /\ ShortMeansFull)
<1>1. RingInv => Terminated /\ ShortMeansFull
  BY DEF RingInv
<1> HIDE DEF RingInv
<1>2. QED BY <1>1, RingInvariant, PTL
=============================================================================
