---------------------------- MODULE Dictionary_proof ----------------------------
(***************************************************************************)
(* Machine-checked proofs about Dictionary, for every set of keys, every   *)
(* hash function, every capacity and any order of the calls.               *)
(***************************************************************************)
EXTENDS Dictionary, TLAPS, WellFoundedInduction, FiniteSetTheorems

-----------------------------------------------------------------------------
LEMMA LeastOfNaturals ==
  ASSUME NEW T \in SUBSET Nat, T # {}
  PROVE  \E x \in T : \A y \in T : x <= y
<1> DEFINE R == {ss \in Nat \X Nat : ss[1] < ss[2]}
<1>1. IsWellFoundedOn(R, Nat)
  BY NatLessThanWellFounded DEF OpToRel
<1>2. PICK x \in T : \A y \in T : ~ (<<y, x>> \in R)
  <2> HIDE DEF R
  <2> QED BY <1>1, WFMin
<1>3. \A y \in T : ~ (y < x)
  BY <1>2
<1> QED BY <1>3

-----------------------------------------------------------------------------
(* Probing.  The buckets are probed in the order of their distances from   *)
(* the key's home, around the end of the table.                            *)

Distance(h, b, n) == IF h <= b THEN b - h ELSE b - h + n

LEMMA QuotientAndRemainder ==
  ASSUME NEW n \in Nat \ {0}, NEW x \in Nat
  PROVE  \E q \in Int : x = q * n + (x % n)
<1>1. x \div n \in Int /\ x = (x \div n) * n + (x % n)
  OBVIOUS
<1> QED BY <1>1

LEMMA RemainderIsUnique ==
  ASSUME NEW n \in Nat \ {0}, NEW q \in Int, NEW r \in 0 .. n - 1
  PROVE  (q * n + r) % n = r
<1> DEFINE x == q * n + r
           m == x % n
           d == x \div n
<1>1. x \in Int /\ m \in 0 .. n - 1 /\ d \in Int /\ x = n * d + m
  OBVIOUS
<1>2. (d - q) * n = r - m
  BY <1>1
<1>3. CASE d - q >= 1
  <2>1. (d - q) * n >= n
    BY <1>1, <1>3
  <2> QED BY <1>1, <1>2, <2>1
<1>4. CASE d - q <= -1
  <2>1. (d - q) * n <= 0 - n
    BY <1>1, <1>4
  <2> QED BY <1>1, <1>2, <2>1
<1>5. CASE d = q
  BY <1>1, <1>2, <1>5
<1> QED BY <1>1, <1>3, <1>4, <1>5

LEMMA Distances ==
  ASSUME NEW n \in Nat, NEW h \in 0 .. n - 1
  PROVE  /\ \A b \in 0 .. n - 1 : Distance(h, b, n) \in 0 .. n - 1
         /\ \A b, e \in 0 .. n - 1 : Distance(h, b, n) = Distance(h, e, n) => b = e
         /\ Distance(h, h, n) = 0
BY DEF Distance

LEMMA HomeInTable ==
  ASSUME NEW n \in Nat \ {0}, NEW k \in Key \cup {Void}
  PROVE  Home(k, n) \in 0 .. n - 1
BY DictionaryAssumption DEF Home

(* The d-th probe for k looks at the bucket at distance d.                 *)
LEMMA ProbeAtDistance ==
  ASSUME NEW n \in Nat \ {0}, NEW k \in Key \cup {Void}, NEW b \in 0 .. n - 1
  PROVE  \A d \in 0 .. n - 1 : (Hash[k] + d) % n = b <=> Distance(Home(k, n), b, n) = d
<1> DEFINE x == Hash[k]
           h == Home(k, n)
<1>1. x \in Nat /\ h = x % n /\ h \in 0 .. n - 1
  BY DictionaryAssumption DEF Home
<1> HIDE DEF x, h
<1>2. PICK q \in Int : x = q * n + h
  BY <1>1, QuotientAndRemainder
<1> SUFFICES ASSUME NEW d \in 0 .. n - 1
             PROVE  (x + d) % n = b <=> Distance(h, b, n) = d
  BY DEF x, h
<1>3. CASE h + d < n
  <2>1. x + d = q * n + (h + d) /\ h + d \in 0 .. n - 1
    BY <1>1, <1>2, <1>3
  <2>2. (x + d) % n = h + d
    BY <1>2, <2>1, RemainderIsUnique
  <2> QED BY <1>1, <1>3, <2>2 DEF Distance
<1>4. CASE h + d >= n
  <2>1. x + d = (q + 1) * n + (h + d - n) /\ h + d - n \in 0 .. n - 1 /\ q + 1 \in Int
    BY <1>1, <1>2, <1>4
  <2>2. (x + d) % n = h + d - n
    BY <2>1, RemainderIsUnique
  <2> QED BY <1>1, <1>4, <2>2 DEF Distance
<1> QED BY <1>1, <1>3, <1>4

-----------------------------------------------------------------------------
(* A search.  It ends at the first bucket on the key's way that stops it,  *)
(* and in a table in which every entry stops the search for its key there  *)
(* is no other entry for that key.                                         *)

Earlier(k, n, e, b) == Distance(Home(k, n), e, n) < Distance(Home(k, n), b, n)

StopsFirst(t, n, k, b) ==
  /\ b \in 0 .. n - 1 /\ Stops(t, k, b)
  /\ \A e \in 0 .. n - 1 : Earlier(k, n, e, b) => ~Stops(t, k, e)

EntriesReached(t, n) ==
  \A k \in Key, b \in 0 .. n - 1 : t[b].key = k => StopsFirst(t, n, k, b)

BoundIn(t, n, k) ==
  IF \E i \in 0 .. n - 1 : Stops(t, k, i) THEN t[Place(t, n, k)].value ELSE Void

LEMMA BoundReadsTheTable ==
  \A k \in Key : Bound(k) = BoundIn(entries, cap, k) /\ Bound(k)' = BoundIn(entries', cap', k)
BY DEF Bound, BoundIn, Place, Stops, Empty

LEMMA PlaceIsFirst ==
  ASSUME NEW n \in Nat \ {0}, NEW k \in Key \cup {Void}, NEW t, NEW b, StopsFirst(t, n, k, b)
  PROVE  Place(t, n, k) = b
<1> DEFINE h == Home(k, n)
           x == Hash[k]
           d == Distance(h, b, n)
           Halts(c) == /\ Stops(t, k, (x + c) % n)
                      /\ \A e \in 0 .. c - 1 : ~Stops(t, k, (x + e) % n)
<1>1. b \in 0 .. n - 1 /\ h \in 0 .. n - 1 /\ d \in 0 .. n - 1
  BY HomeInTable, Distances DEF StopsFirst
<1>2. (x + d) % n = b
  BY <1>1, ProbeAtDistance
<1>3. ASSUME NEW e \in 0 .. n - 1
      PROVE  /\ (x + e) % n \in 0 .. n - 1
             /\ Distance(h, (x + e) % n, n) = e
  <2>1. x + e \in Nat
    BY DictionaryAssumption
  <2>2. (x + e) % n \in 0 .. n - 1
    <3> HIDE DEF x
    <3> QED BY <2>1
  <2> QED BY <2>2, ProbeAtDistance
<1>4. ASSUME NEW e \in 0 .. d - 1 PROVE ~Stops(t, k, (x + e) % n)
  <2>1. e \in 0 .. n - 1 /\ e < d
    BY <1>1, <1>4
  <2>2. Earlier(k, n, (x + e) % n, b)
    BY <1>3, <2>1 DEF Earlier
  <2> QED BY <1>3, <2>1, <2>2 DEF StopsFirst
<1>5. Halts(d)
  BY <1>2, <1>4 DEF StopsFirst
<1>6. ASSUME NEW c \in 0 .. n - 1, Halts(c) PROVE c = d
  <2>1. ~(d \in 0 .. c - 1)
    BY <1>5, <1>6
  <2>2. ~(c \in 0 .. d - 1)
    BY <1>5, <1>6
  <2> HIDE DEF d
  <2> QED BY <1>1, <2>1, <2>2
<1> HIDE DEF Halts, d
<1>7. (CHOOSE c \in 0 .. n - 1 : Halts(c)) = d
  BY <1>1, <1>5, <1>6
<1>8. Place(t, n, k) = (x + d) % n
  BY <1>7 DEF Place, Halts
<1> QED BY <1>2, <1>8

LEMMA SomeStopsFirst ==
  ASSUME NEW n \in Nat \ {0}, NEW k \in Key \cup {Void}, NEW t, NEW i \in 0 .. n - 1, Stops(t, k, i)
  PROVE  \E b : StopsFirst(t, n, k, b)
<1> DEFINE h == Home(k, n)
           T == {Distance(h, j, n) : j \in {j \in 0 .. n - 1 : Stops(t, k, j)}}
<1>1. h \in 0 .. n - 1
  BY HomeInTable
<1> HIDE DEF h
<1>2. T \in SUBSET Nat /\ T # {}
  BY <1>1, Distances
<1>3. PICK x \in T : \A y \in T : x <= y
  BY <1>2, LeastOfNaturals
<1>4. PICK b \in 0 .. n - 1 : Stops(t, k, b) /\ x = Distance(h, b, n)
  BY <1>3
<1>5. ASSUME NEW e \in 0 .. n - 1, Distance(h, e, n) < Distance(h, b, n), Stops(t, k, e)
      PROVE  FALSE
  <2>1. Distance(h, e, n) \in T
    BY <1>5
  <2>2. Distance(h, b, n) <= Distance(h, e, n)
    BY <1>3, <1>4, <2>1
  <2> QED BY <1>1, <1>5, <2>2, Distances
<1> QED BY <1>4, <1>5 DEF StopsFirst, Earlier, h

(* What a search finds is the value of the key's entry, or void.           *)
LEMMA EntryIsBound ==
  ASSUME NEW n \in Nat \ {0}, NEW t, EntriesReached(t, n), NEW k \in Key,
         NEW b \in 0 .. n - 1, t[b].key = k
  PROVE  BoundIn(t, n, k) = t[b].value
<1>1. StopsFirst(t, n, k, b)
  BY DEF EntriesReached
<1> QED BY <1>1, PlaceIsFirst DEF BoundIn, StopsFirst

LEMMA OtherwiseVoid ==
  ASSUME NEW n \in Nat \ {0}, NEW t, NEW k \in Key, \A b \in 0 .. n - 1 : t[b].key # k
  PROVE  BoundIn(t, n, k) = Void
<1>1. CASE \E i \in 0 .. n - 1 : Stops(t, k, i)
  <2>1. PICK b : StopsFirst(t, n, k, b)
    BY <1>1, SomeStopsFirst
  <2>2. t[b] = Empty /\ Place(t, n, k) = b
    BY <2>1, PlaceIsFirst DEF StopsFirst, Stops
  <2> QED BY <1>1, <2>2 DEF BoundIn, Empty
<1>2. CASE ~\E i \in 0 .. n - 1 : Stops(t, k, i)
  BY <1>2 DEF BoundIn
<1> QED BY <1>1, <1>2

(* Two tables with the same entries for k bind it alike, whatever their    *)
(* capacities.                                                             *)
LEMMA SameEntriesBindAlike ==
  ASSUME NEW n \in Nat \ {0}, NEW m \in Nat \ {0}, NEW t, NEW u,
         EntriesReached(t, n), EntriesReached(u, m), NEW k \in Key,
         \A b \in 0 .. n - 1 : t[b].key = k => \E c \in 0 .. m - 1 : u[c] = t[b],
         \A c \in 0 .. m - 1 : u[c].key = k => \E b \in 0 .. n - 1 : t[b] = u[c]
  PROVE  BoundIn(t, n, k) = BoundIn(u, m, k)
<1>1. CASE \E b \in 0 .. n - 1 : t[b].key = k
  <2>1. PICK b \in 0 .. n - 1 : t[b].key = k
    BY <1>1
  <2>2. PICK c \in 0 .. m - 1 : u[c] = t[b]
    BY <2>1
  <2>3. BoundIn(t, n, k) = t[b].value
    BY <2>1, EntryIsBound
  <2>4. BoundIn(u, m, k) = u[c].value
    BY <2>1, <2>2, EntryIsBound
  <2> QED BY <2>2, <2>3, <2>4
<1>2. CASE \A b \in 0 .. n - 1 : t[b].key # k
  <2>1. \A c \in 0 .. m - 1 : u[c].key # k
    BY <1>2
  <2>2. BoundIn(t, n, k) = Void
    BY <1>2, OtherwiseVoid
  <2>3. BoundIn(u, m, k) = Void
    BY <2>1, OtherwiseVoid
  <2> QED BY <2>2, <2>3
<1> QED BY <1>1, <1>2

(* Writing where the search for k ends keeps every entry where a search    *)
(* finds it, unless it empties the bucket.                                 *)
LEMMA WritingKeepsEntries ==
  ASSUME NEW n \in Nat \ {0}, NEW t \in [0 .. n - 1 -> Entry], EntriesReached(t, n),
         NEW k \in Key \cup {Void}, NEW b, StopsFirst(t, n, k, b),
         NEW new \in Entry, new # Empty, new.key \in {k, Void}
  PROVE  EntriesReached([t EXCEPT ![b] = new], n)
<1> DEFINE u == [t EXCEPT ![b] = new]
<1>1. b \in 0 .. n - 1
  BY DEF StopsFirst
<1>2. u[b] = new /\ \A e \in 0 .. n - 1 : e # b => u[e] = t[e]
  BY <1>1
<1> HIDE DEF u
<1> SUFFICES ASSUME NEW j \in Key, NEW c \in 0 .. n - 1, u[c].key = j
             PROVE  StopsFirst(u, n, j, c)
  BY DEF EntriesReached, u
<1>0. j # Void /\ j \in Key \cup {Void}
  BY DictionaryAssumption
<1>3. Stops(u, j, c)
  BY DEF Stops
<1> SUFFICES ASSUME NEW e \in 0 .. n - 1, Earlier(j, n, e, c) PROVE ~Stops(u, j, e)
  BY <1>3 DEF StopsFirst
<1>4. CASE c = b
  <2>1. j = k
    BY <1>0, <1>2, <1>4
  <2>2. ~Stops(t, k, e)
    BY <1>4, <2>1 DEF StopsFirst
  <2>3. e # b
    <3>1. Distance(Home(j, n), c, n) \in Int
      BY <1>0, HomeInTable, Distances
    <3> QED BY <1>4, <3>1 DEF Earlier
  <2> QED BY <1>2, <2>1, <2>2, <2>3 DEF Stops
<1>5. CASE c # b
  <2>1. t[c].key = j
    BY <1>2, <1>5
  <2>2. StopsFirst(t, n, j, c)
    BY <2>1 DEF EntriesReached
  <2>3. CASE e # b
    BY <1>2, <2>2, <2>3 DEF StopsFirst, Stops
  <2>4. CASE e = b
    <3>1. new.key # j
      <4> SUFFICES ASSUME j = k PROVE FALSE
        BY <1>0
      <4>1. Place(t, n, k) = b /\ Place(t, n, k) = c
        BY <2>2, PlaceIsFirst
      <4> QED BY <1>5, <4>1
    <3> QED BY <1>2, <2>4, <3>1 DEF Stops
  <2> QED BY <2>3, <2>4
<1> QED BY <1>4, <1>5

-----------------------------------------------------------------------------
(* Growing.  The recursive function of obj_dct_resize has the values that  *)
(* its equation says, and each of them is a table that has room.           *)

Fresh(n) == [b \in 0 .. n - 1 |-> Empty]
Moved(t, n, r, i) ==
  IF t[i - 1].key = Void THEN r ELSE [r EXCEPT ![Place(r, n, t[i - 1].key)] = t[i - 1]]

Rehashes(t, n, r, j) == r = [i \in 0 .. j |-> IF i = 0 THEN Fresh(n) ELSE Moved(t, n, r[i - 1], i)]

LEMMA RehashExists ==
  ASSUME NEW c \in Nat, NEW t, NEW n
  PROVE  \E r : Rehashes(t, n, r, c)
<1> DEFINE T == {j \in Nat : ~\E r : Rehashes(t, n, r, j)}
<1> SUFFICES ASSUME T # {} PROVE FALSE
  OBVIOUS
<1>1. PICK j \in T : \A i \in T : j <= i
  <2>1. T \in SUBSET Nat
    OBVIOUS
  <2> HIDE DEF T
  <2> QED BY <2>1, LeastOfNaturals
<1>2. CASE j = 0
  <2> DEFINE r == [i \in 0 .. 0 |-> Fresh(n)]
  <2>1. Rehashes(t, n, r, 0)
    BY DEF Rehashes
  <2> QED BY <1>2, <2>1
<1>3. CASE j # 0
  <2>1. j \in Nat /\ j - 1 \in Nat /\ j - 1 \notin T
    BY <1>1, <1>3
  <2>2. PICK g : Rehashes(t, n, g, j - 1)
    BY <2>1
  <2> DEFINE f == [i \in 0 .. j |-> IF i = j THEN Moved(t, n, g[j - 1], j) ELSE g[i]]
  <2>3. ASSUME NEW i \in 0 .. j
        PROVE  f[i] = IF i = 0 THEN Fresh(n) ELSE Moved(t, n, f[i - 1], i)
    <3>1. CASE i = j
      <4>1. f[j] = Moved(t, n, g[j - 1], j) /\ f[j - 1] = g[j - 1]
        BY <2>1
      <4> QED BY <1>3, <3>1, <4>1
    <3>2. CASE i # j
      <4>1. i \in 0 .. j - 1 /\ f[i] = g[i]
        BY <2>1, <2>3, <3>2
      <4>2. g[i] = IF i = 0 THEN Fresh(n) ELSE Moved(t, n, g[i - 1], i)
        BY <2>2, <4>1 DEF Rehashes
      <4>3. i # 0 => f[i - 1] = g[i - 1]
        BY <2>1, <2>3, <3>2
      <4> QED BY <4>1, <4>2, <4>3
    <3> QED BY <3>1, <3>2
  <2>4. f = [i \in 0 .. j |-> IF i = 0 THEN Fresh(n) ELSE Moved(t, n, f[i - 1], i)]
    <3>1. f = [i \in 0 .. j |-> f[i]]
      OBVIOUS
    <3> HIDE DEF f
    <3> QED BY <2>3, <3>1
  <2> HIDE DEF f
  <2>5. Rehashes(t, n, f, j)
    BY <2>4 DEF Rehashes
  <2> QED BY <1>1, <2>5
<1> QED BY <1>2, <1>3

LEMMA ResizeRehashes ==
  ASSUME NEW n, cap \in Nat, obj_dct_resize(n)
  PROVE  cap' = n /\ \E r : Rehashes(entries, n, r, cap) /\ entries' = r[cap]
<1> DEFINE r == CHOOSE r : Rehashes(entries, n, r, cap)
<1>1. Rehashes(entries, n, r, cap)
  BY RehashExists
<1>2. cap' = n /\ entries' = r[cap]
  BY DEF obj_dct_resize, Rehashes, Fresh, Moved
<1> QED BY <1>1, <1>2

(* What moving the first i buckets of t makes of an empty table of twice   *)
(* as many.                                                                *)
Used(r, n) == {b \in 0 .. n - 1 : r[b] # Empty}
Holds(t, n, r, i) ==
  /\ r \in [0 .. n - 1 -> Entry]
  /\ EntriesReached(r, n)
  /\ IsFiniteSet(Used(r, n)) /\ Cardinality(Used(r, n)) <= i
  /\ \A j \in 0 .. i - 1 : t[j].key # Void => \E b \in 0 .. n - 1 : r[b] = t[j]
  /\ \A b \in 0 .. n - 1 : r[b].key # Void => \E j \in 0 .. i - 1 : t[j] = r[b]

LEMMA OneEntryEach ==
  ASSUME NEW n \in Nat \ {0}, NEW t, EntriesReached(t, n), NEW k \in Key,
         NEW b \in 0 .. n - 1, NEW c \in 0 .. n - 1, t[b].key = k, t[c].key = k
  PROVE  b = c
<1>1. StopsFirst(t, n, k, b) /\ StopsFirst(t, n, k, c)
  BY DEF EntriesReached
<1>2. Place(t, n, k) = b
  BY <1>1, PlaceIsFirst
<1>3. Place(t, n, k) = c
  BY <1>1, PlaceIsFirst
<1> QED BY <1>2, <1>3

LEMMA FreshHolds ==
  ASSUME NEW n \in Nat, NEW t
  PROVE  Holds(t, n, Fresh(n), 0)
<1>1. Empty \in Entry /\ Empty.key = Void
  BY DictionaryAssumption DEF Empty, Entry
<1>2. Fresh(n) \in [0 .. n - 1 -> Entry] /\ \A b \in 0 .. n - 1 : Fresh(n)[b] = Empty
  BY <1>1 DEF Fresh
<1>3. EntriesReached(Fresh(n), n)
  BY <1>1, <1>2, DictionaryAssumption DEF EntriesReached
<1>4. Used(Fresh(n), n) = {}
  BY <1>2 DEF Used
<1>5. IsFiniteSet(Used(Fresh(n), n)) /\ Cardinality(Used(Fresh(n), n)) <= 0
  BY <1>4, FS_EmptySet
<1> QED BY <1>1, <1>2, <1>3, <1>5 DEF Holds

LEMMA MovedHolds ==
  ASSUME NEW c \in Nat, NEW n \in Nat, c < n, NEW t \in [0 .. c - 1 -> Entry], EntriesReached(t, c),
         NEW i \in 1 .. c, NEW r, Holds(t, n, r, i - 1)
  PROVE  Holds(t, n, Moved(t, n, r, i), i)
<1> DEFINE e == t[i - 1]
           k == e.key
<1>1. /\ c \in Nat \ {0} /\ n \in Nat \ {0} /\ i \in Nat /\ i - 1 \in 0 .. c - 1 /\ i - 1 \in Nat /\ i - 1 < n
      /\ e \in Entry /\ 0 .. i - 1 = (0 .. (i - 1) - 1) \cup {i - 1}
      /\ \A j \in 0 .. (i - 1) - 1 : j \in 0 .. c - 1 /\ j # i - 1
  OBVIOUS
<1>2. /\ r \in [0 .. n - 1 -> Entry] /\ EntriesReached(r, n)
      /\ IsFiniteSet(Used(r, n)) /\ Cardinality(Used(r, n)) <= i - 1
      /\ \A j \in 0 .. (i - 1) - 1 : t[j].key # Void => \E b \in 0 .. n - 1 : r[b] = t[j]
      /\ \A b \in 0 .. n - 1 : r[b].key # Void => \E j \in 0 .. (i - 1) - 1 : t[j] = r[b]
  BY DEF Holds
<1>3. Cardinality(Used(r, n)) \in Nat
  BY <1>2, FS_CardinalityType
<1>4. CASE k = Void
  <2>1. Moved(t, n, r, i) = r
    BY <1>4 DEF Moved
  <2>2. Cardinality(Used(r, n)) <= i
    BY <1>1, <1>2, <1>3
  <2> HIDE DEF k
  <2>3. \A j \in 0 .. i - 1 : t[j].key # Void => \E b \in 0 .. n - 1 : r[b] = t[j]
    BY <1>1, <1>2, <1>4 DEF k
  <2>4. \A b \in 0 .. n - 1 : r[b].key # Void => \E j \in 0 .. i - 1 : t[j] = r[b]
    BY <1>1, <1>2
  <2> QED BY <1>2, <2>1, <2>2, <2>3, <2>4 DEF Holds
<1>5. CASE k # Void
  <2>1. k \in Key
    BY <1>1, <1>5 DEF Entry
  <2>2. ASSUME NEW b \in 0 .. n - 1 PROVE r[b].key # k
    <3> SUFFICES ASSUME r[b].key = k PROVE FALSE
      OBVIOUS
    <3>1. PICK j \in 0 .. (i - 1) - 1 : t[j] = r[b]
      BY <1>2, <1>5
    <3>2. j \in 0 .. c - 1 /\ j # i - 1 /\ t[j].key = k
      BY <1>1, <3>1
    <3> HIDE DEF k
    <3>3. t[i - 1].key = k
      BY DEF k
    <3> QED BY <1>1, <2>1, <3>2, <3>3, OneEntryEach
  <2>3. PICK f \in 0 .. n - 1 : r[f] = Empty
    <3> SUFFICES ASSUME \A f \in 0 .. n - 1 : r[f] # Empty PROVE FALSE
      OBVIOUS
    <3>1. Used(r, n) = 0 .. n - 1
      BY DEF Used
    <3>2. Cardinality(0 .. n - 1) = n
      <4>1. 0 \in Int /\ n - 1 \in Int /\ ~(0 > n - 1) /\ n - 1 - 0 + 1 = n
        BY <1>1
      <4> QED BY <4>1, FS_Interval
    <3> QED BY <1>1, <1>2, <3>1, <3>2
  <2>4. Stops(r, k, f)
    BY <2>3 DEF Stops
  <2>5. PICK b : StopsFirst(r, n, k, b)
    <3> HIDE DEF k
    <3> QED BY <1>1, <2>1, <2>4, SomeStopsFirst
  <2>6. b \in 0 .. n - 1 /\ Place(r, n, k) = b /\ r[b] = Empty
    <3> HIDE DEF k
    <3>1. b \in 0 .. n - 1 /\ Stops(r, k, b)
      BY <2>5 DEF StopsFirst
    <3>2. r[b] = Empty
      BY <2>2, <3>1 DEF Stops
    <3> QED BY <1>1, <2>1, <2>5, <3>1, <3>2, PlaceIsFirst
  <2> DEFINE u == [r EXCEPT ![b] = e]
  <2>7. Moved(t, n, r, i) = u
    BY <1>5, <2>6 DEF Moved
  <2>8. u \in [0 .. n - 1 -> Entry] /\ u[b] = e /\ \A d \in 0 .. n - 1 : d # b => u[d] = r[d]
    BY <1>1, <1>2, <2>6
  <2>9. e # Empty
    BY <1>5 DEF Empty
  <2>10. EntriesReached(u, n)
    <3>1. e.key \in {k, Void}
      OBVIOUS
    <3> HIDE DEF e, k
    <3> QED BY <1>1, <1>2, <2>1, <2>5, <2>9, <3>1, WritingKeepsEntries
  <2> HIDE DEF u, e
  <2>11. Used(u, n) = Used(r, n) \cup {b} /\ b \notin Used(r, n)
    BY <2>6, <2>8, <2>9 DEF Used
  <2>12. IsFiniteSet(Used(u, n)) /\ Cardinality(Used(u, n)) = Cardinality(Used(r, n)) + 1
    BY <1>2, <2>11, FS_AddElement
  <2>13. Cardinality(Used(u, n)) <= i
    BY <1>1, <1>2, <1>3, <2>12
  <2>14. \A j \in 0 .. i - 1 : t[j].key # Void => \E d \in 0 .. n - 1 : u[d] = t[j]
    <3> SUFFICES ASSUME NEW j \in 0 .. i - 1, t[j].key # Void PROVE \E d \in 0 .. n - 1 : u[d] = t[j]
      OBVIOUS
    <3>1. CASE j = i - 1
      BY <2>6, <2>8, <3>1 DEF e
    <3>2. CASE j # i - 1
      <4>1. PICK d \in 0 .. n - 1 : r[d] = t[j]
        BY <1>1, <1>2, <3>2
      <4>2. d # b
        BY <2>6, <4>1 DEF Empty
      <4> QED BY <2>8, <4>1, <4>2
    <3> QED BY <3>1, <3>2
  <2>15. \A d \in 0 .. n - 1 : u[d].key # Void => \E j \in 0 .. i - 1 : t[j] = u[d]
    <3> SUFFICES ASSUME NEW d \in 0 .. n - 1, u[d].key # Void PROVE \E j \in 0 .. i - 1 : t[j] = u[d]
      OBVIOUS
    <3>1. CASE d = b
      BY <1>1, <2>8, <3>1 DEF e
    <3>2. CASE d # b
      BY <1>1, <1>2, <2>8, <3>2
    <3> QED BY <3>1, <3>2
  <2> QED BY <2>7, <2>8, <2>10, <2>12, <2>13, <2>14, <2>15 DEF Holds
<1> QED BY <1>4, <1>5

LEMMA RehashHolds ==
  ASSUME NEW c \in Nat, NEW n \in Nat, c < n, NEW t \in [0 .. c - 1 -> Entry], EntriesReached(t, c),
         NEW r, Rehashes(t, n, r, c)
  PROVE  Holds(t, n, r[c], c)
<1> DEFINE T == {i \in 0 .. c : ~Holds(t, n, r[i], i)}
<1> SUFFICES ASSUME T # {} PROVE FALSE
  OBVIOUS
<1>1. PICK i \in T : \A j \in T : i <= j
  <2>1. T \in SUBSET Nat
    OBVIOUS
  <2> HIDE DEF T
  <2> QED BY <2>1, LeastOfNaturals
<1>2. i \in 0 .. c /\ ~Holds(t, n, r[i], i) /\ \A j \in 0 .. c : j < i => Holds(t, n, r[j], j)
  BY <1>1
<1>3. r[i] = IF i = 0 THEN Fresh(n) ELSE Moved(t, n, r[i - 1], i)
  BY <1>2 DEF Rehashes
<1>4. CASE i = 0
  BY <1>2, <1>3, <1>4, FreshHolds
<1>5. CASE i # 0
  <2>1. i \in 1 .. c /\ i - 1 \in 0 .. c /\ i - 1 < i
    BY <1>2, <1>5
  <2>2. Holds(t, n, r[i - 1], i - 1)
    BY <1>2, <2>1
  <2> QED BY <1>2, <1>3, <1>5, <2>1, <2>2, MovedHolds
<1> QED BY <1>4, <1>5

(* A table keeps what it binds when it grows. *)
LEMMA GrowingBindsAlike ==
  ASSUME cap \in Nat \ {0}, entries \in [0 .. cap - 1 -> Entry], EntriesReached(entries, cap),
         NEW n \in Nat, cap < n, obj_dct_resize(n)
  PROVE  /\ cap' = n /\ entries' \in [0 .. n - 1 -> Entry] /\ EntriesReached(entries', n)
         /\ \A k \in Key : Bound(k)' = Bound(k)
<1> DEFINE t == entries
           u == entries'
           c == cap
<1>1. PICK r : Rehashes(entries, n, r, cap) /\ entries' = r[cap]
  BY ResizeRehashes
<1>2. cap' = n
  BY DEF obj_dct_resize
<1> HIDE DEF t, u, c
<1>3. Holds(t, n, u, c)
  BY <1>1, RehashHolds DEF t, u, c
<1>4. u \in [0 .. n - 1 -> Entry] /\ EntriesReached(u, n)
  BY <1>3 DEF Holds
<1>5. ASSUME NEW k \in Key PROVE BoundIn(t, c, k) = BoundIn(u, n, k)
  <2>1. \A b \in 0 .. c - 1 : t[b].key = k => \E d \in 0 .. n - 1 : u[d] = t[b]
    BY <1>3, DictionaryAssumption DEF Holds
  <2>2. \A d \in 0 .. n - 1 : u[d].key = k => \E b \in 0 .. c - 1 : t[b] = u[d]
    BY <1>3, DictionaryAssumption DEF Holds
  <2>3. c \in Nat \ {0} /\ n \in Nat \ {0} /\ EntriesReached(t, c)
    BY DEF c, t
  <2>4. EntriesReached(u, n)
    BY <1>4
  <2> QED BY <2>1, <2>2, <2>3, <2>4, SameEntriesBindAlike
<1> QED BY <1>2, <1>4, <1>5, BoundReadsTheTable DEF t, u, c

-----------------------------------------------------------------------------
(* The invariant.  A probing call has come from its key's home over        *)
(* buckets that did not stop it; only storing void under void empties a    *)
(* bucket, and that is the last call.                                      *)

ProbedInOrder ==
  call # None =>
    \A e \in 0 .. cap - 1 : Earlier(call.key, cap, e, bucket) => ~Stops(entries, call.key, e)

OnlyInsertsWhileMerging ==
  merging # <<>> /\ call # None => call.f = "insert" /\ call.key \in Key

IInv ==
  /\ DictTypeOK
  /\ spoiled => call = None /\ merging = <<>>
  /\ ~spoiled => EntriesReached(entries, cap)
  /\ ProbedInOrder
  /\ OnlyInsertsWhileMerging

LEMMA InitIInv == Init => IInv
<1> SUFFICES ASSUME Init PROVE IInv
  OBVIOUS
<1>1. cap = 4 /\ entries = Fresh(4) /\ call = None /\ merging = <<>> /\ spoiled = FALSE /\ ret = Void
  BY DEF Init, GROW_CAP, Fresh
<1>2. Holds(entries, 4, Fresh(4), 0)
  BY FreshHolds
<1>3. entries \in [0 .. 4 - 1 -> Entry] /\ EntriesReached(entries, 4)
  BY <1>1, <1>2 DEF Holds
<1>4. DictTypeOK
  <2>1. entries \in [0 .. cap - 1 -> Entry] /\ cap \in Nat /\ cap >= 4
    BY <1>1, <1>3
  <2>2. ret \in Value /\ spoiled \in BOOLEAN
    BY <1>1, DictionaryAssumption
  <2>3. merging \in Seq(Key \X Value)
    <3> DEFINE S == Key \X Value
    <3>1. <<>> \in Seq(S)
      OBVIOUS
    <3> QED BY <1>1, <3>1
  <2> QED BY <1>1, <2>1, <2>2, <2>3 DEF DictTypeOK
<1> QED BY <1>1, <1>3, <1>4 DEF IInv, ProbedInOrder, OnlyInsertsWhileMerging

LEMMA TypeFacts ==
  ASSUME IInv
  PROVE  /\ cap \in Nat \ {0} /\ cap >= 4 /\ entries \in [0 .. cap - 1 -> Entry]
         /\ merging \in Seq(Key \X Value) /\ ret \in Value
         /\ call # None => /\ ~spoiled /\ EntriesReached(entries, cap) /\ bucket \in 0 .. cap - 1
                           /\ call \in Call /\ call.key \in Key \cup {Void} /\ call.value \in Value
                           /\ call.f \in {"insert", "get", "delete"} /\ entries[bucket] \in Entry
BY DEF IInv, DictTypeOK, Call

(* The start of a call leaves the table alone: obj_dct_insert never grows  *)
(* it, because len stays 0.                                                *)
LEMMA InsertNeverGrows ==
  ASSUME IInv, NEW k, NEW v, InsertStarts(k, v)
  PROVE  UNCHANGED table /\ Starts("insert", k, v)
<1>1. ~OverLoad(cap)
  BY TypeFacts DEF OverLoad, Length
<1> QED BY <1>1 DEF InsertStarts

LEMMA StartsIInv ==
  ASSUME IInv, ~spoiled, UNCHANGED table, NEW f \in {"insert", "get", "delete"},
         NEW k \in Key \cup {Void}, NEW v \in Value, Starts(f, k, v),
         merging' \in Seq(Key \X Value), merging' # <<>> => f = "insert" /\ k \in Key
  PROVE  IInv'
<1>1. /\ cap' = cap /\ entries' = entries /\ ret' = ret /\ spoiled' = spoiled
      /\ call' = [f |-> f, key |-> k, value |-> v] /\ bucket' = Home(k, cap)
  BY DEF Starts, table
<1>2. call' \in Call /\ bucket' \in 0 .. cap - 1
  BY <1>1, TypeFacts, HomeInTable DEF Call
<1>3. DictTypeOK'
  BY <1>1, <1>2 DEF IInv, DictTypeOK
<1>4. \A e \in 0 .. cap - 1 : ~Earlier(k, cap, e, bucket')
  <2> DEFINE h == Home(k, cap)
  <2>1. cap \in Nat \ {0} /\ h \in 0 .. cap - 1
    BY TypeFacts, HomeInTable
  <2> HIDE DEF h
  <2>2. Distance(h, h, cap) = 0 /\ \A e \in 0 .. cap - 1 : Distance(h, e, cap) \in 0 .. cap - 1
    BY <2>1, Distances
  <2> QED BY <1>1, <2>1, <2>2 DEF Earlier, h
<1>5. ProbedInOrder'
  BY <1>1, <1>4 DEF ProbedInOrder
<1>6. OnlyInsertsWhileMerging'
  BY <1>1 DEF OnlyInsertsWhileMerging
<1> QED BY <1>1, <1>3, <1>5, <1>6 DEF IInv

LEMMA MergeIInv ==
  ASSUME IInv, NEW with \in With, obj_dct_merge(with)
  PROVE  IInv' /\ \A k \in Key : Bound(k)' = Bound(k)
<1>1. /\ call = None /\ ~spoiled /\ obj_dct_resize(GROW_CAP(cap + Length)) /\ merging' = with
      /\ UNCHANGED <<call, bucket, ret, spoiled>>
  BY DEF obj_dct_merge, Idle
<1>2. GROW_CAP(cap + Length) = 2 * cap /\ 2 * cap \in Nat /\ cap < 2 * cap /\ 2 * cap >= 4
  BY TypeFacts DEF GROW_CAP, Length
<1>3. obj_dct_resize(2 * cap)
  BY <1>1, <1>2
<1>4. /\ cap' = 2 * cap /\ entries' \in [0 .. 2 * cap - 1 -> Entry] /\ EntriesReached(entries', 2 * cap)
      /\ \A k \in Key : Bound(k)' = Bound(k)
  <2> DEFINE n == 2 * cap
  <2>1. n \in Nat /\ cap < n /\ obj_dct_resize(n) /\ EntriesReached(entries, cap)
    BY <1>1, <1>2, <1>3 DEF IInv
  <2> HIDE DEF n
  <2>2. /\ cap' = n /\ entries' \in [0 .. n - 1 -> Entry] /\ EntriesReached(entries', n)
        /\ \A k \in Key : Bound(k)' = Bound(k)
    BY <2>1, TypeFacts, GrowingBindsAlike
  <2> QED BY <2>2 DEF n
<1>5. merging' \in Seq(Key \X Value)
  BY <1>1, DictionaryAssumption
<1>6. DictTypeOK'
  BY <1>1, <1>2, <1>4, <1>5 DEF IInv, DictTypeOK
<1>7. EntriesReached(entries, cap)'
  BY <1>4 DEF EntriesReached, StopsFirst, Stops, Earlier, Distance, Home, Empty
<1>8. ProbedInOrder' /\ OnlyInsertsWhileMerging'
  BY <1>1 DEF ProbedInOrder, OnlyInsertsWhileMerging
<1> QED BY <1>1, <1>4, <1>6, <1>7, <1>8 DEF IInv

LEMMA ProbeIInv ==
  ASSUME IInv, Probe
  PROVE  IInv'
<1> DEFINE h == Home(call.key, cap)
<1>1. /\ call # None /\ ~Found /\ cap' = cap /\ entries' = entries /\ call' = call
      /\ ret' = ret /\ merging' = merging /\ spoiled' = spoiled
      /\ bucket' = IF bucket + 1 = cap THEN 0 ELSE bucket + 1
  BY DEF Probe, NextBucket, table
<1>2. /\ cap \in Nat \ {0} /\ bucket \in 0 .. cap - 1 /\ h \in 0 .. cap - 1
      /\ bucket' \in 0 .. cap - 1
  <2>1. cap \in Nat \ {0} /\ bucket \in 0 .. cap - 1 /\ h \in 0 .. cap - 1
    BY <1>1, TypeFacts, HomeInTable
  <2> HIDE DEF h
  <2> QED BY <1>1, <2>1
<1>3. DictTypeOK'
  BY <1>1, <1>2 DEF IInv, DictTypeOK
<1> HIDE DEF h
<1>d. /\ \A b \in 0 .. cap - 1 : Distance(h, b, cap) \in Int
      /\ \A b, e \in 0 .. cap - 1 : Distance(h, b, cap) = Distance(h, e, cap) => b = e
  BY <1>2, Distances
<1>4. ASSUME NEW e \in 0 .. cap - 1, Distance(h, e, cap) < Distance(h, bucket', cap)
      PROVE  ~Stops(entries, call.key, e)
  <2>1. Distance(h, bucket', cap) <= Distance(h, bucket, cap) + 1
    BY <1>1, <1>2 DEF Distance
  <2>2. CASE e = bucket
    BY <1>1, <2>2 DEF Found
  <2>3. CASE e # bucket
    <3>1. /\ Distance(h, e, cap) \in Int /\ Distance(h, bucket, cap) \in Int /\ Distance(h, bucket', cap) \in Int
          /\ Distance(h, e, cap) # Distance(h, bucket, cap)
      BY <1>2, <1>d, <2>3
    <3>2. Earlier(call.key, cap, e, bucket)
      BY <1>4, <2>1, <3>1 DEF Earlier, h
    <3> QED BY <1>1, <3>2 DEF IInv, ProbedInOrder
  <2> QED BY <2>2, <2>3
<1>5. ProbedInOrder'
  BY <1>1, <1>4 DEF ProbedInOrder, Earlier, h, Stops, Distance, Home, Empty
<1>6. OnlyInsertsWhileMerging'
  BY <1>1 DEF IInv, OnlyInsertsWhileMerging
<1>7. ~spoiled /\ EntriesReached(entries, cap)
  BY <1>1, TypeFacts
<1>8. EntriesReached(entries, cap)'
  BY <1>1, <1>7 DEF EntriesReached, StopsFirst, Stops, Earlier, Distance, Home, Empty
<1> QED BY <1>1, <1>3, <1>5, <1>6, <1>7, <1>8 DEF IInv

(* A call that ends has come to the first bucket that stops it.            *)
LEMMA EndsAtFirst ==
  ASSUME IInv, call # None, Found
  PROVE  StopsFirst(entries, cap, call.key, bucket)
BY TypeFacts DEF IInv, ProbedInOrder, StopsFirst, Found

(* The last step of a call that leaves the table alone, writes its bucket  *)
(* or empties it.                                                          *)
Writes(new) ==
  /\ entries' = [entries EXCEPT ![bucket] = new]
  /\ new \in Entry /\ new # Empty /\ new.key \in {call.key, Void}

LEMMA WritesFacts ==
  ASSUME IInv, call # None, Found, cap' = cap, NEW new, Writes(new)
  PROVE  /\ entries' \in [0 .. cap - 1 -> Entry] /\ EntriesReached(entries', cap)
         /\ entries'[bucket] = new /\ \A b \in 0 .. cap - 1 : b # bucket => entries'[b] = entries[b]
<1> DEFINE k == call.key
           t == entries
           b == bucket
           n == cap
<1>1. /\ n \in Nat \ {0} /\ t \in [0 .. n - 1 -> Entry] /\ EntriesReached(t, n) /\ b \in 0 .. n - 1
      /\ k \in Key \cup {Void} /\ StopsFirst(t, n, k, b)
  BY TypeFacts, EndsAtFirst
<1>2. new \in Entry /\ new # Empty /\ new.key \in {k, Void} /\ entries' = [t EXCEPT ![b] = new]
  BY DEF Writes
<1> HIDE DEF k, t, b, n
<1>3. EntriesReached([t EXCEPT ![b] = new], n)
  BY <1>1, <1>2, WritingKeepsEntries
<1>4. /\ entries' \in [0 .. n - 1 -> Entry] /\ entries'[b] = new
      /\ \A c \in 0 .. n - 1 : c # b => entries'[c] = t[c]
  BY <1>1, <1>2
<1> QED BY <1>2, <1>3, <1>4 DEF t, b, n

LEMMA EndsIInv ==
  ASSUME IInv, call # None, Found, call' = None, cap' = cap, merging' = merging, ret' \in Value,
         \/ spoiled' = FALSE /\ entries' = entries
         \/ spoiled' = FALSE /\ \E new : Writes(new)
         \/ spoiled' = TRUE /\ merging = <<>> /\ entries' \in [0 .. cap - 1 -> Entry]
  PROVE  IInv'
<1>1. ProbedInOrder' /\ OnlyInsertsWhileMerging'
  BY DEF ProbedInOrder, OnlyInsertsWhileMerging
<1>2. /\ entries' \in [0 .. cap - 1 -> Entry]
      /\ ~spoiled' => EntriesReached(entries', cap)
  <2>1. CASE entries' = entries /\ spoiled' = FALSE
    <3>1. EntriesReached(entries, cap) /\ entries \in [0 .. cap - 1 -> Entry]
      BY TypeFacts
    <3> DEFINE u == entries'
               t == entries
    <3>2. t = u /\ EntriesReached(t, cap)
      BY <2>1, <3>1
    <3> HIDE DEF t, u
    <3>3. EntriesReached(u, cap)
      BY <3>2
    <3> QED BY <2>1, <3>1, <3>3 DEF u
  <2>2. CASE \E new : Writes(new)
    BY <2>2, WritesFacts
  <2> QED BY <2>1, <2>2
<1>3. DictTypeOK'
  BY <1>2 DEF IInv, DictTypeOK
<1>4. (~spoiled => EntriesReached(entries, cap))'
  BY <1>2 DEF EntriesReached, StopsFirst, Stops, Earlier, Distance, Home, Empty
<1> QED BY <1>1, <1>3, <1>4 DEF IInv

LEMMA AdvanceIInv ==
  ASSUME IInv, Advance
  PROVE  IInv'
<1> DEFINE k == call.key
           old == entries[bucket]
<1>1. CASE Probe
  BY <1>1, ProbeIInv
<1>2. CASE MergeInserts
  <2>1. /\ call = None /\ merging # <<>> /\ InsertStarts(Head(merging)[1], Head(merging)[2])
        /\ merging' = Tail(merging)
    BY <1>2 DEF MergeInserts
  <2>2. merging \in Seq(Key \X Value) /\ ~spoiled
    BY <2>1, TypeFacts DEF IInv
  <2>3. /\ Head(merging) \in Key \X Value /\ Tail(merging) \in Seq(Key \X Value)
    <3> DEFINE S == Key \X Value
    <3>1. merging \in Seq(S) /\ merging # <<>>
      BY <2>1, <2>2
    <3> HIDE DEF S
    <3>2. Head(merging) \in S /\ Tail(merging) \in Seq(S)
      BY <3>1
    <3> QED BY <3>2 DEF S
  <2> DEFINE j == Head(merging)[1]
             v == Head(merging)[2]
  <2>4. j \in Key /\ v \in Value
    BY <2>3
  <2> HIDE DEF j, v
  <2>5. UNCHANGED table /\ Starts("insert", j, v)
    BY <2>1, InsertNeverGrows DEF j, v
  <2> QED BY <2>1, <2>2, <2>3, <2>4, <2>5, StartsIInv
<1>3. CASE Ends
  <2>1. /\ call # None /\ Found /\ call' = None /\ cap' = cap /\ merging' = merging
        /\ k \in Key \cup {Void} /\ call.value \in Value /\ ~spoiled
        /\ old \in Entry /\ old.key \in {k, Void} /\ bucket \in 0 .. cap - 1
        /\ entries \in [0 .. cap - 1 -> Entry]
    BY <1>3, TypeFacts DEF Ends, Found, Stops, Empty
  <2>2. CASE InsertEnds
    <3> DEFINE new == [key |-> k, value |-> call.value]
    <3>1. /\ entries' = [entries EXCEPT ![bucket] = new] /\ ret' = ret
          /\ spoiled' = (entries'[bucket] = Empty /\ old # Empty)
          /\ entries'[bucket] = new /\ new \in Entry /\ entries' \in [0 .. cap - 1 -> Entry]
      BY <2>1, <2>2 DEF InsertEnds, Probed, Entry
    <3>2. ret' \in Value
      BY <3>1, TypeFacts
    <3>3. CASE new # Empty
      <4>1. Writes(new)
        BY <3>1, <3>3 DEF Writes
      <4>2. spoiled' = FALSE
        BY <3>1, <3>3
      <4> QED BY <2>1, <3>2, <4>1, <4>2, EndsIInv
    <3>4. CASE new = Empty
      <4>1. CASE old = Empty
        <5>1. entries' = entries
          BY <2>1, <3>1, <3>4, <4>1
        <5> QED BY <2>1, <3>1, <3>2, <4>1, <5>1, EndsIInv
      <4>2. CASE old # Empty
        <5>1. k \notin Key
          BY <3>4, DictionaryAssumption DEF Empty
        <5>2. merging = <<>>
          BY <2>1, <5>1 DEF IInv, OnlyInsertsWhileMerging
        <5>3. spoiled' = TRUE
          BY <3>1, <3>4, <4>2
        <5> QED BY <2>1, <3>1, <3>2, <5>2, <5>3, EndsIInv
      <4> QED BY <4>1, <4>2
    <3> QED BY <3>3, <3>4
  <2>3. CASE GetEnds
    <3>1. ret' = old.value /\ entries' = entries /\ spoiled' = FALSE
      BY <2>1, <2>3, TypeFacts DEF GetEnds, Probed, IInv, DictTypeOK
    <3>2. ret' \in Value
      BY <2>1, <3>1 DEF Entry
    <3> QED BY <2>1, <3>1, <3>2, EndsIInv
  <2>4. CASE DeleteEnds
    <3>1. /\ ret' = old.value /\ spoiled' = FALSE
          /\ entries' = IF old = Empty THEN entries ELSE [entries EXCEPT ![bucket] = Tomb]
      BY <2>1, <2>4, TypeFacts DEF DeleteEnds, Probed, IInv, DictTypeOK
    <3>2. ret' \in Value
      BY <2>1, <3>1 DEF Entry
    <3>3. Tomb \in Entry /\ Tomb # Empty /\ Tomb.key = Void
      BY DictionaryAssumption DEF Tomb, Entry, Empty
    <3>4. entries' = entries \/ Writes(Tomb)
      BY <3>1, <3>3 DEF Writes
    <3> QED BY <2>1, <3>1, <3>2, <3>4, EndsIInv
  <2>5. InsertEnds \/ GetEnds \/ DeleteEnds
    BY <1>3 DEF Advance, Probe, MergeInserts, Ends
  <2> QED BY <2>2, <2>3, <2>4, <2>5
<1> QED BY <1>1, <1>2, <1>3 DEF Advance, InsertEnds, GetEnds, DeleteEnds

LEMMA NextIInv == IInv /\ [Next]_vars => IInv'
<1> SUFFICES ASSUME IInv, [Next]_vars PROVE IInv'
  OBVIOUS
<1>0. Idle => ~spoiled /\ merging = <<>> /\ call = None
  BY DEF Idle
<1>1. ASSUME NEW k \in Key \cup {Void}, NEW v \in Value, obj_dct_insert(k, v) PROVE IInv'
  <2>1. UNCHANGED table /\ Starts("insert", k, v) /\ merging' = <<>> /\ ~spoiled
    BY <1>0, <1>1, InsertNeverGrows DEF obj_dct_insert
  <2>2. merging' \in Seq(Key \X Value)
    BY <1>0, <1>1, TypeFacts DEF obj_dct_insert
  <2> QED BY <2>1, <2>2, StartsIInv
<1>2. ASSUME NEW k \in Key \cup {Void}, obj_dct_get(k) \/ obj_dct_delete(k) PROVE IInv'
  <2>1. /\ Starts("get", k, Void) \/ Starts("delete", k, Void)
        /\ merging' = <<>> /\ ~spoiled /\ UNCHANGED table
    BY <1>0, <1>2 DEF obj_dct_get, obj_dct_delete
  <2>2. merging' \in Seq(Key \X Value) /\ Void \in Value
    BY <1>0, <1>2, TypeFacts, DictionaryAssumption DEF obj_dct_get, obj_dct_delete
  <2> QED BY <2>1, <2>2, StartsIInv
<1>3. ASSUME NEW with \in With, obj_dct_merge(with) PROVE IInv'
  BY <1>3, MergeIInv
<1>4. CASE UNCHANGED vars
  <2>1. UNCHANGED <<cap, entries, call, bucket, ret, merging, spoiled>>
    BY <1>4 DEF vars
  <2>2. DictTypeOK' /\ OnlyInsertsWhileMerging' /\ (spoiled => call = None /\ merging = <<>>)'
    BY <2>1 DEF IInv, DictTypeOK, OnlyInsertsWhileMerging
  <2>3. ProbedInOrder'
    BY <2>1 DEF IInv, ProbedInOrder, Stops, Earlier, Distance, Home, Empty
  <2>4. (~spoiled => EntriesReached(entries, cap))'
    BY <2>1 DEF IInv, EntriesReached, StopsFirst, Stops, Earlier, Distance, Home, Empty
  <2> QED BY <2>2, <2>3, <2>4 DEF IInv
<1> QED BY <1>1, <1>2, <1>3, <1>4, AdvanceIInv DEF Next

(* No probe of the dictionary leaves its table, and a table that grows is  *)
(* a table of entries again, for every hash function and any merges.       *)
THEOREM DictionaryTypeCorrect == Spec => []DictTypeOK
<1>1. IInv => DictTypeOK
  BY DEF IInv
<1> QED BY <1>1, InitIInv, NextIInv, PTL DEF Spec

-----------------------------------------------------------------------------
(* Refinement: the dictionary is a map until a bucket is emptied.          *)

(* What the ending call's key is bound to is what its bucket holds.        *)
LEMMA FoundIsBound ==
  ASSUME IInv, call # None, Found, NEW k \in Key, k = call.key
  PROVE  Bound(k) = entries[bucket].value
<1> DEFINE t == entries
           b == bucket
           n == cap
<1>1. n \in Nat \ {0} /\ StopsFirst(t, n, k, b)
  BY TypeFacts, EndsAtFirst
<1> HIDE DEF t, b, n
<1>2. Place(t, n, k) = b /\ Stops(t, k, b) /\ b \in 0 .. n - 1
  BY <1>1, PlaceIsFirst DEF StopsFirst
<1>3. BoundIn(t, n, k) = t[b].value
  BY <1>2 DEF BoundIn
<1> QED BY <1>3, BoundReadsTheTable DEF t, b, n

(* The other keys keep their entries. *)
LEMMA OthersKeepTheirValues ==
  ASSUME IInv, call # None, Found, cap' = cap, NEW new, Writes(new),
         NEW j \in Key, j # call.key
  PROVE  Bound(j)' = Bound(j)
<1> DEFINE t == entries
           u == entries'
           b == bucket
           n == cap
<1>1. /\ n \in Nat \ {0} /\ b \in 0 .. n - 1 /\ EntriesReached(t, n) /\ EntriesReached(u, n)
      /\ u[b] = new /\ \A c \in 0 .. n - 1 : c # b => u[c] = t[c]
  BY TypeFacts, WritesFacts
<1>2. t[b].key # j /\ new.key # j
  <2>1. j # Void
    BY DictionaryAssumption
  <2> QED BY <2>1 DEF Found, Stops, Empty, Writes
<1>3. cap' = n
  OBVIOUS
<1> HIDE DEF t, u, b, n
<1>4. \A c \in 0 .. n - 1 : t[c].key = j => \E d \in 0 .. n - 1 : u[d] = t[c]
  BY <1>1, <1>2
<1>5. \A d \in 0 .. n - 1 : u[d].key = j => \E c \in 0 .. n - 1 : t[c] = u[d]
  BY <1>1, <1>2
<1>6. EntriesReached(t, n) /\ EntriesReached(u, n) /\ n \in Nat \ {0}
  BY <1>1
<1>7. BoundIn(t, n, j) = BoundIn(u, n, j)
  BY <1>4, <1>5, <1>6, SameEntriesBindAlike
<1> QED BY <1>3, <1>7, BoundReadsTheTable DEF t, u, n

LEMMA WrittenIsBound ==
  ASSUME IInv, call # None, Found, cap' = cap, NEW new, Writes(new),
         NEW k \in Key, k = call.key
  PROVE  /\ new.key = k => Bound(k)' = new.value
         /\ new.key = Void /\ entries[bucket].key = k => Bound(k)' = Void
<1> DEFINE t == entries
           u == entries'
           b == bucket
           n == cap
<1>1. /\ n \in Nat \ {0} /\ b \in 0 .. n - 1 /\ EntriesReached(t, n) /\ EntriesReached(u, n)
      /\ u[b] = new /\ \A c \in 0 .. n - 1 : c # b => u[c] = t[c]
  BY TypeFacts, WritesFacts
<1>2. cap' = n /\ k # Void
  BY DictionaryAssumption
<1> HIDE DEF t, u, b, n
<1>3. ASSUME new.key = k PROVE BoundIn(u, n, k) = new.value
  BY <1>1, <1>3, EntryIsBound
<1>4. ASSUME new.key = Void, t[b].key = k PROVE BoundIn(u, n, k) = Void
  <2>1. ASSUME NEW c \in 0 .. n - 1 PROVE u[c].key # k
    <3>1. CASE c = b
      BY <1>1, <1>2, <1>4, <3>1
    <3>2. CASE c # b
      BY <1>1, <1>4, <3>2, OneEntryEach
    <3> QED BY <3>1, <3>2
  <2> QED BY <1>1, <2>1, OtherwiseVoid
<1> QED BY <1>2, <1>3, <1>4, BoundReadsTheTable DEF t, u, b, n

LEMMA BoundUnchanged ==
  ASSUME UNCHANGED table
  PROVE  \A k \in Key : Bound(k)' = Bound(k)
BY BoundReadsTheTable DEF table

LEMMA EndsMap ==
  ASSUME IInv, Advance, Ends, ~spoiled'
  PROVE  [Promise!Next]_(Promise!vars) /\ Asked
<1> SUFFICES ASSUME NEW k, k = call.key PROVE [Promise!Next]_(Promise!vars) /\ Asked
  OBVIOUS
<1> DEFINE old == entries[bucket]
<1>a. /\ call # None /\ Found /\ cap' = cap /\ k \in Key \cup {Void} /\ call.value \in Value
      /\ old \in Entry /\ (old = Empty \/ old.key = k)
      /\ ret \in Value
      /\ entries \in [0 .. cap - 1 -> Entry] /\ bucket \in 0 .. cap - 1
  BY TypeFacts DEF Ends, Found, Stops
<1>c. ASSUME k = Void, \A j \in Key : Bound(j)' = Bound(j), ret' \in Value
      PROVE  Promise!Next /\ Asked
  BY <1>c DEF Promise!Next, Promise!WithVoid, Asked
<1>d. ASSUME \A j \in Key : Bound(j)' = Bound(j), k \in Key, ret' = old.value
      PROVE  Promise!Get(k)
  BY <1>a, <1>d, FoundIsBound DEF Promise!Get
<1>e. ASSUME NEW v, k \in Key, Bound(k)' = v, \A j \in Key : j # k => Bound(j)' = Bound(j)
      PROVE  [j \in Key |-> Bound(j)]' = [[j \in Key |-> Bound(j)] EXCEPT ![k] = v]
  BY <1>e
<1>1. CASE InsertEnds
  <2> DEFINE new == [key |-> k, value |-> call.value]
  <2>1. /\ entries' = [entries EXCEPT ![bucket] = new] /\ ret' = ret
        /\ spoiled' = (entries'[bucket] = Empty /\ old # Empty)
        /\ entries'[bucket] = new /\ new \in Entry
    BY <1>a, <1>1 DEF InsertEnds, Probed, Entry
  <2>2. CASE new = Empty
    <3>1. old = Empty
      BY <2>1, <2>2
    <3>2. UNCHANGED table
      BY <1>a, <2>1, <2>2, <3>1 DEF table
    <3> QED BY <1>a, <1>c, <2>1, <2>2, <3>2, BoundUnchanged DEF Empty
  <2>3. CASE new # Empty
    <3>1. Writes(new)
      BY <2>1, <2>3 DEF Writes
    <3>2. new.key = k /\ new.value = call.value
      OBVIOUS
    <3> HIDE DEF new
    <3>3. \A j \in Key : j # k => Bound(j)' = Bound(j)
      BY <1>a, <3>1, OthersKeepTheirValues
    <3>4. CASE k \in Key
      <4>1. Bound(k)' = call.value
        BY <1>a, <3>1, <3>2, <3>4, WrittenIsBound
      <4>2. Promise!Set(k, call.value)
        BY <1>e, <2>1, <3>3, <3>4, <4>1 DEF Promise!Set
      <4> QED BY <1>a, <1>1, <3>4, <4>2, DictionaryAssumption DEF InsertEnds, Promise!Next, Asked
    <3>5. CASE k = Void
      BY <1>a, <1>c, <2>1, <3>3, <3>5, DictionaryAssumption
    <3> QED BY <1>a, <3>4, <3>5
  <2> QED BY <2>2, <2>3
<1>2. CASE GetEnds
  <2>1. ret' = old.value /\ UNCHANGED table /\ old.value \in Value
    BY <1>a, <1>2 DEF GetEnds, Probed, table, Entry
  <2>2. CASE k \in Key
    <3>1. Promise!Get(k)
      BY <1>d, <2>1, <2>2, BoundUnchanged
    <3> QED BY <1>2, <2>2, <3>1, DictionaryAssumption DEF GetEnds, Promise!Next, Asked
  <2>3. CASE k = Void
    BY <1>c, <2>1, <2>3, BoundUnchanged
  <2> QED BY <1>a, <2>2, <2>3
<1>3. CASE DeleteEnds
  <2>1. /\ ret' = old.value /\ old.value \in Value
        /\ entries' = IF old = Empty THEN entries ELSE [entries EXCEPT ![bucket] = Tomb]
    BY <1>a, <1>3 DEF DeleteEnds, Probed, Entry
  <2>2. CASE old = Empty
    <3>1. UNCHANGED table /\ ret' = Void
      BY <1>a, <2>1, <2>2 DEF table, Empty
    <3>2. CASE k \in Key
      <4>1. Bound(k) = Void
        BY <1>a, <2>1, <3>1, <3>2, FoundIsBound
      <4>2. Bound(k)' = Void /\ \A j \in Key : j # k => Bound(j)' = Bound(j)
        BY <3>1, <3>2, <4>1, BoundUnchanged
      <4>3. Promise!Delete(k)
        BY <1>e, <3>1, <3>2, <4>1, <4>2 DEF Promise!Delete
      <4> QED BY <1>3, <3>2, <4>3, DictionaryAssumption DEF DeleteEnds, Promise!Next, Asked
    <3>3. CASE k = Void
      BY <1>c, <2>1, <3>1, <3>3, BoundUnchanged
    <3> QED BY <1>a, <3>2, <3>3
  <2>3. CASE old # Empty
    <3>1. Tomb \in Entry /\ Tomb # Empty /\ Tomb.key = Void
      BY DictionaryAssumption DEF Tomb, Entry, Empty
    <3>2. Writes(Tomb) /\ old.key = k
      BY <1>a, <2>1, <2>3, <3>1 DEF Writes
    <3>3. \A j \in Key : j # k => Bound(j)' = Bound(j)
      BY <1>a, <3>2, OthersKeepTheirValues
    <3>4. CASE k \in Key
      <4>1. Bound(k)' = Void
        BY <1>a, <3>1, <3>2, <3>4, WrittenIsBound
      <4>2. ret' = Bound(k)
        BY <1>a, <2>1, <3>4, FoundIsBound
      <4>3. Promise!Delete(k)
        BY <1>e, <3>3, <3>4, <4>1, <4>2 DEF Promise!Delete
      <4> QED BY <1>3, <3>4, <4>3, DictionaryAssumption DEF DeleteEnds, Promise!Next, Asked
    <3>5. CASE k = Void
      BY <1>c, <2>1, <3>3, <3>5, DictionaryAssumption
    <3> QED BY <1>a, <3>4, <3>5
  <2> QED BY <2>2, <2>3
<1> QED BY <1>1, <1>2, <1>3 DEF Advance, Probe, MergeInserts, Ends

LEMMA NextMaps ==
  ASSUME IInv, [Next]_vars, ~spoiled'
  PROVE  [Promise!Next]_(Promise!vars) /\ ((call # None /\ call' = None) => Asked)
<1> DEFINE Step == [Promise!Next]_(Promise!vars) /\ ((call # None /\ call' = None) => Asked)
<1>a. ASSUME \A k \in Key : Bound(k)' = Bound(k), ret' = ret, call = None \/ call' = call
      PROVE  Step
  BY <1>a DEF Promise!vars
<1>1. ASSUME NEW k, NEW v, obj_dct_insert(k, v) PROVE Step
  <2>1. UNCHANGED table /\ ret' = ret /\ call = None
    BY <1>1, InsertNeverGrows DEF obj_dct_insert, Starts, Idle
  <2> QED BY <1>a, <2>1, BoundUnchanged
<1>2. ASSUME NEW k, obj_dct_get(k) \/ obj_dct_delete(k) PROVE Step
  <2>1. UNCHANGED table /\ ret' = ret /\ call = None
    BY <1>2 DEF obj_dct_get, obj_dct_delete, Starts, Idle
  <2> QED BY <1>a, <2>1, BoundUnchanged
<1>3. ASSUME NEW with \in With, obj_dct_merge(with) PROVE Step
  <2>1. ret' = ret /\ call = None
    BY <1>3 DEF obj_dct_merge, Idle
  <2> QED BY <1>3, <1>a, <2>1, MergeIInv
<1>4. CASE MergeInserts
  <2>1. UNCHANGED table /\ ret' = ret /\ call = None
    BY <1>4, InsertNeverGrows DEF MergeInserts, Starts
  <2> QED BY <1>a, <2>1, BoundUnchanged
<1>5. CASE Probe \/ UNCHANGED vars
  <2>1. UNCHANGED table /\ ret' = ret /\ call' = call
    BY <1>5 DEF Probe, vars, table
  <2> QED BY <1>a, <2>1, BoundUnchanged
<1>6. CASE Advance /\ Ends
  BY <1>6, EndsMap
<1> QED BY <1>1, <1>2, <1>3, <1>4, <1>5, <1>6 DEF Next, Advance, InsertEnds, GetEnds, DeleteEnds

LEMMA InitMaps == Init => Promise!Init
<1> SUFFICES ASSUME Init PROVE Promise!Init
  OBVIOUS
<1>1. cap = 4 /\ ret = Void /\ \A b \in 0 .. cap - 1 : entries[b] = Empty
  BY DEF Init, GROW_CAP
<1>2. ASSUME NEW k \in Key PROVE Bound(k) = Void
  <2>1. \A b \in 0 .. cap - 1 : entries[b].key # k
    BY <1>1, DictionaryAssumption DEF Empty
  <2>2. cap \in Nat \ {0}
    BY <1>1
  <2> QED BY <2>1, <2>2, OtherwiseVoid, BoundReadsTheTable
<1> QED BY <1>1, <1>2 DEF Promise!Init

(* obj_dct_insert, obj_dct_get, obj_dct_delete and obj_dct_merge make a    *)
(* map of every table: tombstones hide no entry, an entry is found where   *)
(* collisions left it and keeps its value when a merge moves all of them,  *)
(* and every call ends in the step of the map that it asks for, for every  *)
(* hash function and every order of calls.                                 *)
THEOREM DictionaryRefinesMap == Spec => ImplementsValueMap
<1>1. IInv /\ [Next]_vars =>
        [spoiled' \/ /\ [Promise!Next]_(Promise!vars)
                     /\ (call # None /\ call' = None) => Asked]_vars
  BY NextMaps
<1> QED BY <1>1, InitIInv, NextIInv, InitMaps, PTL DEF Spec, ImplementsValueMap
===============================================================================
