--------------------------- MODULE Environment_proof ---------------------------
(***************************************************************************)
(* Machine-checked proofs about Environment, for every set of symbols,     *)
(* every hash function and any number of definitions and deletions.        *)
(***************************************************************************)
EXTENDS Environment, TLAPS

(* The remainder that selects a bucket is one of the table.                *)
LEMMA BucketInTable ==
  ASSUME NEW n \in Nat, NEW m \in Nat \ {0}
  PROVE  n % m \in 0 .. m - 1
OBVIOUS

(* EnvTypeOK is not inductive alone: a probe divides by cap, so a lookup   *)
(* needs to know that a table with entries has buckets.                    *)
IInv == EnvTypeOK /\ (cap = 0 => len = 0)

LEMMA InitIInv == Init => IInv
BY DEF Init, IInv, EnvTypeOK

LEMMA HeadsIInv ==
  ASSUME IInv,
         \/ \E s \in Symbol, v \in Value : env_set(s, v) \/ env_set_existing(s, v)
         \/ \E s \in Symbol : env_get(s) \/ env_delete(s),
         UNCHANGED doomed
  PROVE  IInv'
<1>a. EnvTypeOK /\ (cap = 0 => len = 0)
  BY DEF IInv
<1>1. ASSUME NEW s \in Symbol, NEW v \in Value, env_set(s, v) PROVE IInv'
  <2>1. /\ call = None /\ len' = len /\ ret' = ret
        /\ call' = [f |-> "env_set", key |-> s, value |-> v]
        /\ bucket' = Hash[s] % cap'
    BY <1>1 DEF env_set
  <2>2. call' \in Call
    BY <2>1 DEF Call
  <2>3. cap' \in Nat \ {0} /\ ptr' \in [0 .. cap' - 1 -> Slot]
    <3>1. CASE AtLoad
      <4>1. cap' = GROW_CAP(cap)
            /\ ptr' \in IF cap = 0 THEN {[i \in 0 .. cap' - 1 |-> Empty]}
                                   ELSE [0 .. cap' - 1 -> Slot]
        BY <1>1, <3>1 DEF env_set, env_resize
      <4>2. cap' \in Nat \ {0}
        BY <1>a, <4>1 DEF GROW_CAP, EnvTypeOK
      <4>3. Empty \in Slot
        BY DEF Empty, Slot
      <4> QED BY <4>1, <4>2, <4>3
    <3>2. CASE ~AtLoad
      <4>1. cap' = cap /\ ptr' = ptr
        BY <1>1, <3>2 DEF env_set
      <4>2. cap # 0
        BY <1>a, <3>2 DEF AtLoad
      <4> QED BY <1>a, <4>1, <4>2 DEF EnvTypeOK
    <3> QED BY <3>1, <3>2
  <2>4. bucket' \in 0 .. cap' - 1
    BY <2>1, <2>3, BucketInTable, EnvironmentAssumption
  <2> QED BY <1>a, <2>1, <2>2, <2>3, <2>4 DEF IInv, EnvTypeOK
<1>2. ASSUME NEW f \in {"env_set_existing", "env_get", "env_delete"},
             NEW s \in Symbol, NEW v \in Value \cup {None}, Lookup(f, s, v)
      PROVE  IInv'
  <2>1. call = None /\ cap' = cap /\ len' = len /\ ptr' = ptr
    BY <1>2 DEF Lookup, table
  <2>2. CASE len = 0
    BY <1>2, <1>a, <2>1, <2>2 DEF Lookup, IInv, EnvTypeOK
  <2>3. CASE len # 0
    <3>1. /\ call' = [f |-> f, key |-> s, value |-> v]
          /\ bucket' = Hash[s] % cap /\ ret' = ret
      BY <1>2, <2>3 DEF Lookup
    <3>2. call' \in Call
      BY <3>1 DEF Call
    <3>3. bucket' \in 0 .. cap - 1
      BY <1>a, <2>3, <3>1, BucketInTable, EnvironmentAssumption DEF EnvTypeOK
    <3> QED BY <1>a, <2>1, <3>1, <3>2, <3>3 DEF IInv, EnvTypeOK
  <2> QED BY <2>2, <2>3
<1> QED BY <1>1, <1>2 DEF env_set_existing, env_get, env_delete

LEMMA AdvanceIInv ==
  ASSUME IInv, Advance, UNCHANGED doomed
  PROVE  IInv'
<1>a. /\ EnvTypeOK /\ (cap = 0 => len = 0)
      /\ call \in Call /\ bucket \in 0 .. cap - 1 /\ ptr[bucket] \in Slot
  BY DEF IInv, EnvTypeOK, Advance, Probe, SetFound, NotFound, SetExistingFound, GetFound,
         DeleteFound, Setting, Finding
<1>b. cap \in Nat /\ cap # 0 /\ len \in Nat
  BY <1>a DEF EnvTypeOK
<1>1. CASE Probe
  <2>1. bucket' \in 0 .. cap - 1
    BY <1>1, <1>a, <1>b DEF Probe, NextBucket
  <2> QED BY <1>1, <1>a, <2>1 DEF Probe, table, IInv, EnvTypeOK
<1> DEFINE e == ptr[bucket]
<1>2. ASSUME NEW new \in Slot, ptr' = [ptr EXCEPT ![bucket] = new] \/ ptr' = ptr,
             cap' = cap, len' \in {len, len + 1}, call' = None, ret' \in Value \cup {None}
      PROVE  IInv'
  BY <1>2, <1>a, <1>b DEF IInv, EnvTypeOK
<1>3. CASE SetFound
  <2>1. Entry(call.key, call.value) \in Slot /\ call.value \in Value \cup {None}
    BY <1>a DEF Entry, Slot, Call
  <2> QED BY <1>2, <1>3, <2>1 DEF SetFound, Returns
<1>4. CASE NotFound \/ GetFound
  <2>1. e.value \in Value \cup {None}
    BY <1>a DEF Slot
  <2> QED BY <1>2, <1>4, <1>a, <2>1 DEF NotFound, GetFound, Returns, Probed, table
<1>5. CASE SetExistingFound
  <2>1. [e EXCEPT !.value = call.value] \in Slot /\ call.value \in Value \cup {None}
    BY <1>a DEF Slot, Call
  <2>2. ptr' = [ptr EXCEPT ![bucket] = [e EXCEPT !.value = call.value]]
    BY <1>5 DEF SetExistingFound
  <2> QED BY <1>2, <1>5, <2>1, <2>2 DEF SetExistingFound, Returns
<1>6. CASE DeleteFound
  <2>1. [str |-> None, hash |-> 1, value |-> e.value] \in Slot
    BY <1>a DEF Slot
  <2>2. ptr' = [ptr EXCEPT ![bucket] = [str |-> None, hash |-> 1, value |-> e.value]]
    BY <1>6 DEF DeleteFound, Probed
  <2> QED BY <1>2, <1>6, <2>1, <2>2 DEF DeleteFound, Returns
<1> QED BY <1>1, <1>3, <1>4, <1>5, <1>6 DEF Advance

LEMMA NextIInv == IInv /\ [Next]_vars => IInv'
<1> SUFFICES ASSUME IInv, [Next]_vars PROVE IInv'
  OBVIOUS
<1>1. CASE Advance /\ UNCHANGED doomed
  BY <1>1, AdvanceIInv
<1>2. CASE UNCHANGED vars
  BY <1>2 DEF vars, IInv, EnvTypeOK
<1>3. CASE Next
  BY <1>1, <1>3, HeadsIInv DEF Next
<1> QED BY <1>2, <1>3

(* No probe of env.c ever leaves the table, whatever the program defines,  *)
(* assigns, loads or deletes, and in any order.                            *)
THEOREM EnvironmentTypeCorrect == Spec => []EnvTypeOK
<1>1. IInv => EnvTypeOK
  BY DEF IInv
<1> QED BY <1>1, InitIInv, NextIInv, PTL DEF Spec

-----------------------------------------------------------------------------
(* The table as a map.  What a lookup finds depends on three things that   *)
(* no single call establishes: every bucket between a symbol's home and    *)
(* its entry is in use, a probe has come from its symbol's home over       *)
(* buckets that could not stop it, and the table never has other than four *)
(* buckets, because len reaches 95 % of cap only while both are 0.         *)

(* The bucket that the d-th probe for s looks at, once there are buckets.  *)
Home(s, d) == (Hash[s] + d) % 4

FourBuckets == cap \in {0, 4}

EntriesReached ==
  cap = 4 =>
    \A s \in Symbol, d \in 0 .. 3 :
      ptr[Home(s, d)].str = s => \A e \in 0 .. d - 1 : ~IsEmpty(ptr[Home(s, e)])

(* The probing call does not stop at the slot e. *)
Passes(e) == IF call.f = "env_set" THEN e.str # None /\ e.str # call.key
             ELSE e.str # call.key /\ ~IsEmpty(e)

ProbedInOrder ==
  call # None =>
    \A d \in 0 .. 3 :
      bucket = Home(call.key, d) => \A e \in 0 .. d - 1 : Passes(ptr[Home(call.key, e)])

EntriesHoldValues ==
  /\ cap = 4 => \A i \in 0 .. 3 : ptr[i].str # None => ptr[i].value \in Value
  /\ call # None /\ call.f \in {"env_set", "env_set_existing"} => call.value \in Value

EmptyAtZero == cap = 4 /\ len = 0 => \A i \in 0 .. 3 : ptr[i].str = None

(* While nothing is deleted a free bucket is an empty one, and no symbol   *)
(* has two entries.                                                        *)
NothingDeleted ==
  doomed = {} =>
    /\ cap = 4 => \A i \in 0 .. 3 : ptr[i].str = None => IsEmpty(ptr[i])
    /\ call # None => call.f # "env_delete"
EntriesDistinct ==
  doomed = {} /\ cap = 4 =>
    \A i, j \in 0 .. 3 : ptr[i].str # None /\ ptr[i].str = ptr[j].str => i = j

TableInv ==
  /\ IInv
  /\ FourBuckets
  /\ EntriesReached
  /\ ProbedInOrder
  /\ EntriesHoldValues
  /\ EmptyAtZero
  /\ NothingDeleted
  /\ EntriesDistinct

(* Four probes from a home look at each bucket once, in the order of       *)
(* NextBucket.                                                             *)
LEMMA ProbeOrder ==
  ASSUME NEW s \in Symbol
  PROVE  /\ \A d \in 0 .. 3 : Home(s, d) \in 0 .. 3
         /\ \A d, e \in 0 .. 3 : Home(s, d) = Home(s, e) => d = e
         /\ \A b \in 0 .. 3 : \E d \in 0 .. 3 : b = Home(s, d)
         /\ \A d \in 1 .. 3 : Home(s, d) = IF Home(s, d - 1) + 1 = 4 THEN 0
                                           ELSE Home(s, d - 1) + 1
<1> DEFINE h == Hash[s]
<1>1. h \in Nat
  BY EnvironmentAssumption
<1> HIDE DEF h
<1>2. \A d \in 0 .. 3 : Home(s, d) = (h + d) % 4
  BY DEF Home, h
<1>3. \A d \in 0 .. 3 : (h + d) % 4 \in 0 .. 3
  BY <1>1
<1>4. \A d, e \in 0 .. 3 : (h + d) % 4 = (h + e) % 4 => d = e
  BY <1>1
<1>5. ASSUME NEW b \in 0 .. 3 PROVE \E d \in 0 .. 3 : b = (h + d) % 4
  <2>1. \/ b = (h + 0) % 4 \/ b = (h + 1) % 4 \/ b = (h + 2) % 4 \/ b = (h + 3) % 4
    BY <1>1
  <2> QED BY <2>1
<1>6. \A d \in 1 .. 3 : (h + d) % 4 = IF ((h + (d - 1)) % 4) + 1 = 4 THEN 0
                                      ELSE ((h + (d - 1)) % 4) + 1
  BY <1>1
<1>7. \A d \in 1 .. 3 : d \in 0 .. 3 /\ d - 1 \in 0 .. 3
  OBVIOUS
<1> QED BY <1>2, <1>3, <1>4, <1>5, <1>6, <1>7

LEMMA HomeOfKey ==
  ASSUME NEW s \in Symbol, cap = 4
  PROVE  Hash[s] % cap = Home(s, 0) /\ \A d \in 0 .. 3 : At(s, d) = Home(s, d)
BY EnvironmentAssumption DEF Home, At

(* While a call probes the table has its four buckets.                     *)
LEMMA WhileProbing ==
  ASSUME TableInv, call # None
  PROVE  /\ cap = 4 /\ bucket \in 0 .. 3 /\ call \in Call /\ call.key \in Symbol
         /\ call.key # None /\ call.value \in Value \cup {None}
         /\ ptr \in [0 .. 3 -> Slot] /\ ptr[bucket] \in Slot /\ len \in Nat
<1>1. EnvTypeOK /\ cap \in {0, 4}
  BY DEF TableInv, IInv, FourBuckets
<1>2. cap = 4
  BY <1>1 DEF EnvTypeOK
<1> QED BY <1>1, <1>2, EnvironmentAssumption DEF EnvTypeOK, Call

(* env_resize happens once, when there is nothing to keep.                 *)
LEMMA GrowsOnce ==
  ASSUME TableInv, NEW s \in Symbol, NEW v \in Value, env_set(s, v)
  PROVE  /\ cap' = 4 /\ len' = len
         /\ \/ cap = 0 /\ len = 0 /\ ptr' = [i \in 0 .. 3 |-> Empty]
            \/ cap = 4 /\ ptr' = ptr
<1>1. cap \in {0, 4} /\ (cap = 0 => len = 0) /\ len \in Nat
  BY DEF TableInv, IInv, FourBuckets, EnvTypeOK
<1>2. CASE cap = 0
  <2>1. AtLoad
    BY <1>1, <1>2 DEF AtLoad
  <2>2. cap' = GROW_CAP(0) /\ ptr' \in {[i \in 0 .. cap' - 1 |-> Empty]} /\ len' = len
    BY <1>2, <2>1 DEF env_set, env_resize
  <2>3. cap' = 4 /\ cap' - 1 = 3
    BY <2>2 DEF GROW_CAP
  <2> QED BY <1>1, <1>2, <2>2, <2>3
<1>3. CASE cap = 4
  <2>1. ~AtLoad
    BY <1>1, <1>3 DEF AtLoad
  <2> QED BY <1>3, <2>1 DEF env_set
<1> QED BY <1>1, <1>2, <1>3

LEMMA InitTableInv == Init => TableInv
<1> SUFFICES ASSUME Init PROVE TableInv
  OBVIOUS
<1>1. cap = 0 /\ call = None
  BY DEF Init
<1> QED BY <1>1, InitIInv DEF TableInv, FourBuckets, EntriesReached, ProbedInOrder,
           EntriesHoldValues, EmptyAtZero, NothingDeleted, EntriesDistinct

(* Once a probe has come to an empty bucket its symbol is nowhere.         *)
LEMMA EmptyEndsTheSearch ==
  ASSUME TableInv, call # None, IsEmpty(ptr[bucket]), NEW i \in 0 .. 3
  PROVE  ptr[i].str # call.key
<1> DEFINE k == call.key
<1>1. k \in Symbol /\ k # None /\ cap = 4 /\ bucket \in 0 .. 3
  BY WhileProbing
<1>2. PICK d \in 0 .. 3 : i = Home(k, d)
  BY <1>1, ProbeOrder
<1>3. PICK c \in 0 .. 3 : bucket = Home(k, c)
  BY <1>1, ProbeOrder
<1>4. CASE d < c
  <2>1. d \in 0 .. c - 1
    BY <1>4
  <2>2. Passes(ptr[Home(k, d)])
    BY <1>3, <2>1 DEF TableInv, ProbedInOrder
  <2> QED BY <1>2, <2>2 DEF Passes
<1>5. CASE c < d
  <2>1. c \in 0 .. d - 1
    BY <1>5
  <2> QED BY <1>1, <1>2, <1>3, <2>1 DEF TableInv, EntriesReached
<1>6. CASE c = d
  BY <1>1, <1>2, <1>3, <1>6 DEF IsEmpty
<1> QED BY <1>4, <1>5, <1>6

(* No bucket before the one a probe has come to is empty.                  *)
LEMMA PassedAreInUse ==
  ASSUME TableInv, call # None, NEW d \in 0 .. 3, bucket = Home(call.key, d),
         NEW e \in 0 .. d - 1
  PROVE  ~IsEmpty(ptr[Home(call.key, e)]) /\ ptr[Home(call.key, e)].str # call.key
<1>1. Passes(ptr[Home(call.key, e)])
  BY DEF TableInv, ProbedInOrder
<1> QED BY <1>1 DEF Passes, IsEmpty

(* A call ends and leaves the slot new, which is not empty, in its bucket. *)
LEMMA UpdateTableInv ==
  ASSUME TableInv, IInv', call # None, call' = None, cap' = cap, doomed' = doomed,
         len' \in {len, len + 1},
         NEW new \in Slot, ~IsEmpty(new), ptr' = [ptr EXCEPT ![bucket] = new],
         \/ /\ new.str = call.key /\ new.value \in Value /\ len' # 0
            /\ doomed = {} => \A i \in 0 .. 3 : i # bucket => ptr[i].str # call.key
         \/ new.str = None /\ doomed # {}
  PROVE  TableInv'
<1> DEFINE k == call.key
<1>1. /\ k \in Symbol /\ k # None /\ cap = 4 /\ bucket \in 0 .. 3 /\ len \in Nat
      /\ ptr \in [0 .. 3 -> Slot]
  BY WhileProbing
<1>2. ptr'[bucket] = new /\ \A i \in 0 .. 3 : i # bucket => ptr'[i] = ptr[i]
  BY <1>1
<1>3. \A i \in 0 .. 3 : ~IsEmpty(ptr[i]) => ~IsEmpty(ptr'[i])
  BY <1>2
<1>4. EntriesReached'
  <2> SUFFICES ASSUME NEW s \in Symbol, NEW d \in 0 .. 3, ptr'[Home(s, d)].str = s,
                      NEW e \in 0 .. d - 1
               PROVE  ~IsEmpty(ptr'[Home(s, e)])
    BY DEF EntriesReached, Home, IsEmpty
  <2>1. e \in 0 .. 3 /\ Home(s, e) \in 0 .. 3 /\ Home(s, d) \in 0 .. 3
    BY ProbeOrder
  <2>2. CASE Home(s, d) # bucket
    <3>1. ptr[Home(s, d)].str = s
      BY <1>2, <2>1, <2>2
    <3>2. ~IsEmpty(ptr[Home(s, e)])
      BY <1>1, <3>1 DEF TableInv, EntriesReached
    <3> QED BY <1>3, <2>1, <3>2
  <2>3. CASE Home(s, d) = bucket
    <3>1. s = k
      BY <1>2, <2>3, EnvironmentAssumption
    <3>2. ~IsEmpty(ptr[Home(s, e)])
      BY <2>3, <3>1, PassedAreInUse
    <3> QED BY <1>3, <2>1, <3>2
  <2> QED BY <2>2, <2>3
<1>5. ProbedInOrder'
  BY DEF ProbedInOrder
<1>6. EntriesHoldValues'
  <2>1. \A i \in 0 .. 3 : ptr'[i].str # None => ptr'[i].value \in Value
    BY <1>1, <1>2 DEF TableInv, EntriesHoldValues
  <2> QED BY <2>1 DEF EntriesHoldValues
<1>7. EmptyAtZero'
  <2> SUFFICES ASSUME len' = 0, NEW i \in 0 .. 3 PROVE ptr'[i].str = None
    BY DEF EmptyAtZero
  <2>1. len = 0 /\ new.str = None
    BY <1>1
  <2> QED BY <1>1, <1>2, <2>1 DEF TableInv, EmptyAtZero
<1>8. NothingDeleted'
  <2>1. ASSUME doomed = {}, NEW i \in 0 .. 3, ptr'[i].str = None
        PROVE  IsEmpty(ptr'[i])
    <3>1. i # bucket
      BY <1>1, <1>2, <2>1
    <3> QED BY <1>1, <1>2, <2>1, <3>1 DEF TableInv, NothingDeleted
  <2> QED BY <2>1 DEF NothingDeleted, IsEmpty
<1>9. EntriesDistinct'
  <2> SUFFICES ASSUME doomed = {}, NEW i \in 0 .. 3, NEW j \in 0 .. 3,
                      ptr'[i].str # None, ptr'[i].str = ptr'[j].str
               PROVE  i = j
    BY DEF EntriesDistinct
  <2>1. new.str = k /\ \A n \in 0 .. 3 : n # bucket => ptr[n].str # k
    BY <1>1
  <2>2. CASE i # bucket /\ j # bucket
    BY <1>1, <1>2, <2>2 DEF TableInv, EntriesDistinct
  <2>3. CASE i = bucket \/ j = bucket
    BY <1>2, <2>1, <2>3
  <2> QED BY <2>2, <2>3
<1>10. FourBuckets'
  BY <1>1 DEF FourBuckets
<1> QED BY <1>4, <1>5, <1>6, <1>7, <1>8, <1>9, <1>10 DEF TableInv

LEMMA HeadsTableInv ==
  ASSUME TableInv, IInv',
         \/ \E s \in Symbol, v \in Value : env_set(s, v) \/ env_set_existing(s, v)
         \/ \E s \in Symbol : env_get(s) \/ env_delete(s),
         UNCHANGED doomed
  PROVE  TableInv'
(* A call that starts looks at the home of its symbol first.               *)
<1>a. ASSUME NEW s \in Symbol, cap' = 4, call'.key = s, bucket' = Hash[s] % cap'
      PROVE  ProbedInOrder'
  <2>1. bucket' = Home(s, 0)
    BY <1>a, EnvironmentAssumption DEF Home
  <2>2. \A d \in 0 .. 3 : bucket' = Home(s, d) => d = 0
    BY <2>1, ProbeOrder
  <2>3. \A d \in 0 .. 3 : bucket' = Home(call'.key, d) => \A e \in 0 .. d - 1 : FALSE
    BY <1>a, <2>2
  <2> QED BY <2>3 DEF ProbedInOrder, Home
<1>1. ASSUME NEW s \in Symbol, NEW v \in Value, env_set(s, v) PROVE TableInv'
  <2>1. /\ cap' = 4 /\ len' = len
        /\ \/ cap = 0 /\ len = 0 /\ ptr' = [i \in 0 .. 3 |-> Empty]
           \/ cap = 4 /\ ptr' = ptr
    BY <1>1, GrowsOnce
  <2>2. /\ call' = [f |-> "env_set", key |-> s, value |-> v]
        /\ bucket' = Hash[s] % cap'
    BY <1>1 DEF env_set
  <2>3. ProbedInOrder'
    BY <1>a, <2>1, <2>2
  <2>4. FourBuckets'
    BY <2>1 DEF FourBuckets
  <2>5. CASE cap = 4 /\ ptr' = ptr
    BY <2>1, <2>2, <2>3, <2>4, <2>5
       DEF TableInv, EntriesReached, EntriesHoldValues, EmptyAtZero, NothingDeleted,
           EntriesDistinct, Home, IsEmpty
  <2>6. CASE ptr' = [i \in 0 .. 3 |-> Empty]
    <3>1. \A i \in 0 .. 3 : ptr'[i] = Empty
      BY <2>6
    <3>2. Empty.str = None /\ IsEmpty(Empty)
      BY DEF Empty, IsEmpty
    <3>3. EntriesReached'
      <4> SUFFICES ASSUME NEW t \in Symbol, NEW d \in 0 .. 3, ptr'[Home(t, d)].str = t
                   PROVE  FALSE
        BY DEF EntriesReached, Home, IsEmpty
      <4>1. ptr'[Home(t, d)].str = None
        BY <3>1, <3>2, ProbeOrder
      <4> QED BY <4>1, EnvironmentAssumption
    <3>4. EntriesHoldValues' /\ EmptyAtZero'
      BY <2>2, <3>1, <3>2 DEF EntriesHoldValues, EmptyAtZero
    <3>5. NothingDeleted' /\ EntriesDistinct'
      BY <2>2, <3>1, <3>2 DEF NothingDeleted, EntriesDistinct, IsEmpty
    <3> QED BY <2>3, <2>4, <3>3, <3>4, <3>5 DEF TableInv
  <2> QED BY <2>1, <2>5, <2>6
<1>2. ASSUME NEW f \in {"env_set_existing", "env_get", "env_delete"},
             NEW s \in Symbol, NEW v \in Value \cup {None}, Lookup(f, s, v),
             f = "env_delete" => s \in doomed, f = "env_set_existing" => v \in Value
      PROVE  TableInv'
  <2>1. cap' = cap /\ len' = len /\ ptr' = ptr /\ call = None
    BY <1>2 DEF Lookup, table
  <2>2. call' = None \/ /\ call' = [f |-> f, key |-> s, value |-> v]
                        /\ bucket' = Hash[s] % cap' /\ len # 0
    BY <1>2, <2>1 DEF Lookup
  <2>3. ProbedInOrder'
    <3>1. CASE call' = None
      BY <3>1 DEF ProbedInOrder
    <3>2. CASE call' # None
      <4>1. cap' = 4
        BY <2>1, <2>2, <3>2 DEF TableInv, FourBuckets, IInv
      <4> QED BY <1>a, <2>2, <3>2, <4>1
    <3> QED BY <3>1, <3>2
  <2>4. EntriesHoldValues'
    BY <1>2, <2>1, <2>2 DEF TableInv, EntriesHoldValues
  <2>5. NothingDeleted'
    BY <1>2, <2>1, <2>2 DEF TableInv, NothingDeleted, IsEmpty
  <2> QED BY <2>1, <2>3, <2>4, <2>5
          DEF TableInv, FourBuckets, EntriesReached, EmptyAtZero, EntriesDistinct, Home,
              IsEmpty
<1> QED BY <1>1, <1>2 DEF env_set_existing, env_get, env_delete

LEMMA AdvanceTableInv ==
  ASSUME TableInv, IInv', Advance, UNCHANGED doomed
  PROVE  TableInv'
<1> DEFINE k == call.key
           e == ptr[bucket]
<1>0. call # None
  BY DEF Advance, Probe, SetFound, NotFound, SetExistingFound, GetFound, DeleteFound,
         Setting, Finding
<1>a. /\ k \in Symbol /\ k # None /\ cap = 4 /\ bucket \in 0 .. 3 /\ len \in Nat
      /\ ptr \in [0 .. 3 -> Slot] /\ e \in Slot
      /\ call \in Call /\ call.value \in Value \cup {None}
  BY <1>0, WhileProbing
<1>b. call.f \in {"env_set", "env_set_existing", "env_get", "env_delete"}
  BY <1>a DEF Call
<1>1. CASE Probe
  <2>1. UNCHANGED <<cap, len, ptr, call, doomed>>
        /\ bucket' = IF bucket + 1 = 4 THEN 0 ELSE bucket + 1
    BY <1>1, <1>a DEF Probe, NextBucket, table
  <2>2. Passes(e)
    BY <1>1 DEF Probe, Setting, Finding, StopsAtEmpty, StopsAtFind, Probed, Passes
  <2>3. ASSUME NEW d \in 0 .. 3, bucket' = Home(k, d), NEW c \in 0 .. d - 1
        PROVE  Passes(ptr[Home(k, c)])
    <3>1. d \in 1 .. 3 /\ d - 1 \in 0 .. 3 /\ c \in 0 .. 3
      BY <2>3
    <3>2. bucket = Home(k, d - 1)
      <4>1. Home(k, d - 1) \in 0 .. 3
            /\ Home(k, d) = IF Home(k, d - 1) + 1 = 4 THEN 0 ELSE Home(k, d - 1) + 1
        BY <1>a, <3>1, ProbeOrder
      <4> QED BY <1>a, <2>1, <2>3, <4>1
    <3>3. CASE c = d - 1
      BY <2>2, <3>2, <3>3
    <3>4. CASE c # d - 1
      <4>1. c \in 0 .. (d - 1) - 1
        BY <2>3, <3>1, <3>4
      <4> QED BY <1>0, <3>1, <3>2, <4>1 DEF TableInv, ProbedInOrder
    <3> QED BY <3>3, <3>4
  <2>4. ProbedInOrder'
    BY <2>1, <2>3 DEF ProbedInOrder, Passes, Home, IsEmpty
  <2> QED BY <2>1, <2>4
          DEF TableInv, FourBuckets, EntriesReached, EntriesHoldValues, EmptyAtZero,
              NothingDeleted, EntriesDistinct, Home, IsEmpty
<1>2. CASE SetFound
  <2> DEFINE new == Entry(k, call.value)
  <2>1. /\ call.f = "env_set" /\ e.str \in {None, k} /\ call' = None /\ cap' = cap
        /\ ptr' = [ptr EXCEPT ![bucket] = new]
        /\ len' = IF e.str = None THEN len + 1 ELSE len
    BY <1>2 DEF SetFound, Setting, StopsAtEmpty, Probed, Returns
  <2>2. call.value \in Value
    BY <1>0, <2>1 DEF TableInv, EntriesHoldValues
  <2>3. new \in Slot /\ new.str = k /\ new.value = call.value /\ ~IsEmpty(new)
    BY <1>a, <2>2 DEF Entry, Slot, IsEmpty
  <2>4. len' # 0 /\ len' \in {len, len + 1}
    <3>1. len = 0 => e.str = None
      BY <1>a DEF TableInv, EmptyAtZero
    <3> QED BY <1>a, <2>1, <3>1
  <2>5. ASSUME doomed = {}, NEW i \in 0 .. 3, i # bucket PROVE ptr[i].str # k
    <3>1. CASE e.str = None
      <4>1. IsEmpty(e)
        BY <1>a, <2>5, <3>1 DEF TableInv, NothingDeleted
      <4> QED BY <1>0, <4>1, EmptyEndsTheSearch
    <3>2. CASE e.str = k
      BY <1>a, <2>5, <3>2 DEF TableInv, EntriesDistinct
    <3> QED BY <2>1, <3>1, <3>2
  <2> HIDE DEF new
  <2>6. doomed' = doomed
    OBVIOUS
  <2> QED BY <1>0, <2>1, <2>2, <2>3, <2>4, <2>5, <2>6, UpdateTableInv
<1>3. CASE NotFound \/ GetFound
  <2>1. UNCHANGED <<cap, len, ptr, doomed>> /\ call' = None
    BY <1>3 DEF NotFound, GetFound, Returns, table
  <2> QED BY <2>1
          DEF TableInv, FourBuckets, EntriesReached, ProbedInOrder, EntriesHoldValues,
              EmptyAtZero, NothingDeleted, EntriesDistinct, Home, IsEmpty
<1>4. CASE SetExistingFound
  <2> DEFINE new == [e EXCEPT !.value = call.value]
  <2>1. /\ call.f = "env_set_existing" /\ e.str = k /\ call' = None /\ cap' = cap
        /\ ptr' = [ptr EXCEPT ![bucket] = new] /\ len' = len
    BY <1>4 DEF SetExistingFound, Finding, Probed, Returns
  <2>2. call.value \in Value
    BY <1>0, <2>1 DEF TableInv, EntriesHoldValues
  <2>3. new \in Slot /\ new.str = k /\ new.value = call.value /\ ~IsEmpty(new)
    BY <1>a, <2>1, <2>2 DEF Slot, IsEmpty
  <2>4. len' # 0 /\ len' \in {len, len + 1}
    <3>1. len = 0 => e.str = None
      BY <1>a DEF TableInv, EmptyAtZero
    <3> QED BY <1>a, <2>1, <3>1
  <2>5. ASSUME doomed = {}, NEW i \in 0 .. 3, i # bucket PROVE ptr[i].str # k
    BY <1>a, <2>1, <2>5 DEF TableInv, EntriesDistinct
  <2> HIDE DEF new
  <2>6. doomed' = doomed
    OBVIOUS
  <2> QED BY <1>0, <2>1, <2>2, <2>3, <2>4, <2>5, <2>6, UpdateTableInv
<1>5. CASE DeleteFound
  <2> DEFINE new == [str |-> None, hash |-> 1, value |-> e.value]
  <2>1. /\ call.f = "env_delete" /\ call' = None /\ cap' = cap
        /\ ptr' = [ptr EXCEPT ![bucket] = new] /\ len' = len
    BY <1>5 DEF DeleteFound, Finding, Probed, Returns
  <2>2. doomed # {}
    BY <1>0, <2>1 DEF TableInv, NothingDeleted
  <2>3. new \in Slot /\ new.str = None /\ ~IsEmpty(new) /\ len' \in {len, len + 1}
    BY <1>a, <2>1 DEF Slot, IsEmpty
  <2> HIDE DEF new
  <2>6. doomed' = doomed
    OBVIOUS
  <2> QED BY <1>0, <2>1, <2>2, <2>3, <2>6, UpdateTableInv
<1> QED BY <1>1, <1>2, <1>3, <1>4, <1>5 DEF Advance

LEMMA NextTableInv == TableInv /\ [Next]_vars => TableInv'
<1> SUFFICES ASSUME TableInv, [Next]_vars PROVE TableInv'
  OBVIOUS
<1>0. IInv'
  BY NextIInv DEF TableInv
<1>1. CASE Advance /\ UNCHANGED doomed
  BY <1>0, <1>1, AdvanceTableInv
<1>2. CASE UNCHANGED vars
  BY <1>0, <1>2
     DEF vars, TableInv, FourBuckets, EntriesReached, ProbedInOrder, EntriesHoldValues,
         EmptyAtZero, NothingDeleted, EntriesDistinct, Passes, Home, IsEmpty
<1>3. CASE Next
  BY <1>0, <1>1, <1>3, HeadsTableInv DEF Next
<1> QED BY <1>2, <1>3

-----------------------------------------------------------------------------
(* What a lookup of s finds in the table p.                                *)
FoundIn(p, s, d) ==
  /\ p[Home(s, d)].str = s
  /\ \A e \in 0 .. d - 1 : ~IsEmpty(p[Home(s, e)]) /\ p[Home(s, e)].str # s
BoundIn(p, s) ==
  IF \E d \in 0 .. 3 : FoundIn(p, s, d)
  THEN p[Home(s, CHOOSE d \in 0 .. 3 : FoundIn(p, s, d))].value
  ELSE None

(* Bound with the table it reads made explicit: the same in this state and *)
(* in the next one.                                                        *)
AtOf(c, s, d) == (Hash[s] + d) % c
FoundOf(c, p, s, d) ==
  /\ p[AtOf(c, s, d)].str = s
  /\ \A e \in 0 .. d - 1 : ~IsEmpty(p[AtOf(c, s, e)]) /\ p[AtOf(c, s, e)].str # s
BoundOf(c, p, s) ==
  IF \E d \in 0 .. c - 1 : FoundOf(c, p, s, d)
  THEN p[AtOf(c, s, CHOOSE d \in 0 .. c - 1 : FoundOf(c, p, s, d))].value
  ELSE None

LEMMA BoundReadsTheTable ==
  ASSUME NEW s \in Symbol
  PROVE  Bound(s) = BoundOf(cap, ptr, s) /\ Bound(s)' = BoundOf(cap', ptr', s)
BY DEF Bound, FoundAt, At, BoundOf, FoundOf, AtOf, IsEmpty

LEMMA BoundInFour ==
  ASSUME NEW s \in Symbol, NEW p
  PROVE  BoundOf(4, p, s) = BoundIn(p, s)
<1>1. \A d : AtOf(4, s, d) = Home(s, d)
  BY DEF AtOf, Home
<1>2. \A d : FoundOf(4, p, s, d) <=> FoundIn(p, s, d)
  BY <1>1 DEF FoundOf, FoundIn
<1>3. 0 .. 4 - 1 = 0 .. 3
  OBVIOUS
<1> QED BY <1>1, <1>2, <1>3 DEF BoundOf, BoundIn

LEMMA BoundInNone ==
  ASSUME NEW s \in Symbol, NEW p
  PROVE  BoundOf(0, p, s) = None
BY DEF BoundOf

(* A lookup stops at one bucket only.                                      *)
LEMMA OneIsFound ==
  ASSUME NEW p, NEW s \in Symbol, NEW d \in 0 .. 3, FoundIn(p, s, d)
  PROVE  BoundIn(p, s) = p[Home(s, d)].value
<1>1. ASSUME NEW c \in 0 .. 3, FoundIn(p, s, c) PROVE c = d
  <2>1. CASE c < d
    BY <1>1, <2>1 DEF FoundIn
  <2>2. CASE d < c
    BY <1>1, <2>2 DEF FoundIn
  <2> QED BY <2>1, <2>2
<1>2. (CHOOSE c \in 0 .. 3 : FoundIn(p, s, c)) = d
  BY <1>1
<1> QED BY <1>2 DEF BoundIn

(* The entries of s are the same in two tables, and every bucket before    *)
(* one of them is in use: so is what a lookup finds.                       *)
LEMMA BoundKept ==
  ASSUME NEW p, NEW q, NEW s \in Symbol,
         \A i \in 0 .. 3 : p[i].str = s \/ q[i].str = s => p[i] = q[i],
         \A d \in 0 .. 3 : p[Home(s, d)].str = s =>
           \A e \in 0 .. d - 1 : ~IsEmpty(p[Home(s, e)]) /\ ~IsEmpty(q[Home(s, e)])
  PROVE  BoundIn(p, s) = BoundIn(q, s)
<1>1. ASSUME NEW d \in 0 .. 3 PROVE FoundIn(p, s, d) <=> FoundIn(q, s, d)
  <2>1. Home(s, d) \in 0 .. 3 /\ \A e \in 0 .. d - 1 : Home(s, e) \in 0 .. 3
    <3>1. \A e \in 0 .. d - 1 : e \in 0 .. 3
      OBVIOUS
    <3> QED BY <3>1, ProbeOrder
  <2> QED BY <2>1 DEF FoundIn
<1>2. CASE \E d \in 0 .. 3 : FoundIn(p, s, d)
  <2>1. PICK d \in 0 .. 3 : FoundIn(p, s, d)
    BY <1>2
  <2>2. FoundIn(q, s, d)
    BY <1>1, <2>1
  <2>3. p[Home(s, d)] = q[Home(s, d)]
    BY <2>1, ProbeOrder DEF FoundIn
  <2> QED BY <2>1, <2>2, <2>3, OneIsFound
<1>3. CASE ~\E d \in 0 .. 3 : FoundIn(p, s, d)
  BY <1>1, <1>3 DEF BoundIn
<1> QED BY <1>2, <1>3

(* Where the probing call's symbol is bound, before its last step.         *)
LEMMA FoundWhereItStops ==
  ASSUME TableInv, call # None
  PROVE  /\ ptr[bucket].str = call.key => Bound(call.key) = ptr[bucket].value
         /\ IsEmpty(ptr[bucket]) => Bound(call.key) = None
<1> DEFINE k == call.key
<1>1. k \in Symbol /\ cap = 4 /\ bucket \in 0 .. 3
  BY WhileProbing
<1>2. Bound(k) = BoundIn(ptr, k)
  BY <1>1, BoundReadsTheTable, BoundInFour
<1>3. PICK d \in 0 .. 3 : bucket = Home(k, d)
  BY <1>1, ProbeOrder
<1>4. CASE ptr[bucket].str = k
  <2>1. FoundIn(ptr, k, d)
    BY <1>3, <1>4, PassedAreInUse DEF FoundIn
  <2> QED BY <1>1, <1>2, <1>3, <2>1, OneIsFound, <1>4, EnvironmentAssumption DEF IsEmpty
<1>5. CASE IsEmpty(ptr[bucket])
  <2>1. \A i \in 0 .. 3 : ptr[i].str # k
    BY <1>5, EmptyEndsTheSearch
  <2>2. \A c \in 0 .. 3 : ~FoundIn(ptr, k, c)
    BY <1>1, <2>1, ProbeOrder DEF FoundIn
  <2>3. Bound(k) = None
    BY <1>2, <2>2 DEF BoundIn
  <2> QED BY <1>1, <1>5, <2>1, <2>3
<1> QED BY <1>4, <1>5

(* A step that leaves the table alone, or makes it, binds nothing anew.    *)
LEMMA BoundUnchanged ==
  ASSUME NEW s \in Symbol, UNCHANGED <<cap, ptr>>
  PROVE  Bound(s)' = Bound(s)
BY BoundReadsTheTable

LEMMA HeadsBindNothing ==
  ASSUME TableInv, NEW s \in Symbol, NEW k \in Symbol, NEW v \in Value, env_set(k, v)
  PROVE  Bound(s)' = Bound(s)
<1>1. /\ cap' = 4
      /\ \/ cap = 0 /\ len = 0 /\ ptr' = [i \in 0 .. 3 |-> Empty]
         \/ cap = 4 /\ ptr' = ptr
  BY GrowsOnce
<1>2. CASE cap = 4 /\ ptr' = ptr
  BY <1>1, <1>2, BoundUnchanged
<1>3. CASE cap = 0 /\ ptr' = [i \in 0 .. 3 |-> Empty]
  <2>1. Bound(s) = None
    BY <1>3, BoundReadsTheTable, BoundInNone
  <2>2. \A i \in 0 .. 3 : ptr'[i].str # s
    BY <1>3, EnvironmentAssumption DEF Empty
  <2>3. \A d \in 0 .. 3 : ~FoundIn(ptr', s, d)
    BY <2>2, ProbeOrder DEF FoundIn
  <2>4. BoundIn(ptr', s) = None
    BY <2>3 DEF BoundIn
  <2> QED BY <1>1, <2>1, <2>4, BoundReadsTheTable, BoundInFour
<1> QED BY <1>1, <1>2, <1>3

(* A call that ends changes at most the slot it probed: what the lookups   *)
(* of the other symbols find stays.                                        *)
LEMMA OthersKeepTheirValues ==
  ASSUME TableInv, call # None, cap' = cap, NEW new, ~IsEmpty(new),
         new.str \in {None, call.key}, ptr[bucket].str \in {None, call.key},
         ptr' = [ptr EXCEPT ![bucket] = new],
         NEW s \in Symbol, s # call.key
  PROVE  Bound(s)' = Bound(s)
<1>1. cap = 4 /\ bucket \in 0 .. 3 /\ ptr \in [0 .. 3 -> Slot]
  BY WhileProbing
<1>2. s # None
  BY EnvironmentAssumption
<1>3. ptr'[bucket] = new /\ \A i \in 0 .. 3 : i # bucket => ptr'[i] = ptr[i]
  BY <1>1
<1>4. \A i \in 0 .. 3 : ptr[i].str = s \/ ptr'[i].str = s => ptr[i] = ptr'[i]
  BY <1>2, <1>3
<1>5. ASSUME NEW d \in 0 .. 3, ptr[Home(s, d)].str = s, NEW e \in 0 .. d - 1
      PROVE  ~IsEmpty(ptr[Home(s, e)]) /\ ~IsEmpty(ptr'[Home(s, e)])
  <2>1. ~IsEmpty(ptr[Home(s, e)])
    BY <1>1, <1>5 DEF TableInv, EntriesReached
  <2>2. e \in 0 .. 3
    BY <1>5
  <2>3. Home(s, e) \in 0 .. 3
    BY <2>2, ProbeOrder
  <2> QED BY <1>3, <2>1, <2>3
<1>6. \A d \in 0 .. 3 : ptr[Home(s, d)].str = s =>
        \A e \in 0 .. d - 1 : ~IsEmpty(ptr[Home(s, e)]) /\ ~IsEmpty(ptr'[Home(s, e)])
  BY <1>5
<1>7. BoundIn(ptr, s) = BoundIn(ptr', s)
  <2> DEFINE p == ptr
             q == ptr'
  <2>1. \A i \in 0 .. 3 : p[i].str = s \/ q[i].str = s => p[i] = q[i]
    BY <1>4
  <2>2. \A d \in 0 .. 3 : p[Home(s, d)].str = s =>
          \A e \in 0 .. d - 1 : ~IsEmpty(p[Home(s, e)]) /\ ~IsEmpty(q[Home(s, e)])
    BY <1>6
  <2> HIDE DEF p, q
  <2>3. BoundIn(p, s) = BoundIn(q, s)
    BY <2>1, <2>2, BoundKept
  <2> QED BY <2>3 DEF p, q
<1> QED BY <1>1, <1>7, BoundReadsTheTable, BoundInFour

(* What the last step of a call does to the slot it probed.                *)
LEMMA LastSteps ==
  ASSUME TableInv, Advance, ~Probe
  PROVE  /\ call # None /\ cap' = cap /\ call' = None
         /\ \/ ptr' = ptr
            \/ \E new : /\ ~IsEmpty(new) /\ new.str \in {None, call.key}
                        /\ ptr[bucket].str \in {None, call.key}
                        /\ ptr' = [ptr EXCEPT ![bucket] = new]
<1>0. call # None
  BY DEF Advance, SetFound, NotFound, SetExistingFound, GetFound, DeleteFound,
         Setting, Finding
<1>a. call.key \in Symbol /\ call.key # None /\ ptr[bucket] \in Slot
  BY <1>0, WhileProbing
<1>1. CASE SetFound
  <2> DEFINE new == Entry(call.key, call.value)
  <2>1. ~IsEmpty(new) /\ new.str = call.key
    BY <1>a DEF Entry, IsEmpty
  <2>2. ptr[bucket].str \in {None, call.key} /\ cap' = cap /\ call' = None
        /\ ptr' = [ptr EXCEPT ![bucket] = new]
    BY <1>1 DEF SetFound, StopsAtEmpty, Probed, Returns
  <2> QED BY <1>0, <2>1, <2>2
<1>2. CASE NotFound \/ GetFound
  BY <1>0, <1>2 DEF NotFound, GetFound, Returns, table
<1>3. CASE SetExistingFound
  <2> DEFINE new == [ptr[bucket] EXCEPT !.value = call.value]
  <2>1. ptr[bucket].str = call.key /\ cap' = cap /\ call' = None
        /\ ptr' = [ptr EXCEPT ![bucket] = new]
    BY <1>3 DEF SetExistingFound, Probed, Returns
  <2>2. ~IsEmpty(new) /\ new.str = call.key
    BY <1>a, <2>1 DEF IsEmpty, Slot
  <2> QED BY <1>0, <2>1, <2>2
<1>4. CASE DeleteFound
  <2> DEFINE new == [str |-> None, hash |-> 1, value |-> ptr[bucket].value]
  <2>1. ptr[bucket].str = call.key /\ cap' = cap /\ call' = None
        /\ ptr' = [ptr EXCEPT ![bucket] = new]
    BY <1>4 DEF DeleteFound, Probed, Returns
  <2>2. ~IsEmpty(new) /\ new.str = None
    BY DEF IsEmpty
  <2> QED BY <1>0, <2>1, <2>2
<1> QED BY <1>1, <1>2, <1>3, <1>4 DEF Advance

LEMMA StepTouchesOneSymbol ==
  ASSUME TableInv, [Next]_vars, NEW s \in Symbol, Bound(s)' # Bound(s)
  PROVE  call # None /\ call.key = s
<1>1. CASE UNCHANGED <<cap, ptr>>
  BY <1>1, BoundUnchanged
<1>2. CASE \E k \in Symbol, v \in Value : env_set(k, v)
  BY <1>2, HeadsBindNothing
<1>3. CASE Advance /\ ~Probe
  <2>1. /\ call # None /\ cap' = cap
        /\ \/ ptr' = ptr
           \/ \E new : /\ ~IsEmpty(new) /\ new.str \in {None, call.key}
                       /\ ptr[bucket].str \in {None, call.key}
                       /\ ptr' = [ptr EXCEPT ![bucket] = new]
    BY <1>3, LastSteps
  <2> QED BY <1>1, <2>1, OthersKeepTheirValues
<1>4. CASE Probe \/ UNCHANGED vars
  BY <1>1, <1>4 DEF Probe, vars, table
<1>5. CASE \/ \E k \in Symbol, v \in Value : env_set_existing(k, v)
           \/ \E k \in Symbol : env_get(k) \/ env_delete(k)
  BY <1>1, <1>5 DEF env_set_existing, env_get, env_delete, Lookup, table
<1> QED BY <1>2, <1>3, <1>4, <1>5 DEF Next

(* A call on one symbol changes what a load of any other finds in no way:  *)
(* deletions (env_delete) cut no probe and their reuse hides no entry, for *)
(* every hash function and every order of calls.                           *)
THEOREM OthersAreUntouched == Spec => OthersUntouched
<1>1. TableInv /\ [Next]_vars =>
        [\A s \in Symbol : Bound(s)' # Bound(s) => call # None /\ call.key = s]_vars
  BY StepTouchesOneSymbol
<1> QED BY <1>1, InitTableInv, NextTableInv, PTL DEF Spec, OthersUntouched

-----------------------------------------------------------------------------
(* Refinement: while nothing is deleted the table is a map.                *)

(* An entry written where the probe stopped is the one that is found.      *)
LEMMA WrittenIsFound ==
  ASSUME TableInv, call # None, cap' = cap, NEW k \in Symbol, k = call.key,
         NEW new, new.str = k, ptr' = [ptr EXCEPT ![bucket] = new]
  PROVE  Bound(k)' = new.value
<1> DEFINE q == ptr'
<1>1. k \in Symbol /\ cap = 4 /\ bucket \in 0 .. 3 /\ ptr \in [0 .. 3 -> Slot]
  BY WhileProbing
<1>2. \A s \in Symbol : Bound(s)' = BoundIn(ptr', s)
  BY <1>1, BoundReadsTheTable, BoundInFour
<1>3. PICK d \in 0 .. 3 : bucket = Home(k, d)
  BY <1>1, ProbeOrder
<1>4. q[bucket] = new /\ \A i \in 0 .. 3 : i # bucket => q[i] = ptr[i]
  BY <1>1
<1>5. ASSUME NEW e \in 0 .. d - 1 PROVE ~IsEmpty(q[Home(k, e)]) /\ q[Home(k, e)].str # k
  <2>1. e \in 0 .. 3 /\ e # d
    BY <1>5
  <2>2. Home(k, e) \in 0 .. 3 /\ Home(k, e) # bucket
    BY <1>1, <1>3, <2>1, ProbeOrder
  <2>3. q[Home(k, e)] = ptr[Home(k, e)]
    BY <1>4, <2>2
  <2> QED BY <1>3, <2>3, PassedAreInUse
<1> HIDE DEF q
<1>6. FoundIn(q, k, d)
  BY <1>3, <1>4, <1>5 DEF FoundIn
<1>7. BoundIn(q, k) = new.value
  BY <1>1, <1>3, <1>4, <1>6, OneIsFound
<1> QED BY <1>1, <1>2, <1>7 DEF q

(* The map that SymbolMap is given, and its value returned.                *)
Map == [s \in Symbol |-> IF doomed = {} THEN Bound(s) ELSE None]
Ret == IF doomed = {} THEN ret ELSE None

(* A call that ends with a value for k in the table is a Set of k.         *)
LEMMA SetMaps ==
  ASSUME TableInv, doomed = {}, doomed' = doomed, call # None, cap' = cap,
         NEW k \in Symbol, k = call.key, NEW v \in Value, ret' = v,
         NEW new, new.str = k, new.value = v, ptr[bucket].str \in {None, k},
         ptr' = [ptr EXCEPT ![bucket] = new]
  PROVE  Promise!Set(k, v)
<1>1. Bound(k)' = v
  BY WrittenIsFound
<1>2. ~IsEmpty(new)
  BY EnvironmentAssumption DEF IsEmpty
<1>3. \A s \in Symbol : s # k => Bound(s)' = Bound(s)
  BY <1>2, OthersKeepTheirValues
<1>4. Map' = [Map EXCEPT ![k] = v]
  BY <1>1, <1>3 DEF Map
<1>5. Ret' = v
  BY DEF Ret
<1> QED BY <1>4, <1>5 DEF Promise!Set, Map, Ret

LEMMA StepMaps ==
  ASSUME TableInv, [Next]_vars
  PROVE  [Promise!Next]_(Promise!vars)
<1>0. doomed' = doomed
  BY DEF Next, vars
<1>a. ASSUME doomed = {}, \A s \in Symbol : Bound(s)' = Bound(s), ret' = ret
      PROVE  UNCHANGED Promise!vars
  BY <1>0, <1>a DEF Promise!vars
<1>b. ASSUME doomed = {}, UNCHANGED <<cap, ptr>>, NEW s \in Symbol, ret' = Bound(s)
      PROVE  Promise!Get(s)
  <2>1. \A t \in Symbol : Bound(t)' = Bound(t)
    BY <1>b, BoundUnchanged
  <2> QED BY <1>0, <1>b, <2>1 DEF Promise!Get
<1>c. ASSUME doomed = {}, UNCHANGED <<cap, ptr>>, NEW s \in Symbol, Bound(s) = None,
             ret' = None, NEW v \in Value
      PROVE  Promise!SetExisting(s, v)
  <2>1. \A t \in Symbol : Bound(t)' = Bound(t)
    BY <1>c, BoundUnchanged
  <2> QED BY <1>0, <1>c, <2>1 DEF Promise!SetExisting
<1>1. CASE doomed # {}
  BY <1>0, <1>1 DEF Promise!vars
<1> SUFFICES ASSUME doomed = {} PROVE [Promise!Next]_(Promise!vars)
  BY <1>1
<1>2. CASE UNCHANGED vars \/ Probe
  <2>1. UNCHANGED <<cap, ptr, ret>>
    BY <1>2 DEF vars, Probe, table
  <2> QED BY <1>a, <2>1, BoundUnchanged
<1>3. ASSUME NEW k \in Symbol, NEW v \in Value, env_set(k, v)
      PROVE  [Promise!Next]_(Promise!vars)
  <2>1. ret' = ret
    BY <1>3 DEF env_set
  <2> QED BY <1>3, <1>a, <2>1, HeadsBindNothing
<1>4. ASSUME NEW f, NEW k \in Symbol, NEW v, Lookup(f, k, v)
      PROVE  /\ UNCHANGED <<cap, ptr>>
             /\ ret' = ret \/ (ret' = None /\ Bound(k) = None)
  <2>1. UNCHANGED <<cap, ptr>> /\ call = None
    BY <1>4 DEF Lookup, table
  <2>2. CASE len # 0
    <3>1. ret' = ret
      BY <1>4, <2>2, Zenon DEF Lookup
    <3> QED BY <2>1, <3>1, Zenon
  <2>3. CASE len = 0
    <3>1. ret' = None
      BY <1>4, <2>3 DEF Lookup
    <3>2. CASE cap = 0
      BY <2>1, <3>1, <3>2, BoundReadsTheTable, BoundInNone
    <3>3. CASE cap = 4
      <4>1. \A i \in 0 .. 3 : ptr[i].str # k
        BY <2>3, <3>3, EnvironmentAssumption DEF TableInv, EmptyAtZero
      <4>2. \A d \in 0 .. 3 : ~FoundIn(ptr, k, d)
        BY <4>1, ProbeOrder DEF FoundIn
      <4>3. Bound(k) = None
        BY <3>3, <4>2, BoundReadsTheTable, BoundInFour DEF BoundIn
      <4> QED BY <2>1, <3>1, <4>3
    <3> QED BY <3>2, <3>3 DEF TableInv, FourBuckets
  <2> QED BY <2>2, <2>3
<1>5. ASSUME NEW k \in Symbol, NEW v \in Value, env_set_existing(k, v)
      PROVE  [Promise!Next]_(Promise!vars)
  <2>1. UNCHANGED <<cap, ptr>> /\ (ret' = ret \/ (ret' = None /\ Bound(k) = None))
    BY <1>4, <1>5 DEF env_set_existing
  <2>2. CASE ret' = ret
    BY <1>a, <2>1, <2>2, BoundUnchanged
  <2>3. CASE ret' = None /\ Bound(k) = None
    BY <1>c, <2>1, <2>3 DEF Promise!Next
  <2> QED BY <2>1, <2>2, <2>3
<1>6. ASSUME NEW k \in Symbol, env_get(k) PROVE [Promise!Next]_(Promise!vars)
  <2>1. UNCHANGED <<cap, ptr>> /\ (ret' = ret \/ (ret' = None /\ Bound(k) = None))
    BY <1>4, <1>6 DEF env_get
  <2>2. CASE ret' = ret
    BY <1>a, <2>1, <2>2, BoundUnchanged
  <2>3. CASE ret' = None /\ Bound(k) = None
    BY <1>b, <2>1, <2>3 DEF Promise!Next
  <2> QED BY <2>1, <2>2, <2>3
<1>7. ASSUME NEW k \in Symbol, env_delete(k) PROVE FALSE
  BY <1>7 DEF env_delete
<1>8. CASE Advance /\ ~Probe
  <2> DEFINE k == call.key
             e == ptr[bucket]
  <2>0. call # None
    BY <1>8 DEF Advance, SetFound, NotFound, SetExistingFound, GetFound, DeleteFound,
         Setting, Finding
  <2>a. /\ k \in Symbol /\ k # None /\ cap = 4 /\ bucket \in 0 .. 3 /\ e \in Slot
        /\ call \in Call
    BY <2>0, WhileProbing
  <2>b. /\ e.str = k => Bound(k) = e.value
        /\ IsEmpty(e) => Bound(k) = None
    BY <2>0, FoundWhereItStops
  <2>c. call.f \in {"env_set", "env_set_existing"} => call.value \in Value
    BY <2>0 DEF TableInv, EntriesHoldValues
  <2>1. CASE SetFound
    <3> DEFINE new == Entry(k, call.value)
    <3>1. /\ call.f = "env_set" /\ e.str \in {None, k} /\ cap' = cap /\ ret' = call.value
          /\ ptr' = [ptr EXCEPT ![bucket] = new]
      BY <2>1 DEF SetFound, Setting, StopsAtEmpty, Probed, Returns
    <3>2. call.value \in Value /\ new.str = k /\ new.value = call.value
      BY <2>c, <3>1 DEF Entry
    <3> HIDE DEF new
    <3>3. Promise!Set(k, call.value)
      BY <1>0, <2>0, <2>a, <3>1, <3>2, SetMaps
    <3> QED BY <2>a, <3>2, <3>3 DEF Promise!Next
  <2>2. CASE NotFound
    <3>1. UNCHANGED <<cap, ptr>> /\ ret' = None /\ IsEmpty(e)
          /\ call.f \in {"env_set_existing", "env_get", "env_delete"}
      BY <2>2, <2>a DEF NotFound, Finding, StopsAtFind, Probed, Returns, table, Call
    <3>2. CASE call.f = "env_set_existing"
      <4>1. Promise!SetExisting(k, call.value)
        BY <1>c, <2>a, <2>b, <2>c, <3>1, <3>2
      <4> QED BY <2>a, <2>c, <3>2, <4>1 DEF Promise!Next
    <3>3. CASE call.f # "env_set_existing"
      <4>1. Promise!Get(k)
        BY <1>b, <2>a, <2>b, <3>1
      <4> QED BY <2>a, <4>1 DEF Promise!Next
    <3> QED BY <3>2, <3>3
  <2>3. CASE SetExistingFound
    <3> DEFINE new == [e EXCEPT !.value = call.value]
    <3>1. /\ call.f = "env_set_existing" /\ e.str = k /\ cap' = cap /\ ret' = call.value
          /\ ptr' = [ptr EXCEPT ![bucket] = new]
      BY <2>3 DEF SetExistingFound, Finding, Probed, Returns
    <3>2. call.value \in Value /\ new.str = k /\ new.value = call.value
      BY <2>a, <2>c, <3>1 DEF Slot
    <3> HIDE DEF new
    <3>3. Promise!Set(k, call.value)
      BY <1>0, <2>0, <2>a, <3>1, <3>2, SetMaps
    <3> QED BY <2>a, <3>2, <3>3 DEF Promise!Next
  <2>4. CASE GetFound
    <3>1. UNCHANGED <<cap, ptr>> /\ ret' = e.value /\ e.str = k
      BY <2>4 DEF GetFound, Probed, Returns, table
    <3>2. Promise!Get(k)
      BY <1>b, <2>a, <2>b, <3>1
    <3> QED BY <2>a, <3>2 DEF Promise!Next
  <2>5. CASE DeleteFound
    BY <2>0, <2>5 DEF TableInv, NothingDeleted, DeleteFound
  <2> QED BY <1>8, <2>1, <2>2, <2>3, <2>4, <2>5 DEF Advance
<1> QED BY <1>2, <1>3, <1>5, <1>6, <1>7, <1>8 DEF Next

LEMMA InitMaps == Init => Promise!Init
<1> SUFFICES ASSUME Init PROVE Promise!Init
  OBVIOUS
<1>1. cap = 0 /\ ret = None
  BY DEF Init
<1>2. \A s \in Symbol : Bound(s) = None
  BY <1>1, BoundReadsTheTable, BoundInNone
<1> QED BY <1>1, <1>2 DEF Promise!Init

(* For a host that deletes nothing, as the VM, DEFINE_SYMBOL, ASSIGN_SYMBOL *)
(* and LOAD_SYMBOL see a map: the probing of env_set, env_set_existing and *)
(* env_get finds each symbol's one entry wherever collisions left it, for  *)
(* every hash function and any number of symbols.                          *)
THEOREM EnvironmentRefinesMap == Spec => ImplementsSymbolMap
<1>1. TableInv /\ [Next]_vars => [Promise!Next]_(Promise!vars)
  BY StepMaps
<1> QED BY <1>1, InitTableInv, NextTableInv, InitMaps, PTL
        DEF Spec, ImplementsSymbolMap, Promise!Spec
===============================================================================
