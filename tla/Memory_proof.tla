------------------------------ MODULE Memory_proof ------------------------------
(***************************************************************************)
(* Proofs about Memory, for an arena and clients of any size.              *)
(***************************************************************************)
EXTENDS Memory, TLAPS

(* Every block of the arena is small, not empty and ends before top; a     *)
(* block of malloc is large, or was asked for when top had met the end of  *)
(* the arena, where it stays.                                              *)
BlocksOK ==
  \A c \in Client :
    /\ block[c].where = "NULL" => block[c].size = 0
    /\ block[c].where = "arena" => /\ block[c].at + block[c].size <= top
                                   /\ 0 < block[c].size /\ block[c].size <= SMALL
    /\ block[c].where = "malloc" => block[c].size > SMALL \/ top = MEM_STACK_SIZE

IInv == MemTypeOK /\ BlocksOK /\ BlocksDisjoint /\ KeepsContents

-----------------------------------------------------------------------------
LEMMA InitIInv == Init => IInv
<1> SUFFICES ASSUME Init PROVE IInv
  OBVIOUS
<1>1. MemTypeOK
  <2>1. \A a \in Array : 0 * ElemSize[a] = 0
    BY MemoryAssumption
  <2> QED BY <2>1, MemoryAssumption DEF Init, MemTypeOK, Block, NULL, Client
<1>2. BlocksOK /\ BlocksDisjoint /\ KeepsContents
  BY MemoryAssumption DEF Init, BlocksOK, BlocksDisjoint, KeepsContents, NULL, Client
<1> QED BY <1>1, <1>2 DEF IInv

(* What a call of memory() does to the blocks. *)
LEMMA MemoryStep ==
  ASSUME IInv, NEW c \in Client, NEW size \in Nat, memory(c, size)
  PROVE  /\ top' \in Nat /\ block' \in [Client -> Block]
         /\ BlocksOK' /\ BlocksDisjoint'
         /\ block'[c].size = size
         /\ \A d \in Client \ {c} : block'[d] = block[d]
         /\ ~ToMalloc(size) => block'[c].where \in {"NULL", "arena"}
         /\ ToMalloc(size) => block'[c].where \in {"NULL", "malloc"}
         /\ size > 0 => block'[c].where # "NULL"
<1>1. /\ block \in [Client -> Block] /\ top \in Nat
      /\ BlocksOK /\ BlocksDisjoint
  BY DEF IInv, MemTypeOK
<1>2. MEM_STACK_SIZE \in Nat /\ SMALL \in Nat /\ MIN \in Nat \ {0}
  BY MemoryAssumption
<1> DEFINE b == IF size = 0 THEN NULL
                ELSE IF ToMalloc(size) THEN [where |-> "malloc", at |-> 0, size |-> size]
                ELSE [where |-> "arena", at |-> top, size |-> size]
<1>3. b \in Block /\ b.size = size
  BY <1>1 DEF Block, NULL
<1>4. block' = [block EXCEPT ![c] = b]
  BY DEF memory
<1>5. block' \in [Client -> Block] /\ block'[c] = b /\ \A d \in Client \ {c} : block'[d] = block[d]
  BY <1>1, <1>3, <1>4
<1>6. CASE size = 0
  <2>1. top' = top /\ b.where = "NULL"
    BY <1>6 DEF memory, NULL
  <2> QED BY <1>1, <1>3, <1>5, <1>6, <2>1 DEF BlocksOK, BlocksDisjoint, Block
<1>7. CASE size # 0 /\ ToMalloc(size)
  <2>1. top' = top /\ b.where = "malloc"
    BY <1>7 DEF memory
  <2> QED BY <1>1, <1>3, <1>5, <1>7, <2>1 DEF BlocksOK, BlocksDisjoint, Block, ToMalloc
<1>8. CASE size # 0 /\ ~ToMalloc(size)
  <2>1. /\ top' \in Nat /\ top' >= top + size
        /\ b.where = "arena" /\ b.at = top
    BY <1>1, <1>2, <1>8 DEF memory
  <2>2. size <= SMALL /\ top # MEM_STACK_SIZE
    BY <1>2, <1>8 DEF ToMalloc
  <2> HIDE DEF b
  <2>3. BlocksOK'
    <3> SUFFICES ASSUME NEW d \in Client
                 PROVE  /\ block'[d].where = "NULL" => block'[d].size = 0
                        /\ block'[d].where = "arena" =>
                             /\ block'[d].at + block'[d].size <= top'
                             /\ 0 < block'[d].size /\ block'[d].size <= SMALL
                        /\ block'[d].where = "malloc" =>
                             block'[d].size > SMALL \/ top' = MEM_STACK_SIZE
      BY DEF BlocksOK
    <3>1. CASE d = c
      BY <3>1, <1>3, <1>5, <1>1, <1>8, <2>1, <2>2
    <3>2. CASE d # c
      <4>1. block'[d] = block[d] /\ block[d].at \in Nat /\ block[d].size \in Nat
        BY <3>2, <1>1, <1>5 DEF Block
      <4> QED BY <4>1, <1>1, <2>1, <2>2 DEF BlocksOK
    <3> QED BY <3>1, <3>2
  <2>4. BlocksDisjoint'
    <3> SUFFICES ASSUME NEW d \in Client, NEW e \in Client, d # e,
                        block'[d].where = "arena", block'[e].where = "arena"
                 PROVE  \/ block'[d].at + block'[d].size <= block'[e].at
                        \/ block'[e].at + block'[e].size <= block'[d].at
      BY DEF BlocksDisjoint
    <3>1. CASE d # c /\ e # c
      BY <3>1, <1>1, <1>5 DEF BlocksDisjoint
    <3>2. CASE d = c
      BY <3>2, <1>1, <1>5, <2>1 DEF BlocksOK
    <3>3. CASE e = c
      BY <3>3, <1>1, <1>5, <2>1 DEF BlocksOK
    <3> QED BY <3>1, <3>2, <3>3
  <2> QED BY <1>3, <1>5, <1>8, <2>1, <2>3, <2>4
<1> QED BY <1>6, <1>7, <1>8

LEMMA ReleaseStep ==
  ASSUME IInv, NEW c \in Client, release(c)
  PROVE  /\ top' \in Nat /\ block' \in [Client -> Block]
         /\ BlocksOK' /\ BlocksDisjoint'
         /\ block'[c] = NULL
         /\ \A d \in Client \ {c} : block'[d] = block[d]
  BY DEF release, IInv, MemTypeOK, BlocksOK, BlocksDisjoint, Block, NULL

-----------------------------------------------------------------------------
(* The arithmetic of capacities. *)
LEMMA Sizes ==
  ASSUME NEW i \in Nat, NEW n \in Nat, NEW e \in Nat \ {0}
  PROVE  /\ n * e \in Nat
         /\ i <= n => i * e <= n * e
         /\ n * e = 0 => n = 0
         /\ 0 * e = 0
<1>1. n * e \in Nat /\ 0 * e = 0
  OBVIOUS
<1>2. ASSUME i <= n PROVE i * e <= n * e
  <2>1. PICK k \in Nat : n = i + k
    BY <1>2
  <2>2. n * e = i * e + k * e
    BY <2>1
  <2>3. k * e \in Nat /\ i * e \in Nat
    BY <2>1
  <2> QED BY <2>2, <2>3
<1>3. ASSUME n * e = 0 PROVE n = 0
  BY <1>3
<1> QED BY <1>1, <1>2, <1>3

LEMMA GrowFacts ==
  ASSUME NEW n \in Nat
  PROVE  GROW_CAP(n) \in Nat /\ GROW_CAP(n) > n
  BY DEF GROW_CAP

(* What an array is, with its capacity, its memory and its contents.       *)
LEMMA ArrayFacts ==
  ASSUME IInv, NEW a \in Array
  PROVE  /\ a \in Client /\ ElemSize[a] \in Nat \ {0}
         /\ cap[a] \in Nat /\ len[a] \in Nat /\ len[a] <= cap[a]
         /\ written[a] \in Seq(Item) /\ len[a] = Len(written[a])
         /\ vals[a] \in Seq(Item \cup {Junk}) /\ Len(vals[a]) = cap[a]
         /\ block[a] \in Block /\ block[a].size = cap[a] * ElemSize[a]
         /\ \A i \in 1 .. len[a] :
              block[a].where = "arena" \/ i * ElemSize[a] > SMALL => vals[a][i] = written[a][i]
  BY MemoryAssumption DEF IInv, MemTypeOK, Client, KeepsContents

(* A step that replaces one array and leaves the others alone.             *)
LEMMA OneArray ==
  ASSUME IInv, NEW a \in Array, NEW n \in Nat, NEW m \in Nat,
         NEW mem \in Seq(Item \cup {Junk}), NEW given \in Seq(Item),
         top' \in Nat, block' \in [Client -> Block], BlocksOK', BlocksDisjoint',
         \A d \in Client \ {a} : block'[d] = block[d],
         cap' = [cap EXCEPT ![a] = n], len' = [len EXCEPT ![a] = m],
         vals' = [vals EXCEPT ![a] = mem], written' = [written EXCEPT ![a] = given],
         m <= n, Len(mem) = n, Len(given) = m, block'[a].size = n * ElemSize[a],
         \A i \in 1 .. m :
           block'[a].where = "arena" \/ i * ElemSize[a] > SMALL => mem[i] = given[i]
  PROVE  IInv'
<1>1. /\ cap' \in [Array -> Nat] /\ len' \in [Array -> Nat]
      /\ vals' \in [Array -> Seq(Item \cup {Junk})]
      /\ written' \in [Array -> Seq(Item)]
  BY DEF IInv, MemTypeOK
<1>2. /\ cap'[a] = n /\ len'[a] = m /\ vals'[a] = mem /\ written'[a] = given
  BY DEF IInv, MemTypeOK
<1>3. ASSUME NEW d \in Array, d # a
      PROVE  /\ cap'[d] = cap[d] /\ len'[d] = len[d] /\ vals'[d] = vals[d]
             /\ written'[d] = written[d] /\ block'[d] = block[d]
  BY <1>3 DEF IInv, MemTypeOK, Client
<1>4. MemTypeOK'
  <2>1. ASSUME NEW d \in Array
        PROVE  /\ len'[d] <= cap'[d] /\ len'[d] = Len(written'[d])
               /\ Len(vals'[d]) = cap'[d]
               /\ block'[d].size = cap'[d] * ElemSize[d]
    <3>1. CASE d = a
      BY <3>1, <1>2
    <3>2. CASE d # a
      BY <3>2, <1>3, ArrayFacts
    <3> QED BY <3>1, <3>2
  <2> QED BY <1>1, <2>1 DEF MemTypeOK
<1>5. KeepsContents'
  <2> SUFFICES ASSUME NEW d \in Array, NEW i \in 1 .. len'[d],
                      block'[d].where = "arena" \/ i * ElemSize[d] > SMALL
               PROVE  vals'[d][i] = written'[d][i]
    BY DEF KeepsContents
  <2>1. CASE d = a
    BY <2>1, <1>2
  <2>2. CASE d # a
    <3>1. /\ vals'[d] = vals[d] /\ written'[d] = written[d]
          /\ block'[d] = block[d] /\ len'[d] = len[d]
      BY <2>2, <1>3
    <3>2. block[d].where = "arena" \/ i * ElemSize[d] > SMALL
      BY <3>1
    <3>3. vals[d][i] = written[d][i]
      BY <3>1, <3>2 DEF IInv, KeepsContents
    <3> QED BY <3>1, <3>3
  <2> QED BY <2>1, <2>2
<1> QED BY <1>4, <1>5 DEF IInv

-----------------------------------------------------------------------------
LEMMA WriteIInv ==
  ASSUME IInv, NEW a \in Array, NEW v \in Item, write(a, v)
  PROVE  IInv'
<1> DEFINE given == Append(written[a], v)
           n == GROW_CAP(cap[a])
           e == ElemSize[a]
<1>1. /\ a \in Client /\ e \in Nat \ {0} /\ cap[a] \in Nat /\ len[a] \in Nat
      /\ len[a] <= cap[a] /\ len[a] + 1 \in Nat
      /\ given \in Seq(Item) /\ Len(given) = len[a] + 1
      /\ given[len[a] + 1] = v /\ \A i \in 1 .. len[a] : given[i] = written[a][i]
      /\ vals[a] \in Seq(Item \cup {Junk}) /\ Len(vals[a]) = cap[a]
  BY ArrayFacts
<1>2. len' = [len EXCEPT ![a] = len[a] + 1] /\ written' = [written EXCEPT ![a] = given]
  BY DEF write
<1>3. CASE ~Full(a)
  <2> DEFINE mem == [vals[a] EXCEPT ![len[a] + 1] = v]
  <2>1. len[a] + 1 <= cap[a]
    BY <1>1, <1>3 DEF Full
  <2>2. /\ mem \in Seq(Item \cup {Junk}) /\ Len(mem) = cap[a]
        /\ mem[len[a] + 1] = v /\ \A i \in 1 .. len[a] : mem[i] = vals[a][i]
    BY <1>1, <2>1
  <2>3. /\ UNCHANGED <<top, block, cap>>
        /\ vals' = [vals EXCEPT ![a] = mem]
    BY <1>3 DEF write
  <2>4. cap' = [cap EXCEPT ![a] = cap[a]]
    BY <2>3 DEF IInv, MemTypeOK
  <2>5. /\ top' \in Nat /\ block' \in [Client -> Block] /\ BlocksOK' /\ BlocksDisjoint'
        /\ \A d \in Client \ {a} : block'[d] = block[d]
        /\ block'[a].size = cap[a] * e
    <3>1. block[a].size = cap[a] * ElemSize[a]
      BY ArrayFacts
    <3>2. top \in Nat /\ block \in [Client -> Block] /\ BlocksOK /\ BlocksDisjoint
      BY DEF IInv, MemTypeOK
    <3>3. BlocksOK' /\ BlocksDisjoint'
      BY <2>3, <3>2 DEF BlocksOK, BlocksDisjoint
    <3> QED BY <2>3, <3>1, <3>2, <3>3
  <2>6. ASSUME NEW i \in 1 .. len[a] + 1,
               block'[a].where = "arena" \/ i * e > SMALL
        PROVE  mem[i] = given[i]
    <3>1. CASE i = len[a] + 1
      BY <3>1, <1>1, <2>2
    <3>2. CASE i # len[a] + 1
      <4>1. i \in 1 .. len[a] /\ block' = block
        BY <3>2, <1>1, <2>3
      <4>2. vals[a][i] = written[a][i]
        BY <4>1, <2>6, ArrayFacts
      <4> QED BY <4>1, <4>2, <1>1, <2>2
    <3> QED BY <3>1, <3>2
  <2> HIDE DEF mem, given, e
  <2> QED BY <1>1, <1>2, <2>1, <2>2, <2>3, <2>4, <2>5, <2>6, OneArray DEF e
<1>4. CASE Full(a)
  <2> DEFINE mem == [Grown(a, n) EXCEPT ![len[a] + 1] = v]
  <2>1. n \in Nat /\ n > cap[a] /\ len[a] = cap[a]
    BY <1>1, <1>4, GrowFacts DEF Full
  <2>2. n * e \in Nat /\ n * e >= cap[a] * e /\ n * e # 0
    BY <1>1, <2>1, Sizes
  <2>3. /\ memory(a, n * e)
        /\ cap' = [cap EXCEPT ![a] = n]
        /\ vals' = [vals EXCEPT ![a] = mem]
    BY <1>4 DEF write
  <2>4. /\ top' \in Nat /\ block' \in [Client -> Block]
        /\ BlocksOK' /\ BlocksDisjoint'
        /\ block'[a].size = n * e
        /\ \A d \in Client \ {a} : block'[d] = block[d]
        /\ block'[a].where = "arena" => ~ToMalloc(n * e)
    BY <1>1, <2>2, <2>3, MemoryStep
  <2>5. /\ Grown(a, n) \in Seq(Item \cup {Junk}) /\ Len(Grown(a, n)) = n
        /\ \A i \in 1 .. n : Grown(a, n)[i] =
             IF i <= cap[a] /\ ~Forgets(a, n * e) THEN vals[a][i] ELSE Junk
    <3>1. Grown(a, n) \in [1 .. n -> Item \cup {Junk}]
      BY <1>1, <2>1 DEF Grown
    <3> QED BY <3>1, <2>1 DEF Grown
  <2>6. /\ mem \in Seq(Item \cup {Junk}) /\ Len(mem) = n
        /\ mem[len[a] + 1] = v /\ \A i \in 1 .. len[a] : mem[i] = Grown(a, n)[i]
    <3> DEFINE g == Grown(a, n)
    <3>1. g \in Seq(Item \cup {Junk}) /\ Len(g) = n
      BY <2>5
    <3> HIDE DEF g
    <3>2. len[a] + 1 \in 1 .. n
      BY <1>1, <2>1
    <3>3. /\ [g EXCEPT ![len[a] + 1] = v] \in Seq(Item \cup {Junk})
          /\ Len([g EXCEPT ![len[a] + 1] = v]) = n
          /\ [g EXCEPT ![len[a] + 1] = v][len[a] + 1] = v
          /\ \A i \in 1 .. len[a] : [g EXCEPT ![len[a] + 1] = v][i] = g[i]
      BY <1>1, <2>1, <3>1, <3>2
    <3> QED BY <3>3 DEF g
  <2>7. ASSUME NEW i \in 1 .. len[a],
               block'[a].where = "arena" \/ i * e > SMALL
        PROVE  ~Forgets(a, n * e) /\ vals[a][i] = written[a][i]
    <3>1. /\ block[a] \in Block /\ block[a].size = cap[a] * e
          /\ i * e <= cap[a] * e /\ i * e \in Nat /\ cap[a] * e \in Nat
          /\ cap[a] * e # 0 /\ SMALL \in Nat /\ MEM_STACK_SIZE \in Nat
      <4>1. i \in Nat /\ i <= cap[a] /\ cap[a] # 0
        BY <1>1, <2>1
      <4> QED BY <4>1, <1>1, Sizes, ArrayFacts, MemoryAssumption
    <3>2. CASE block'[a].where = "arena"
      <4>1. ~ToMalloc(n * e)
        BY <3>2, <2>4
      <4>2. block[a].where # "malloc"
        BY <4>1, <3>1, <1>1, <2>2, SMTT(30) DEF ToMalloc, IInv, BlocksOK
      <4>3. block[a].where = "arena"
        BY <4>2, <3>1, <1>1 DEF IInv, BlocksOK, Block
      <4> QED BY <4>1, <4>3, ArrayFacts DEF Forgets
    <3>3. CASE i * e > SMALL
      <4>1. block[a].where # "arena"
        BY <3>3, <3>1, <1>1 DEF IInv, BlocksOK
      <4> QED BY <4>1, <3>3, ArrayFacts DEF Forgets, InArena
    <3> QED BY <2>7, <3>2, <3>3
  <2>8. ASSUME NEW i \in 1 .. len[a] + 1,
               block'[a].where = "arena" \/ i * e > SMALL
        PROVE  mem[i] = given[i]
    <3>1. CASE i = len[a] + 1
      BY <3>1, <1>1, <2>6
    <3>2. CASE i # len[a] + 1
      <4>1. i \in 1 .. len[a] /\ i \in 1 .. n /\ i <= cap[a]
        BY <3>2, <1>1, <2>1
      <4> QED BY <4>1, <1>1, <2>5, <2>6, <2>7, <2>8
    <3> QED BY <3>1, <3>2
  <2>9. len[a] + 1 <= n
    BY <1>1, <2>1
  <2> HIDE DEF mem, given, e, n
  <2> QED BY <1>1, <1>2, <2>1, <2>3, <2>4, <2>6, <2>8, <2>9, OneArray DEF e
<1> QED BY <1>3, <1>4

LEMMA InitArrayIInv ==
  ASSUME IInv, NEW a \in Array, NEW v \in Item, NEW n \in 1 .. MaxLen, init(a, v, n)
  PROVE  IInv'
<1> DEFINE mem == [i \in 1 .. n |-> v]
<1>1. n \in Nat /\ a \in Client /\ ElemSize[a] \in Nat \ {0}
  BY ArrayFacts, MemoryAssumption
<1>2. n * ElemSize[a] \in Nat
  BY <1>1
<1>3. /\ mem \in Seq(Item) /\ mem \in Seq(Item \cup {Junk}) /\ Len(mem) = n
  BY <1>1
<1>4. /\ memory(a, n * ElemSize[a])
      /\ cap' = [cap EXCEPT ![a] = n] /\ len' = [len EXCEPT ![a] = n]
      /\ vals' = [vals EXCEPT ![a] = mem] /\ written' = [written EXCEPT ![a] = mem]
  BY DEF init
<1>5. /\ top' \in Nat /\ block' \in [Client -> Block]
      /\ BlocksOK' /\ BlocksDisjoint'
      /\ block'[a].size = n * ElemSize[a]
      /\ \A d \in Client \ {a} : block'[d] = block[d]
  BY <1>1, <1>2, <1>4, MemoryStep
<1> HIDE DEF mem
<1>6. n <= n /\ \A i \in 1 .. n : mem[i] = mem[i]
  BY <1>1
<1> QED BY <1>1, <1>3, <1>4, <1>5, <1>6, OneArray

LEMMA FreeIInv ==
  ASSUME IInv, NEW a \in Array, free(a)
  PROVE  IInv'
<1>1. a \in Client /\ 0 * ElemSize[a] = 0
  BY ArrayFacts
<1>2. /\ release(a)
      /\ cap' = [cap EXCEPT ![a] = 0] /\ len' = [len EXCEPT ![a] = 0]
      /\ vals' = [vals EXCEPT ![a] = <<>>] /\ written' = [written EXCEPT ![a] = <<>>]
  BY DEF free
<1>3. /\ top' \in Nat /\ block' \in [Client -> Block]
      /\ BlocksOK' /\ BlocksDisjoint'
      /\ block'[a].size = 0 * ElemSize[a]
      /\ \A d \in Client \ {a} : block'[d] = block[d]
  BY <1>1, <1>2, ReleaseStep DEF NULL
<1>4. /\ <<>> \in Seq(Item \cup {Junk}) /\ <<>> \in Seq(Item) /\ Len(<<>>) = 0 /\ 0 <= 0
      /\ \A i \in 1 .. 0 : FALSE
  OBVIOUS
<1> QED BY <1>2, <1>3, <1>4, OneArray

LEMMA ObjectIInv ==
  ASSUME IInv, NEW o \in Object,
         (\E size \in 0 .. SMALL + 1 : alloc(o, size)) \/ free_object(o)
  PROVE  IInv'
<1>1. o \in Client /\ o \notin Array
  BY MemoryAssumption DEF Client
<1>2. /\ UNCHANGED <<cap, len, vals, written>>
      /\ top' \in Nat /\ block' \in [Client -> Block]
      /\ BlocksOK' /\ BlocksDisjoint'
      /\ \A d \in Client \ {o} : block'[d] = block[d]
  <2>1. CASE \E size \in 0 .. SMALL + 1 : alloc(o, size)
    <3>1. PICK size \in 0 .. SMALL + 1 : alloc(o, size)
      BY <2>1
    <3>2. size \in Nat
      BY <3>1, MemoryAssumption
    <3>3. memory(o, size) /\ UNCHANGED <<cap, len, vals, written>>
      BY <3>1 DEF alloc
    <3> QED BY <1>1, <3>2, <3>3, MemoryStep
  <2>2. CASE free_object(o)
    <3>1. release(o) /\ UNCHANGED <<cap, len, vals, written>>
      BY <2>2 DEF free_object
    <3> QED BY <1>1, <3>1, ReleaseStep
  <2> QED BY <2>1, <2>2
<1>3. \A a \in Array : a \in Client \ {o} /\ block'[a] = block[a]
  BY <1>1, <1>2 DEF Client
<1>4. MemTypeOK' /\ KeepsContents'
  BY <1>2, <1>3 DEF IInv, MemTypeOK, KeepsContents
<1> QED BY <1>2, <1>4 DEF IInv

LEMMA NextIInv == IInv /\ [Next]_vars => IInv'
<1> SUFFICES ASSUME IInv, [Next]_vars PROVE IInv'
  OBVIOUS
<1>1. CASE UNCHANGED vars
  BY <1>1 DEF vars, IInv, MemTypeOK, BlocksOK, BlocksDisjoint, KeepsContents
<1>2. CASE Next
  BY <1>2, WriteIInv, InitArrayIInv, FreeIInv, ObjectIInv DEF Next
<1> QED BY <1>1, <1>2

-----------------------------------------------------------------------------
(* An array never has more elements than its memory has room for, and its  *)
(* capacity is the one it asked memory() for, for any element sizes.       *)
THEOREM MemoryTypeCorrect == Spec => []MemTypeOK
<1>1. IInv => MemTypeOK
  BY DEF IInv
<1> QED BY <1>1, InitIInv, NextIInv, PTL DEF Spec

(* No two blocks of the arena overlap: bumping top by at least the size    *)
(* and giving nothing back is all that takes.                              *)
THEOREM BlocksAreDisjoint == Spec => []BlocksDisjoint
<1>1. IInv => BlocksDisjoint
  BY DEF IInv
<1> QED BY <1>1, InitIInv, NextIInv, PTL DEF Spec

(* Growth loses no element but those an array held when it left the arena. *)
THEOREM ContentsAreKept == Spec => []KeepsContents
<1>1. IInv => KeepsContents
  BY DEF IInv
<1> QED BY <1>1, InitIInv, NextIInv, PTL DEF Spec
===============================================================================
