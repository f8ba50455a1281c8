--------------------------------- MODULE Memory ---------------------------------
(***************************************************************************)
(* The allocator of the moth VM (source/moth/mem.c) under its two kinds of *)
(* clients: the growable arrays of a program (program.c, rodata.c,         *)
(* symtable.c) and blocks that keep their size (objects, strings).  Small  *)
(* blocks are cut from an arena that is never given back; all others come  *)
(* from malloc, whose addresses do not matter.                             *)
(*                                                                         *)
(* A definition X_Y marked Faulty is X with a plausible bug; no            *)
(* specification uses it.  The runs' properties are tested against them.   *)
(***************************************************************************)
EXTENDS Naturals, Sequences

CONSTANTS
  Array, Object,   \* the clients
  ElemSize,        \* sizeof of an element: ElemSize[a]
  Item, Junk,      \* what an element holds; an element nobody has written
  MEM_STACK_SIZE,  \* size of the arena (2048)
  SMALL,           \* largest block that goes there (32)
  MIN,             \* least distance between two of its blocks (8)
  MaxLen           \* bound: elements of an array

ASSUME MemoryAssumption ==
  /\ Array \cap Object = {}
  /\ ElemSize \in [Array -> Nat \ {0}]
  /\ Junk \notin Item
  /\ MEM_STACK_SIZE \in Nat \ {0} /\ SMALL \in Nat /\ MIN \in Nat \ {0}
  /\ MaxLen \in Nat

Client == Array \cup Object

VARIABLES
  top,       \* offset of the first free byte of the arena
  block,     \* block[c]: where the client's memory is
  cap, len,  \* per array, in elements
  vals,      \* vals[a]: the cap[a] elements in the memory of a
  written    \* history: the elements a was given

vars == <<top, block, cap, len, vals, written>>

NULL == [where |-> "NULL", at |-> 0, size |-> 0]
Block == [where : {"NULL", "arena", "malloc"}, at : Nat, size : Nat]

(* The type invariant; an array's memory has the size of its capacity.     *)
MemTypeOK ==
  /\ top \in Nat
  /\ block \in [Client -> Block]
  /\ cap \in [Array -> Nat] /\ len \in [Array -> Nat]
  /\ vals \in [Array -> Seq(Item \cup {Junk})]
  /\ written \in [Array -> Seq(Item)]
  /\ \A a \in Array : /\ len[a] <= cap[a] /\ len[a] = Len(written[a])
                      /\ Len(vals[a]) = cap[a]
                      /\ block[a].size = cap[a] * ElemSize[a]

-----------------------------------------------------------------------------
(* mem.c *)

InArena(b) == b.where = "arena" /\ b.at < MEM_STACK_SIZE

(* A block that reaches behind the arena: using it is undefined.           *)
Overrun == \E c \in Client : block[c].where = "arena" /\ block[c].at + block[c].size > MEM_STACK_SIZE

ToMalloc(size) == top = MEM_STACK_SIZE \/ size > SMALL

(* Faulty: the arena moves on by MIN bytes, however large the block is.    *)
memory_Overlaps(c, size) ==
  /\ block' = [block EXCEPT ![c] =
       IF size = 0 THEN NULL
       ELSE IF ToMalloc(size) THEN [where |-> "malloc", at |-> 0, size |-> size]
       ELSE [where |-> "arena", at |-> top, size |-> size]]
  /\ top' = IF size = 0 \/ ToMalloc(size) THEN top ELSE top + MIN

(* memory(block[c], _, size): where the block is afterwards.               *)
memory(c, size) ==
  /\ block' = [block EXCEPT ![c] =
       IF size = 0 THEN NULL
       ELSE IF ToMalloc(size) THEN [where |-> "malloc", at |-> 0, size |-> size]
       ELSE [where |-> "arena", at |-> top, size |-> size]]
  /\ top' = IF size = 0 \/ ToMalloc(size) THEN top
            ELSE top + (IF size > MIN THEN size ELSE MIN)

(* Faulty: a block of malloc is not handed to realloc either.              *)
Forgets_Always(c, size) == ToMalloc(size)

(* realloc and the memcpy within the arena keep the contents; a block that *)
(* leaves the arena is released and a fresh one is allocated.              *)
Forgets(c, size) == InArena(block[c]) /\ ToMalloc(size)

(* release(block[c], _): what is in the arena stays used.                  *)
release(c) == block' = [block EXCEPT ![c] = NULL] /\ UNCHANGED top

-----------------------------------------------------------------------------
(* program.c, rodata.c, symtable.c *)

GROW_CAP(n) == IF n < 4 THEN 4 ELSE 2 * n

(* Faulty: the array grows only after an element did not fit. *)
Full_Late(a) == len[a] > cap[a]

Full(a) == len[a] = cap[a]

(* The elements of a in a memory of n elements, as its growth leaves them. *)
Grown(a, n) ==
  [i \in 1 .. n |->
    IF i <= cap[a] /\ ~Forgets(a, n * ElemSize[a]) THEN vals[a][i] ELSE Junk]

(* write_byte, rodata_write, symtable_write. *)
write(a, v) ==
  /\ ~Overrun
  /\ len[a] < MaxLen
  /\ LET n == GROW_CAP(cap[a]) IN
       IF Full(a)
       THEN /\ memory(a, n * ElemSize[a])
            /\ cap' = [cap EXCEPT ![a] = n]
            /\ vals' = [vals EXCEPT ![a] = [Grown(a, n) EXCEPT ![len[a] + 1] = v]]
       ELSE /\ vals' = [vals EXCEPT ![a] = [vals[a] EXCEPT ![len[a] + 1] = v]]
            /\ UNCHANGED <<top, block, cap>>
  /\ len' = [len EXCEPT ![a] = len[a] + 1]
  /\ written' = [written EXCEPT ![a] = Append(written[a], v)]

(* init_program with a length, and the loop of read_file that fills it.    *)
init(a, v, n) ==
  /\ ~Overrun
  /\ block[a] = NULL /\ n <= MaxLen
  /\ memory(a, n * ElemSize[a])
  /\ cap' = [cap EXCEPT ![a] = n]
  /\ len' = [len EXCEPT ![a] = n]
  /\ vals' = [vals EXCEPT ![a] = [i \in 1 .. n |-> v]]
  /\ written' = [written EXCEPT ![a] = [i \in 1 .. n |-> v]]

(* free_program; the next program starts empty. *)
free(a) ==
  /\ ~Overrun
  /\ release(a)
  /\ cap' = [cap EXCEPT ![a] = 0]
  /\ len' = [len EXCEPT ![a] = 0]
  /\ vals' = [vals EXCEPT ![a] = <<>>]
  /\ written' = [written EXCEPT ![a] = <<>>]

(* alloc_object, read_str and the like, and the release of such a block.   *)
alloc(o, size) ==
  /\ ~Overrun
  /\ block[o] = NULL
  /\ memory(o, size)
  /\ UNCHANGED <<cap, len, vals, written>>

free_object(o) ==
  /\ ~Overrun
  /\ block[o] # NULL
  /\ release(o)
  /\ UNCHANGED <<cap, len, vals, written>>

-----------------------------------------------------------------------------
Init ==
  /\ top = 0
  /\ block = [c \in Client |-> NULL]
  /\ cap = [a \in Array |-> 0] /\ len = [a \in Array |-> 0]
  /\ vals = [a \in Array |-> <<>>] /\ written = [a \in Array |-> <<>>]

Next ==
  \/ \E a \in Array, v \in Item : write(a, v)
  \/ \E a \in Array, v \in Item, n \in 1 .. MaxLen : init(a, v, n)
  \/ \E a \in Array : free(a)
  \/ \E o \in Object, size \in 0 .. SMALL + 1 : alloc(o, size)
  \/ \E o \in Object : free_object(o)

Spec == Init /\ [][Next]_vars

-----------------------------------------------------------------------------
(* Properties *)

(* Two clients never hold the same byte of the arena, whatever was grown,  *)
(* released and allocated again: what one writes the other does not read.  *)
BlocksDisjoint ==
  \A c, d \in Client :
    c # d /\ block[c].where = "arena" /\ block[d].where = "arena" =>
      \/ block[c].at + block[c].size <= block[d].at
      \/ block[d].at + block[d].size <= block[c].at

(* An array in the arena holds all that was written to it.  Leaving the    *)
(* arena costs an array what it held then, and that is all it ever loses:  *)
(* what lies behind the size of a small block survives every growth.       *)
KeepsContents ==
  \A a \in Array : \A i \in 1 .. len[a] :
    block[a].where = "arena" \/ i * ElemSize[a] > SMALL => vals[a][i] = written[a][i]

(* source/moth/mem.c:22 "Use malloc if the stack is full, or the new       *)
(* allocation is over 32 bytes": what is not malloc's lies in the arena.   *)
StaysInArena == ~Overrun
===============================================================================
