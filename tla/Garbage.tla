-------------------------------- MODULE Garbage --------------------------------
(***************************************************************************)
(* The mark-and-sweep collector of the moth VM (source/moth/garbage.c) and *)
(* the object graph it walks (source/moth/object.c).  MothVM adds the      *)
(* instructions that build the graph and call the collector.               *)
(*                                                                         *)
(* A value is an object or a scalar; whatever the collector neither frees  *)
(* nor follows (numbers, constant strings, the functions of rodata) is     *)
(* Scalar, and Junk is a slot of a fresh array that nothing has written.   *)
(* The collector runs to completion inside one instruction; its loop is    *)
(* modelled step by step because the loop rewrites the array it walks.     *)
(*                                                                         *)
(* A definition X_Y marked Faulty is X with a plausible bug; no            *)
(* specification uses it.  The runs' properties are tested against them.   *)
(***************************************************************************)
EXTENDS Naturals, Sequences, SequencesExt

CONSTANTS
  Object,        \* addresses an object can have
  Scalar, Junk,  \* the values that are not objects
  Free, None,    \* no object lives at this address; no object at all
  GC_INIT_CAP    \* initial capacity of the registry (10 in the code)

ASSUME GarbageAssumption ==
  /\ GC_INIT_CAP \in Nat \ {0}
  /\ {Scalar, Junk, None} \cap Object = {}

VARIABLES
  stack,      \* the values from varr to vtop, oldest first
  heap,       \* heap[o] is Free or the object at o
  reachable,  \* the objects whose reachable flag is set
  objs, cap,  \* the registry (gc->len is Len(objs)) and its capacity
  pc,         \* what executes: the program or a part of the collector
  idx,        \* position of the sweep in objs
  pending     \* the object gc_register was called with, or None

collectorVars == <<reachable, objs, cap, pc, idx, pending>>

Value == Object \cup {Scalar, Junk}
ObjType == {"STRING", "ARRAY", "DICTIONARY", "CLOSURE", "HEAPVAL"}
Cell == [type : ObjType, vals : Seq(Value)]
Allocated == {o \in Object : heap[o] # Free}

TypeOK ==
  /\ stack \in Seq(Value)
  /\ heap \in [Object -> Cell \cup {Free}]
  /\ reachable \in SUBSET Object
  /\ objs \in Seq(Object)
  /\ cap \in Nat
  /\ pc \in {"run", "mark", "sweep", "append", "crashed", "freed"}
  /\ idx \in Nat \ {0}
  /\ pending \in Object \cup {None}

-----------------------------------------------------------------------------
(* The graph *)

Held(vals) == ToSet(vals) \cap Object

(* What mark_object visits from o: every slot of an array, the value of a  *)
(* heapval, and the first len entries of a dictionary - but nothing ever   *)
(* increments the len that obj_dct_with_cap sets to 0.                     *)
DictLen == 0
Children ==
  [o \in Object |->
    CASE heap[o] = Free -> {}
      [] heap[o] # Free /\ heap[o].type \in {"ARRAY", "HEAPVAL"} -> Held(heap[o].vals)
      [] heap[o] # Free /\ heap[o].type = "DICTIONARY" ->
           Held(SubSeq(heap[o].vals, 1, DictLen))
      [] OTHER -> {}]

(* What a program can get at from o.                                       *)
References == [o \in Object |-> IF heap[o] = Free THEN {} ELSE Held(heap[o].vals)]

(* The least set that holds roots and is closed under edge.                *)
Closed(S, edge) == \A p \in S : edge[p] \subseteq S
Closure(roots, edge) ==
  {o \in Object : \A S \in SUBSET Object : (roots \subseteq S /\ Closed(S, edge)) => o \in S}

Marked == Closure(Held(stack), Children)

(* mark_object has no test for an object it has already marked: it comes   *)
(* to no end on a graph with a cycle.                                      *)
Cyclic == \E o \in Marked : o \in Closure(Children[o], Children)

(* Following a pointer to a freed object, or one that was never written,   *)
(* is undefined.                                                           *)
Dangling == ~(Marked \subseteq Allocated)
Unwritten == \E o \in Marked : heap[o] # Free /\ Junk \in ToSet(heap[o].vals)

-----------------------------------------------------------------------------
(* init_gc *)
InitGc ==
  /\ reachable = {}
  /\ objs = <<>>
  /\ cap = GC_INIT_CAP
  /\ pc = "run"
  /\ idx = 1
  /\ pending = None

(* gc_collect, called by VM_GC.                                            *)
gc_collect ==
  /\ pc = "run"
  /\ pc' = "mark"
  /\ UNCHANGED <<stack, heap, reachable, objs, cap, idx, pending>>

(* An instruction has popped its operands (rest is what is left of the     *)
(* stack), made the object o and calls gc_register with it.                *)
gc_register(o, cell, rest) ==
  /\ pc = "run"
  /\ heap[o] = Free
  /\ heap' = [heap EXCEPT ![o] = cell]
  /\ stack' = rest
  /\ pending' = o
  /\ pc' = IF Len(objs) = cap THEN "mark" ELSE "append"
  /\ UNCHANGED <<reachable, objs, cap, idx>>

(* Faulty: what the stack's objects hold is not marked.                    *)
Mark_Shallow ==
  /\ pc = "mark"
  /\ reachable' = reachable \cup Held(stack)
  /\ pc' = "sweep"
  /\ idx' = 1
  /\ UNCHANGED <<stack, heap, objs, cap, pending>>

(* First half of gc_collect: mark_object on every object of the stack.     *)
Mark ==
  /\ pc = "mark"
  /\ ~Cyclic /\ ~Dangling
  /\ reachable' = reachable \cup Marked
  /\ pc' = "sweep"
  /\ idx' = 1
  /\ UNCHANGED <<stack, heap, objs, cap, pending>>

(* mark_object recurses until the C stack is exhausted or follows a        *)
(* pointer that is none; an unwritten slot may also look like no object.   *)
MarkFails ==
  /\ pc = "mark"
  /\ Cyclic \/ Dangling \/ Unwritten
  /\ pc' = "crashed"
  /\ UNCHANGED <<stack, heap, reachable, objs, cap, idx, pending>>

(* Faulty: the last entry is dropped, or skipped, or len stays as it is.   *)
FreeAt(i, left) ==
  /\ pc = "sweep"
  /\ i <= Len(objs)
  /\ objs[i] \notin reachable
  /\ heap' = [heap EXCEPT ![objs[i]] = Free]
  /\ objs' = left
  /\ UNCHANGED <<stack, reachable, cap, pc, pending>>
SweepFree_NoMove == FreeAt(idx, SubSeq(objs, 1, Len(objs) - 1)) /\ UNCHANGED idx
SweepFree_Skips ==
  /\ FreeAt(idx, SubSeq([objs EXCEPT ![idx] = objs[Len(objs)]], 1, Len(objs) - 1))
  /\ idx' = idx + 1
SweepFree_KeepsLen == FreeAt(idx, [objs EXCEPT ![idx] = objs[Len(objs)]]) /\ UNCHANGED idx

(* The sweep frees an unmarked object and moves the last one in its place, *)
(* to be looked at next.                                                   *)
SweepFree ==
  /\ pc = "sweep"
  /\ idx <= Len(objs)
  /\ objs[idx] \notin reachable
  /\ heap' = [heap EXCEPT ![objs[idx]] = Free]
  /\ objs' = SubSeq([objs EXCEPT ![idx] = objs[Len(objs)]], 1, Len(objs) - 1)
  /\ UNCHANGED <<stack, reachable, cap, pc, idx, pending>>

(* Faulty: the reachable flag stays set. *)
SweepKeep_KeepsFlag ==
  /\ pc = "sweep"
  /\ idx <= Len(objs)
  /\ objs[idx] \in reachable
  /\ idx' = idx + 1
  /\ UNCHANGED <<stack, heap, reachable, objs, cap, pc, pending>>

SweepKeep ==
  /\ pc = "sweep"
  /\ idx <= Len(objs)
  /\ objs[idx] \in reachable
  /\ reachable' = reachable \ {objs[idx]}
  /\ idx' = idx + 1
  /\ UNCHANGED <<stack, heap, objs, cap, pc, pending>>

SweepEnds ==
  /\ pc = "sweep"
  /\ idx > Len(objs)
  /\ pc' = IF pending = None THEN "run" ELSE "append"
  /\ UNCHANGED <<stack, heap, reachable, objs, cap, idx, pending>>

(* Second half of gc_register - grow if the registry is still full, append *)
(* - and the push of the new object that ends the instruction.             *)
GROW_CAP(n) == IF n < 4 THEN 4 ELSE 2 * n
Append_ ==
  /\ pc = "append"
  /\ cap' = IF Len(objs) = cap THEN GROW_CAP(cap) ELSE cap
  /\ objs' = Append(objs, pending)
  /\ stack' = Append(stack, pending)
  /\ pending' = None
  /\ pc' = "run"
  /\ UNCHANGED <<heap, reachable, idx>>

(* free_gc, when the host frees the VM.                                    *)
free_gc ==
  /\ pc = "run"
  /\ heap' = [o \in Object |-> IF o \in ToSet(objs) THEN Free ELSE heap[o]]
  /\ pc' = "freed"
  /\ UNCHANGED <<stack, reachable, objs, cap, idx, pending>>

Collector == Mark \/ MarkFails \/ SweepFree \/ SweepKeep \/ SweepEnds \/ Append_
===============================================================================
