-------------------------------- MODULE MothVM --------------------------------
(***************************************************************************)
(* The instructions of the moth VM (source/moth/vm.c) that create, read    *)
(* and write objects, over the collector of Garbage and the global         *)
(* environment (seen here as the map it implements).  The bytecode is any  *)
(* program that respects the operand counts and array bounds the VM does   *)
(* not check; type errors push void, a scalar.                             *)
(***************************************************************************)
EXTENDS Garbage

CONSTANTS
  Symbol,      \* global names
  MaxStack,    \* bound: values on the stack
  MaxSize      \* bound: slots of an array or a dictionary

ASSUME VMAssumption ==
  /\ MaxStack \in Nat /\ MaxSize \in Nat
  /\ Free \notin Cell /\ None \notin Value

VARIABLES
  env,         \* env[s] is the global s, or None while it is undefined
  premature    \* history: a collection freed an object that was still in use

vars == <<stack, heap, collectorVars, env, premature>>

VMTypeOK ==
  /\ TypeOK
  /\ env \in [Symbol -> Value \cup {None}]
  /\ premature \in BOOLEAN

-----------------------------------------------------------------------------
Depth == Len(stack)
Below(n) == SubSeq(stack, 1, Depth - n)      \* what n pops leave
Nth(n) == stack[Depth - n + 1]               \* the n-th value from the top

IsObj(v, type) == v \in Object /\ heap[v] # Free /\ heap[v].type = type
IsStr(v) == v = Scalar \/ IsObj(v, "STRING")

(* An instruction of the program; once something in use is freed, what the *)
(* program does next is undefined.                                         *)
Instruction == pc = "run" /\ ~premature

(* An instruction that only moves values. *)
Leaves(s) ==
  /\ Instruction
  /\ Len(s) <= MaxStack
  /\ stack' = s
  /\ UNCHANGED <<heap, collectorVars, env, premature>>

(* An instruction that pops n values and pushes a new object.              *)
Creates(n, type, vals) ==
  /\ Instruction
  /\ Len(vals) <= MaxSize
  /\ Depth - n < MaxStack
  /\ \E o \in Object : gc_register(o, [type |-> type, vals |-> vals], Below(n))
  /\ UNCHANGED <<env, premature>>

(* An instruction that changes the object o and leaves the values s.       *)
Writes(o, vals, s) ==
  /\ Instruction
  /\ Len(vals) <= MaxSize
  /\ heap' = [heap EXCEPT ![o].vals = vals]
  /\ stack' = s
  /\ UNCHANGED <<collectorVars, env, premature>>

-----------------------------------------------------------------------------
(* VM_VID .. VM_EUL and VM_VAL push what the collector does not own.       *)
PUSH == Leaves(Append(stack, Scalar))
POP == Depth > 0 /\ Leaves(Below(1))
PSH(i) == i \in 1 .. Depth /\ Leaves(Append(stack, stack[i]))
STR(i) == i \in 1 .. Depth /\ Leaves([stack EXCEPT ![i] = stack[Depth]])

(* UOP and BOP that yield a scalar: arithmetic, comparison, equality and   *)
(* every type error.                                                       *)
OperatorToScalar(n) == n <= Depth /\ Leaves(Append(Below(n), Scalar))

(* add_ and divide_ on strings: obj_str_concat copies the characters.      *)
Concat ==
  /\ Depth >= 2
  /\ IsStr(Nth(1)) /\ IsStr(Nth(2))
  /\ Creates(2, "STRING", <<>>)

(* add_ on an array and a value that is no object, in either order:        *)
(* obj_arr_append copies the array with the value at its end.              *)
AppendValue(a, v) ==
  /\ Depth >= 2
  /\ {a, v} = {1, 2}
  /\ IsObj(Nth(a), "ARRAY") /\ Nth(v) = Scalar
  /\ Creates(2, "ARRAY", Append(heap[Nth(a)].vals, Nth(v)))

(* merge_ on two arrays makes a third one, on two dictionaries it inserts  *)
(* the entries of the second in the first.                                 *)
MergeArrays ==
  /\ Depth >= 2
  /\ IsObj(Nth(1), "ARRAY") /\ IsObj(Nth(2), "ARRAY")
  /\ Creates(2, "ARRAY", heap[Nth(2)].vals \o heap[Nth(1)].vals)

Overlay(a, b) == b \o SubSeq(a, Len(b) + 1, Len(a))
MergeDictionaries ==
  /\ Depth >= 2
  /\ IsObj(Nth(1), "DICTIONARY") /\ IsObj(Nth(2), "DICTIONARY")
  /\ Writes(Nth(2), Overlay(heap[Nth(2)].vals, heap[Nth(1)].vals), Below(1))

(* closeover_: the function of a closure lives in rodata. *)
CLO == Depth > 0 /\ Nth(1) = Scalar /\ Creates(1, "CLOSURE", <<>>)

(* promote_: a heapval that holds the popped value. *)
PRO == Depth > 0 /\ Nth(1) # Junk /\ Creates(1, "HEAPVAL", <<Nth(1)>>)

(* array_ writes no slot: fresh memory is zero and looks like no object,   *)
(* recycled memory holds anything.                                         *)
ARR(n) == \E fill \in {Scalar, Junk} : Creates(0, "ARRAY", [i \in 1 .. n |-> fill])
DCT == Creates(0, "DICTIONARY", <<>>)

(* index_: an element of an array, an entry of a dictionary (void if there *)
(* is none).                                                               *)
IDX(i) ==
  /\ Depth >= 2
  /\ Nth(1) = Scalar
  /\ \/ /\ IsObj(Nth(2), "ARRAY") \/ IsObj(Nth(2), "DICTIONARY")
        /\ i \in 1 .. Len(heap[Nth(2)].vals)
        /\ heap[Nth(2)].vals[i] # Junk
        /\ Leaves(Append(Below(2), heap[Nth(2)].vals[i]))
     \/ /\ IsObj(Nth(2), "DICTIONARY")
        /\ i > Len(heap[Nth(2)].vals)
        /\ Leaves(Append(Below(2), Scalar))

(* indexasn_ pops value, index and container, writes, and pushes the       *)
(* container back; a dictionary takes keys it does not have yet.  Its keys *)
(* hold no object here: what mark_object would mark of an entry, key and   *)
(* value alike, it never reaches (Children).                               *)
IDA(i) ==
  /\ Depth >= 3
  /\ Nth(2) = Scalar
  /\ LET c == Nth(3)
         old == heap[c].vals
     IN  \/ /\ IsObj(c, "ARRAY")
            /\ i \in 1 .. Len(old)
            /\ Writes(c, [old EXCEPT ![i] = Nth(1)], Below(2))
         \/ /\ IsObj(c, "DICTIONARY")
            /\ i \in 1 .. Len(old) + 1
            /\ Writes(c, Overlay(old, Append(SubSeq(old, 1, i - 1), Nth(1))), Below(2))

(* DEFINE_SYMBOL, LOAD_SYMBOL and ASSIGN_SYMBOL.                           *)
DEF_(s) ==
  /\ Instruction
  /\ Depth > 0
  /\ env' = [env EXCEPT ![s] = Nth(1)]
  /\ stack' = Below(1)
  /\ UNCHANGED <<heap, collectorVars, premature>>

(* Faulty: LOAD_SYMBOL does not look whether the symbol is defined.        *)
SYM_Unchecked(s) == Leaves(Append(stack, env[s]))

SYM(s) == env[s] # None /\ Leaves(Append(stack, env[s]))

ASN(s) ==
  /\ Instruction
  /\ Depth > 0
  /\ env[s] # None
  /\ env' = [env EXCEPT ![s] = Nth(1)]
  /\ UNCHANGED <<stack, heap, collectorVars, premature>>

GC == Instruction /\ gc_collect /\ UNCHANGED <<env, premature>>

free_vm == Instruction /\ free_gc /\ UNCHANGED <<env, premature>>

-----------------------------------------------------------------------------
(* All a program can still get at: its stack, its globals, and what the    *)
(* object it is just creating holds.                                       *)
InUse ==
  LET globals == Object \cap {env[s] : s \in Symbol}
      operands == IF pending = None THEN {} ELSE References[pending]
  IN  Closure(Held(stack) \cup globals \cup operands, References)

Collect ==
  /\ Collector
  /\ premature' = (premature \/ (Mark /\ ~(InUse \cap ToSet(objs) \subseteq Marked)))
  /\ UNCHANGED env

Init ==
  /\ stack = <<>>
  /\ heap = [o \in Object |-> Free]
  /\ InitGc
  /\ env = [s \in Symbol |-> None]
  /\ premature = FALSE

Next ==
  \/ PUSH
  \/ POP
  \/ \E i \in 1 .. MaxStack : PSH(i)
  \/ \E i \in 1 .. MaxStack : STR(i)
  \/ \E n \in {1, 2} : OperatorToScalar(n)
  \/ Concat
  \/ \E a, v \in {1, 2} : AppendValue(a, v)
  \/ MergeArrays
  \/ MergeDictionaries
  \/ CLO
  \/ PRO
  \/ \E n \in 0 .. MaxSize : ARR(n)
  \/ DCT
  \/ \E i \in 1 .. MaxSize : IDX(i)
  \/ \E i \in 1 .. MaxSize : IDA(i)
  \/ \E s \in Symbol : DEF_(s)
  \/ \E s \in Symbol : SYM(s)
  \/ \E s \in Symbol : ASN(s)
  \/ GC
  \/ free_vm
  \/ Collect

Spec == Init /\ [][Next]_vars /\ WF_vars(Collect)

-----------------------------------------------------------------------------
(* Properties *)

(* Every object the VM made is in the registry exactly once, except the    *)
(* one being registered: nothing is freed twice and nothing is lost, and   *)
(* the registry never outgrows its memory.                                 *)
RegistryExact ==
  /\ \A i, j \in 1 .. Len(objs) : objs[i] = objs[j] => i = j
  /\ pc # "freed" => ToSet(objs) = Allocated \ {pending}
  /\ Len(objs) <= cap

(* A collection leaves no reachable flag behind, or the next one would     *)
(* keep garbage; while it sweeps, the entries before idx are unmarked and  *)
(* those from idx on are marked exactly if the stack reaches them.         *)
MarksMatchReachability ==
  IF pc = "sweep"
  THEN reachable = {objs[i] : i \in idx .. Len(objs)} \cap Marked
  ELSE reachable = {}

(* As long as no collection freed an object in use, whatever the stack     *)
(* reaches is allocated: promotions, merges and assignments alone never    *)
(* leave the stack with a pointer to a freed object.                       *)
StackSafe == ~premature /\ pc # "freed" => Marked \subseteq Allocated

(* The collector frees no object that mark_object finds from the stack.    *)
FreesOnlyUnmarked ==
  [][ \A o \in Allocated : heap'[o] = Free /\ pc' # "freed" => o \notin Marked ]_vars

(* A sweep that ends leaves only objects the stack reaches: moving the     *)
(* last entry into a freed one's place makes it miss none.                 *)
CollectsAllUnmarked ==
  [][ pc = "sweep" /\ pc' # "sweep" => ToSet(objs) \subseteq Marked ]_vars

(* A collection ends and gives control back to the program.                *)
CollectionEnds == pc \in {"mark", "sweep", "append"} ~> pc \in {"run", "crashed"}

(* source/moth/garbage.c:85 "Free unreachable objects on the GC's          *)
(* registry": nothing a program can still use is freed.                    *)
FreesOnlyUnused == ~premature
===============================================================================
