----------------------------- MODULE MothVM_proof -----------------------------
(***************************************************************************)
(* Machine-checked proofs about MothVM: for any number of addresses, any   *)
(* registry capacity and any bounds on the stack and on objects.           *)
(***************************************************************************)
EXTENDS MothVM, TLAPS

-----------------------------------------------------------------------------
(* Closure(roots, edge) holds the roots, is closed, and is the least such. *)
LEMMA ClosureRoots ==
  ASSUME NEW roots \in SUBSET Object, NEW edge
  PROVE  roots \subseteq Closure(roots, edge)
BY DEF Closure

LEMMA ClosureClosed ==
  ASSUME NEW roots \in SUBSET Object, NEW edge \in [Object -> SUBSET Object]
  PROVE  Closed(Closure(roots, edge), edge)
<1> SUFFICES ASSUME NEW p \in Closure(roots, edge), NEW q \in edge[p]
             PROVE  q \in Closure(roots, edge)
  BY DEF Closed
<1>1. p \in Object /\ q \in Object
  BY DEF Closure
<1>2. ASSUME NEW S \in SUBSET Object, roots \subseteq S, Closed(S, edge) PROVE q \in S
  <2>1. p \in S
    BY <1>2 DEF Closure
  <2> QED BY <1>2, <2>1 DEF Closed
<1> QED BY <1>1, <1>2 DEF Closure

LEMMA ClosureLeast ==
  ASSUME NEW roots, NEW edge, NEW S \in SUBSET Object,
         roots \subseteq S, Closed(S, edge)
  PROVE  Closure(roots, edge) \subseteq S
BY DEF Closure

(* Edges that leave from elsewhere do not matter. *)
LEMMA ClosureLocal ==
  ASSUME NEW roots \in SUBSET Object,
         NEW edge \in [Object -> SUBSET Object], NEW edge2 \in [Object -> SUBSET Object],
         \A o \in Closure(roots, edge) : edge2[o] = edge[o]
  PROVE  Closure(roots, edge2) = Closure(roots, edge)
<1> DEFINE C == Closure(roots, edge)
           C2 == Closure(roots, edge2)
<1>1. C \in SUBSET Object /\ C2 \in SUBSET Object
  BY DEF Closure
<1>2. roots \subseteq C /\ roots \subseteq C2
  BY ClosureRoots
<1>3. Closed(C, edge) /\ Closed(C2, edge2)
  BY ClosureClosed
<1> HIDE DEF C, C2
<1>4. C2 \subseteq C
  <2>1. Closed(C, edge2)
    BY <1>3 DEF Closed, C
  <2> QED BY <1>1, <1>2, <2>1, ClosureLeast DEF C2
<1>5. C \subseteq C2
  <2>1. Closed(C \cap C2, edge)
    BY <1>3 DEF Closed, C
  <2>2. C \cap C2 \in SUBSET Object /\ roots \subseteq C \cap C2
    BY <1>1, <1>2
  <2>3. C \subseteq C \cap C2
    BY <2>1, <2>2, ClosureLeast DEF C
  <2> QED BY <2>3
<1> QED BY <1>4, <1>5 DEF C, C2

(* More roots and more edges reach more. *)
LEMMA ClosureMonotonic ==
  ASSUME NEW roots \in SUBSET Object, NEW roots2 \in SUBSET Object,
         NEW edge \in [Object -> SUBSET Object], NEW edge2 \in [Object -> SUBSET Object],
         roots \subseteq roots2, \A o \in Object : edge[o] \subseteq edge2[o]
  PROVE  Closure(roots, edge) \subseteq Closure(roots2, edge2)
<1> DEFINE C2 == Closure(roots2, edge2)
<1>1. C2 \in SUBSET Object
  BY DEF Closure
<1>2. roots \subseteq C2
  BY ClosureRoots
<1>3. Closed(C2, edge2)
  BY ClosureClosed
<1> HIDE DEF C2
<1>4. Closed(C2, edge)
  BY <1>1, <1>3 DEF Closed
<1>5. Closure(roots, edge) \subseteq C2
  BY <1>1, <1>2, <1>4, ClosureLeast
<1> QED BY <1>5 DEF C2

-----------------------------------------------------------------------------
(* The inductive invariant.                                                *)
(*                                                                         *)
(* MarksMatchReachability is about the objects mark_object finds, so an    *)
(* induction has to know that what it finds is in the registry: nothing    *)
(* the program holds is freed (Sound), which a sweep upholds because what  *)
(* is in use was marked before it (SweepInv), unless the collection was    *)
(* premature, after which no instruction and no mark runs.                 *)
Sound == (Allocated \ {pending}) \cup {Scalar, Junk}

SoundState ==
  /\ stack \in Seq(Sound)
  /\ env \in [Symbol -> Sound \cup {None}]
  /\ \A o \in Allocated : heap[o].vals \in Seq(Sound)

PendingOK ==
  /\ pc \in {"run", "freed"} => pending = None
  /\ pc = "append" => pending # None
  /\ pending # None => heap[pending] # Free

SweepInv ==
  /\ idx \in 1 .. Len(objs) + 1
  /\ Marked \subseteq ToSet(objs)
  /\ \A i \in 1 .. idx - 1 : objs[i] \in Marked
  /\ ~premature => InUse \subseteq Marked

IInv ==
  /\ VMTypeOK
  /\ RegistryExact
  /\ MarksMatchReachability
  /\ PendingOK
  /\ pc = "mark" => ~premature
  /\ ~premature /\ pc \notin {"sweep", "freed"} => SoundState
  /\ pc = "sweep" => SweepInv

-----------------------------------------------------------------------------
LEMMA SeqWiden ==
  ASSUME NEW S, NEW T, S \subseteq T, NEW s \in Seq(S)
  PROVE  s \in Seq(T)
<1>1. Len(s) \in Nat /\ s \in [1 .. Len(s) -> T]
  OBVIOUS
<1> QED BY <1>1

(* What an instruction may assume. *)
LEMMA InstructionFacts ==
  ASSUME IInv, Instruction
  PROVE  /\ SoundState
         /\ pending = None /\ reachable = {}
         /\ Sound = Allocated \cup {Scalar, Junk}
         /\ Sound \subseteq Value /\ Scalar \in Sound /\ Junk \in Sound
         /\ stack \in Seq(Sound) /\ Depth \in Nat
<1>1. SoundState /\ pending = None /\ reachable = {}
  BY DEF IInv, Instruction, PendingOK, MarksMatchReachability
<1>2. None \notin Allocated
  BY GarbageAssumption DEF Allocated
<1>3. Sound = Allocated \cup {Scalar, Junk}
  BY <1>1, <1>2 DEF Sound
<1> QED BY <1>1, <1>3 DEF SoundState, Value, Allocated, Depth

(* Operands popped from a sound stack are sound. *)
LEMMA OperandsSound ==
  ASSUME IInv, Instruction, NEW n \in Nat, n <= Depth
  PROVE  /\ Below(n) \in Seq(Sound)
         /\ Len(Below(n)) = Depth - n
         /\ n > 0 => Nth(n) \in Sound
<1>1. stack \in Seq(Sound) /\ Depth = Len(stack) /\ Depth \in Nat
  BY InstructionFacts DEF Depth
<1>2. n > 0 => Nth(n) \in Sound
  BY <1>1 DEF Nth
<1>3. Below(n) \in Seq(Sound) /\ Len(Below(n)) = Depth - n
  BY <1>1 DEF Below
<1> QED BY <1>2, <1>3

LEMMA OverlaySound ==
  ASSUME NEW S, NEW a \in Seq(S), NEW b \in Seq(S)
  PROVE  Overlay(a, b) \in Seq(S)
<1>1. SubSeq(a, Len(b) + 1, Len(a)) \in Seq(S)
  OBVIOUS
<1> QED BY <1>1 DEF Overlay

(* An instruction that only moves sound values keeps the invariant. *)
LEMMA LeavesIInv ==
  ASSUME IInv, NEW s \in Seq(Sound), Leaves(s)
  PROVE  IInv'
<1>1. /\ Instruction /\ stack' = s
      /\ UNCHANGED <<heap, collectorVars, env, premature>>
  BY DEF Leaves
<1>2. /\ pc = "run" /\ ~premature
      /\ heap' = heap /\ env' = env /\ premature' = premature
      /\ reachable' = reachable /\ objs' = objs /\ cap' = cap /\ pc' = pc
      /\ idx' = idx /\ pending' = pending
  BY <1>1 DEF Instruction, collectorVars
<1>3. s \in Seq(Value)
  BY <1>1, InstructionFacts, SeqWiden
<1>4. VMTypeOK'
  BY <1>1, <1>2, <1>3 DEF IInv, VMTypeOK, TypeOK
<1>5. Allocated' = Allocated /\ Sound' = Sound
  BY <1>2 DEF Allocated, Sound
<1>6. RegistryExact' /\ PendingOK'
  BY <1>2, <1>5 DEF IInv, RegistryExact, PendingOK
<1>7. MarksMatchReachability'
  BY <1>1, <1>2, InstructionFacts DEF MarksMatchReachability
<1>8. SoundState'
  BY <1>1, <1>2, <1>5, InstructionFacts DEF SoundState
<1> QED BY <1>2, <1>4, <1>6, <1>7, <1>8 DEF IInv

(* Writing sound values into an object keeps the invariant. *)
LEMMA WritesIInv ==
  ASSUME IInv, NEW o \in Allocated, NEW vals \in Seq(Sound), NEW s \in Seq(Sound),
         Writes(o, vals, s)
  PROVE  IInv'
<1>1. /\ Instruction /\ stack' = s
      /\ heap' = [heap EXCEPT ![o].vals = vals]
      /\ UNCHANGED <<collectorVars, env, premature>>
  BY DEF Writes
<1>2. /\ pc = "run" /\ ~premature
      /\ env' = env /\ premature' = premature
      /\ reachable' = reachable /\ objs' = objs /\ cap' = cap /\ pc' = pc
      /\ idx' = idx /\ pending' = pending
  BY <1>1 DEF Instruction, collectorVars
<1>3. s \in Seq(Value) /\ vals \in Seq(Value)
  BY <1>1, InstructionFacts, SeqWiden
<1>4. o \in Object /\ heap[o] \in Cell
  BY DEF Allocated, IInv, VMTypeOK, TypeOK
<1>5. [heap[o] EXCEPT !.vals = vals] \in Cell /\ [heap[o] EXCEPT !.vals = vals].vals = vals
  BY <1>3, <1>4 DEF Cell
<1>6. heap' = [heap EXCEPT ![o] = [heap[o] EXCEPT !.vals = vals]]
  BY <1>1
<1>7. heap' \in [Object -> Cell \cup {Free}] /\ heap'[o].vals = vals /\ heap'[o] \in Cell
      /\ \A p \in Object \ {o} : heap'[p] = heap[p]
  BY <1>4, <1>5, <1>6 DEF IInv, VMTypeOK, TypeOK
<1>8. VMTypeOK'
  BY <1>1, <1>2, <1>3, <1>7 DEF IInv, VMTypeOK, TypeOK
<1>9. Allocated' = Allocated /\ Sound' = Sound
  BY <1>2, <1>4, <1>7, VMAssumption DEF Allocated, Sound
<1>10. RegistryExact'
  BY <1>2, <1>9 DEF IInv, RegistryExact
<1>11. PendingOK' /\ MarksMatchReachability'
  BY <1>1, <1>2, InstructionFacts DEF PendingOK, MarksMatchReachability
<1>12. SoundState'
  BY <1>1, <1>2, <1>7, <1>9, InstructionFacts DEF SoundState, Allocated
<1> QED BY <1>2, <1>8, <1>10, <1>11, <1>12 DEF IInv

(* Making an object out of sound values keeps the invariant. *)
LEMMA CreatesIInv ==
  ASSUME IInv, NEW n \in Nat, n <= Depth, NEW type \in ObjType, NEW vals \in Seq(Sound),
         Creates(n, type, vals)
  PROVE  IInv'
<1> DEFINE cell == [type |-> type, vals |-> vals]
<1>1. PICK o \in Object : gc_register(o, cell, Below(n))
  BY DEF Creates
<1>2. /\ Instruction /\ pc = "run" /\ ~premature
      /\ env' = env /\ premature' = premature
  BY DEF Creates, Instruction
<1>3. /\ heap[o] = Free /\ heap' = [heap EXCEPT ![o] = cell]
      /\ stack' = Below(n) /\ pending' = o
      /\ pc' = IF Len(objs) = cap THEN "mark" ELSE "append"
      /\ reachable' = reachable /\ objs' = objs /\ cap' = cap /\ idx' = idx
  BY <1>1 DEF gc_register
<1>4. vals \in Seq(Value) /\ Below(n) \in Seq(Sound) /\ Below(n) \in Seq(Value)
  BY <1>2, InstructionFacts, OperandsSound, SeqWiden
<1>5. cell \in Cell /\ cell.vals = vals /\ cell # Free
  BY <1>4, VMAssumption DEF Cell
<1> HIDE DEF cell
<1>6. heap' \in [Object -> Cell \cup {Free}] /\ heap'[o] = cell
      /\ \A p \in Object \ {o} : heap'[p] = heap[p]
  BY <1>3, <1>5 DEF IInv, VMTypeOK, TypeOK
<1>7. VMTypeOK'
  BY <1>2, <1>3, <1>4, <1>6 DEF IInv, VMTypeOK, TypeOK
<1>8. o \notin Allocated /\ Allocated' = Allocated \cup {o}
  BY <1>3, <1>5, <1>6 DEF Allocated
<1>9. Sound' = Sound
  BY <1>2, <1>3, <1>8, InstructionFacts DEF Sound
<1>10. RegistryExact'
  <2>1. ToSet(objs) = Allocated
    BY <1>2, InstructionFacts, GarbageAssumption DEF IInv, RegistryExact, Allocated
  <2>2. ToSet(objs') = Allocated' \ {pending'}
    BY <1>3, <1>8, <2>1
  <2> QED BY <1>3, <2>2 DEF IInv, RegistryExact
<1>11. PendingOK'
  <2>1. pending' # None /\ heap'[pending'] # Free
    BY <1>3, <1>5, <1>6, GarbageAssumption
  <2> QED BY <1>3, <2>1 DEF PendingOK
<1>12. MarksMatchReachability'
  BY <1>2, <1>3, InstructionFacts DEF MarksMatchReachability
<1>13. SoundState'
  <2>1. stack' \in Seq(Sound') /\ env' \in [Symbol -> Sound' \cup {None}]
    BY <1>2, <1>3, <1>4, <1>9, InstructionFacts DEF SoundState
  <2>2. \A p \in Allocated' : heap'[p].vals \in Seq(Sound')
    BY <1>2, <1>5, <1>6, <1>8, <1>9, InstructionFacts DEF SoundState, Allocated
  <2> QED BY <2>1, <2>2 DEF SoundState
<1> QED BY <1>2, <1>3, <1>7, <1>10, <1>11, <1>12, <1>13 DEF IInv

-----------------------------------------------------------------------------
(* One lemma per kind of instruction. *)

LEMMA InitIInv == Init => IInv
<1> SUFFICES ASSUME Init PROVE IInv
  OBVIOUS
<1>1. /\ stack = <<>> /\ heap = [o \in Object |-> Free] /\ reachable = {} /\ objs = <<>>
      /\ cap = GC_INIT_CAP /\ pc = "run" /\ idx = 1 /\ pending = None
      /\ env = [s \in Symbol |-> None] /\ premature = FALSE
  BY DEF Init, InitGc
<1>2. Allocated = {} /\ ToSet(objs) = {}
  BY <1>1 DEF Allocated, ToSet
<1>3. VMTypeOK
  <2>1. stack \in Seq(Value) /\ objs \in Seq(Object)
    BY <1>1
  <2>2. heap \in [Object -> Cell \cup {Free}] /\ env \in [Symbol -> Value \cup {None}]
    BY <1>1
  <2>3. cap \in Nat /\ reachable \in SUBSET Object
    BY <1>1, GarbageAssumption
  <2>4. idx \in Nat \ {0} /\ pending \in Object \cup {None}
    BY <1>1
  <2>5. pc \in {"run", "mark", "sweep", "append", "crashed", "freed"}
    BY <1>1
  <2>6. premature \in BOOLEAN
    BY <1>1
  <2> QED BY <2>1, <2>2, <2>3, <2>4, <2>5, <2>6 DEF VMTypeOK, TypeOK
<1>4. RegistryExact
  BY <1>1, <1>2, GarbageAssumption DEF RegistryExact
<1>5. MarksMatchReachability /\ PendingOK /\ SoundState
  BY <1>1, <1>2 DEF MarksMatchReachability, PendingOK, SoundState
<1> QED BY <1>1, <1>3, <1>4, <1>5 DEF IInv

LEMMA AppendSound ==
  ASSUME NEW S, NEW s \in Seq(S), NEW v \in S
  PROVE  Append(s, v) \in Seq(S)
OBVIOUS

(* The object an operand is has sound contents. *)
LEMMA ContentsSound ==
  ASSUME IInv, Instruction, NEW v, NEW type, IsObj(v, type)
  PROVE  v \in Allocated /\ v \in Sound /\ heap[v].vals \in Seq(Sound)
BY InstructionFacts DEF IsObj, Allocated, SoundState

(* Instructions that only move values. *)
LEMMA MovesIInv ==
  ASSUME IInv,
         \/ PUSH
         \/ POP
         \/ \E i \in 1 .. MaxStack : PSH(i)
         \/ \E i \in 1 .. MaxStack : STR(i)
         \/ \E n \in {1, 2} : OperatorToScalar(n)
         \/ \E s \in Symbol : SYM(s)
  PROVE  IInv'
<1> USE DEF Leaves
<1>1. CASE PUSH
  <2>1. Append(stack, Scalar) \in Seq(Sound)
    BY <1>1, InstructionFacts, AppendSound DEF PUSH
  <2> QED BY <1>1, <2>1, LeavesIInv DEF PUSH
<1>2. CASE POP
  <2>1. Below(1) \in Seq(Sound)
    BY <1>2, InstructionFacts, OperandsSound DEF POP
  <2> QED BY <1>2, <2>1, LeavesIInv DEF POP
<1>3. ASSUME NEW i \in 1 .. MaxStack, PSH(i) PROVE IInv'
  <2>1. stack[i] \in Sound
    BY <1>3, InstructionFacts DEF PSH, Depth
  <2>2. Append(stack, stack[i]) \in Seq(Sound)
    BY <1>3, <2>1, InstructionFacts, AppendSound DEF PSH
  <2> QED BY <1>3, <2>2, LeavesIInv DEF PSH
<1>4. ASSUME NEW i \in 1 .. MaxStack, STR(i) PROVE IInv'
  <2>1. [stack EXCEPT ![i] = stack[Depth]] \in Seq(Sound)
    BY <1>4, InstructionFacts DEF STR, Depth
  <2> QED BY <1>4, <2>1, LeavesIInv DEF STR
<1>5. ASSUME NEW n \in {1, 2}, OperatorToScalar(n) PROVE IInv'
  <2>1. Below(n) \in Seq(Sound)
    BY <1>5, OperandsSound DEF OperatorToScalar
  <2>2. Append(Below(n), Scalar) \in Seq(Sound)
    BY <1>5, <2>1, InstructionFacts, AppendSound DEF OperatorToScalar
  <2> QED BY <1>5, <2>2, LeavesIInv DEF OperatorToScalar
<1>6. ASSUME NEW s \in Symbol, SYM(s) PROVE IInv'
  <2>1. env[s] \in Sound
    BY <1>6, InstructionFacts DEF SYM, SoundState
  <2>2. Append(stack, env[s]) \in Seq(Sound)
    BY <1>6, <2>1, InstructionFacts, AppendSound DEF SYM
  <2> QED BY <1>6, <2>2, LeavesIInv DEF SYM
<1> QED BY <1>1, <1>2, <1>3, <1>4, <1>5, <1>6

(* Instructions that make an object. *)
LEMMA MakesIInv ==
  ASSUME IInv,
         \/ Concat
         \/ \E a, v \in {1, 2} : AppendValue(a, v)
         \/ MergeArrays
         \/ CLO
         \/ PRO
         \/ \E n \in 0 .. MaxSize : ARR(n)
         \/ DCT
  PROVE  IInv'
<1> USE DEF ObjType
<1>0. <<>> \in Seq(Sound)
  OBVIOUS
<1>1. CASE Concat
  <2>1. 2 <= Depth
    BY <1>1, InstructionFacts DEF Concat, Creates
  <2> QED BY <1>1, <1>0, <2>1, CreatesIInv DEF Concat
<1>2. ASSUME NEW a \in {1, 2}, NEW v \in {1, 2}, AppendValue(a, v) PROVE IInv'
  <2>1. Instruction
    BY <1>2 DEF AppendValue, Creates
  <2>2. heap[Nth(a)].vals \in Seq(Sound) /\ Nth(v) \in Sound
    BY <1>2, <2>1, ContentsSound, InstructionFacts DEF AppendValue
  <2>3. Append(heap[Nth(a)].vals, Nth(v)) \in Seq(Sound)
    BY <2>2, AppendSound
  <2> QED BY <1>2, <2>3, CreatesIInv DEF AppendValue
<1>3. CASE MergeArrays
  <2>1. Instruction
    BY <1>3 DEF MergeArrays, Creates
  <2>2. heap[Nth(1)].vals \in Seq(Sound) /\ heap[Nth(2)].vals \in Seq(Sound)
    BY <1>3, <2>1, ContentsSound DEF MergeArrays
  <2>3. heap[Nth(2)].vals \o heap[Nth(1)].vals \in Seq(Sound)
    BY <2>2
  <2> QED BY <1>3, <2>3, CreatesIInv DEF MergeArrays
<1>4. CASE CLO
  <2>1. 1 <= Depth
    BY <1>4, InstructionFacts DEF CLO, Creates
  <2> QED BY <1>4, <1>0, <2>1, CreatesIInv DEF CLO
<1>5. CASE PRO
  <2>1. Instruction
    BY <1>5 DEF PRO, Creates
  <2>2. 1 <= Depth /\ Nth(1) \in Sound
    BY <1>5, <2>1, InstructionFacts, OperandsSound DEF PRO
  <2>3. <<Nth(1)>> \in Seq(Sound)
    BY <2>2
  <2> QED BY <1>5, <2>2, <2>3, CreatesIInv DEF PRO
<1>6. ASSUME NEW n \in 0 .. MaxSize, ARR(n) PROVE IInv'
  <2>1. Instruction
    BY <1>6 DEF ARR, Creates
  <2>2. PICK fill \in {Scalar, Junk} : Creates(0, "ARRAY", [i \in 1 .. n |-> fill])
    BY <1>6 DEF ARR
  <2>3. fill \in Sound /\ 0 <= Depth
    BY <2>1, InstructionFacts
  <2>4. n \in Nat
    BY VMAssumption
  <2>5. [i \in 1 .. n |-> fill] \in Seq(Sound)
    BY <2>3, <2>4
  <2> QED BY <2>2, <2>3, <2>5, CreatesIInv
<1>7. CASE DCT
  <2>1. 0 <= Depth
    BY <1>7, InstructionFacts DEF DCT, Creates
  <2> QED BY <1>7, <1>0, <2>1, CreatesIInv DEF DCT
<1> QED BY <1>1, <1>2, <1>3, <1>4, <1>5, <1>6, <1>7

(* Instructions that read and write containers. *)
LEMMA ContainersIInv ==
  ASSUME IInv,
         \/ MergeDictionaries
         \/ \E i \in 1 .. MaxSize : IDX(i)
         \/ \E i \in 1 .. MaxSize : IDA(i)
  PROVE  IInv'
<1>1. CASE MergeDictionaries
  <2>1. Instruction /\ Depth >= 2
    BY <1>1 DEF MergeDictionaries, Writes
  <2>2. Nth(2) \in Allocated /\ heap[Nth(1)].vals \in Seq(Sound) /\ heap[Nth(2)].vals \in Seq(Sound)
    BY <1>1, <2>1, ContentsSound DEF MergeDictionaries
  <2>3. Overlay(heap[Nth(2)].vals, heap[Nth(1)].vals) \in Seq(Sound)
    BY <2>2, OverlaySound
  <2>4. Below(1) \in Seq(Sound)
    BY <2>1, InstructionFacts, OperandsSound
  <2> QED BY <1>1, <2>2, <2>3, <2>4, WritesIInv DEF MergeDictionaries
<1>2. ASSUME NEW i \in 1 .. MaxSize, IDX(i) PROVE IInv'
  <2>1. Instruction /\ Depth >= 2
    BY <1>2 DEF IDX, Leaves
  <2>2. Below(2) \in Seq(Sound)
    BY <2>1, InstructionFacts, OperandsSound
  <2>3. CASE /\ IsObj(Nth(2), "ARRAY") \/ IsObj(Nth(2), "DICTIONARY")
             /\ i \in 1 .. Len(heap[Nth(2)].vals)
             /\ Leaves(Append(Below(2), heap[Nth(2)].vals[i]))
    <3>1. heap[Nth(2)].vals[i] \in Sound
      BY <2>1, <2>3, ContentsSound
    <3>2. Append(Below(2), heap[Nth(2)].vals[i]) \in Seq(Sound)
      BY <2>2, <3>1, AppendSound
    <3> QED BY <2>3, <3>2, LeavesIInv
  <2>4. CASE Leaves(Append(Below(2), Scalar))
    <3>1. Append(Below(2), Scalar) \in Seq(Sound)
      BY <2>1, <2>2, InstructionFacts, AppendSound
    <3> QED BY <2>4, <3>1, LeavesIInv
  <2> QED BY <1>2, <2>3, <2>4 DEF IDX
<1>3. ASSUME NEW i \in 1 .. MaxSize, IDA(i) PROVE IInv'
  <2> DEFINE c == Nth(3)
             old == heap[c].vals
  <2>1. Instruction /\ Depth >= 3
    BY <1>3 DEF IDA, Writes
  <2>2. Below(2) \in Seq(Sound) /\ Nth(1) \in Sound
    BY <2>1, InstructionFacts, OperandsSound
  <2>3. c \in Allocated /\ old \in Seq(Sound)
    BY <1>3, <2>1, ContentsSound DEF IDA
  <2>4. i \in Nat /\ i >= 1
    BY VMAssumption
  <2>5. CASE /\ i \in 1 .. Len(old)
             /\ Writes(c, [old EXCEPT ![i] = Nth(1)], Below(2))
    <3>1. [old EXCEPT ![i] = Nth(1)] \in Seq(Sound)
      <4> HIDE DEF old
      <4>1. Len(old) \in Nat /\ old \in [1 .. Len(old) -> Sound]
        BY <2>3
      <4>2. [old EXCEPT ![i] = Nth(1)] \in [1 .. Len(old) -> Sound]
        BY <2>2, <4>1
      <4> QED BY <4>1, <4>2
    <3> QED BY <2>2, <2>3, <2>5, <3>1, WritesIInv
  <2>6. CASE /\ i \in 1 .. Len(old) + 1
             /\ Writes(c, Overlay(old, Append(SubSeq(old, 1, i - 1), Nth(1))), Below(2))
    <3> HIDE DEF c, old
    <3>1. Len(old) \in Nat
      BY <2>3
    <3>2. SubSeq(old, 1, i - 1) \in Seq(Sound)
      BY <2>3, <2>4, <2>6, <3>1
    <3>3. Append(SubSeq(old, 1, i - 1), Nth(1)) \in Seq(Sound)
      BY <2>2, <3>2, AppendSound
    <3>4. Overlay(old, Append(SubSeq(old, 1, i - 1), Nth(1))) \in Seq(Sound)
      BY <2>3, <3>3, OverlaySound
    <3> QED BY <2>2, <2>3, <2>6, <3>4, WritesIInv
  <2> QED BY <1>3, <2>5, <2>6 DEF IDA
<1> QED BY <1>1, <1>2, <1>3

(* Instructions on globals, and the two that start a collection or end     *)
(* the VM.                                                                 *)
LEMMA GlobalsIInv ==
  ASSUME IInv, NEW s \in Symbol, DEF_(s) \/ ASN(s)
  PROVE  IInv'
<1>1. /\ Instruction /\ Depth > 0 /\ pc = "run" /\ ~premature
      /\ env' = [env EXCEPT ![s] = Nth(1)]
      /\ stack' = Below(1) \/ stack' = stack
      /\ heap' = heap /\ premature' = premature
      /\ reachable' = reachable /\ objs' = objs /\ cap' = cap /\ pc' = pc
      /\ idx' = idx /\ pending' = pending
  BY DEF DEF_, ASN, Instruction, collectorVars
<1>2. Nth(1) \in Sound /\ stack' \in Seq(Sound)
  BY <1>1, InstructionFacts, OperandsSound
<1>3. Nth(1) \in Value /\ stack' \in Seq(Value)
  BY <1>1, <1>2, InstructionFacts, SeqWiden
<1>4. VMTypeOK'
  BY <1>1, <1>3 DEF IInv, VMTypeOK, TypeOK
<1>5. Allocated' = Allocated /\ Sound' = Sound
  BY <1>1 DEF Allocated, Sound
<1>6. RegistryExact' /\ PendingOK'
  BY <1>1, <1>5 DEF IInv, RegistryExact, PendingOK
<1>7. MarksMatchReachability'
  BY <1>1, InstructionFacts DEF MarksMatchReachability
<1>8. env' \in [Symbol -> Sound \cup {None}]
  BY <1>1, <1>2, InstructionFacts DEF SoundState
<1>9. SoundState'
  BY <1>1, <1>2, <1>5, <1>8, InstructionFacts DEF SoundState
<1> QED BY <1>1, <1>4, <1>6, <1>7, <1>9 DEF IInv

LEMMA HostIInv ==
  ASSUME IInv, GC \/ free_vm
  PROVE  IInv'
<1>1. /\ Instruction /\ pc = "run" /\ ~premature
      /\ stack' = stack /\ env' = env /\ premature' = premature
      /\ reachable' = reachable /\ objs' = objs /\ cap' = cap
      /\ idx' = idx /\ pending' = pending
  BY DEF GC, free_vm, gc_collect, free_gc, Instruction
<1>2. pending = None /\ reachable = {} /\ SoundState
  BY <1>1, InstructionFacts
<1>3. CASE GC
  <2>1. heap' = heap /\ pc' = "mark"
    BY <1>3 DEF GC, gc_collect
  <2>2. Allocated' = Allocated /\ Sound' = Sound
    BY <1>1, <2>1 DEF Allocated, Sound
  <2>3. VMTypeOK' /\ RegistryExact' /\ PendingOK' /\ MarksMatchReachability' /\ SoundState'
    BY <1>1, <1>2, <2>1, <2>2
       DEF IInv, VMTypeOK, TypeOK, RegistryExact, PendingOK, MarksMatchReachability, SoundState
  <2> QED BY <1>1, <2>1, <2>3 DEF IInv
<1>4. CASE free_vm
  <2>1. /\ heap' = [o \in Object |-> IF o \in ToSet(objs) THEN Free ELSE heap[o]]
        /\ pc' = "freed"
    BY <1>4 DEF free_vm, free_gc
  <2>2. VMTypeOK' /\ RegistryExact' /\ PendingOK' /\ MarksMatchReachability'
    BY <1>1, <1>2, <2>1
       DEF IInv, VMTypeOK, TypeOK, RegistryExact, PendingOK, MarksMatchReachability
  <2> QED BY <1>1, <2>1, <2>2 DEF IInv
<1> QED BY <1>3, <1>4

-----------------------------------------------------------------------------
(* The object graph. *)

LEMMA GraphFacts ==
  ASSUME heap \in [Object -> Cell \cup {Free}]
  PROVE  /\ Children \in [Object -> SUBSET Object]
         /\ References \in [Object -> SUBSET Object]
         /\ \A o \in Object : Children[o] \subseteq References[o]
<1>1. \A o \in Object : heap[o] # Free => heap[o].vals \in Seq(Value)
  BY DEF Cell
<1>2. \A o \in Object : heap[o] # Free =>
        Held(SubSeq(heap[o].vals, 1, DictLen)) \subseteq Held(heap[o].vals)
  BY <1>1 DEF Held, ToSet, DictLen
<1>3. Children \in [Object -> SUBSET Object] /\ References \in [Object -> SUBSET Object]
  BY DEF Children, References, Held
<1>4. \A o \in Object : Children[o] \subseteq References[o]
  BY <1>2 DEF Children, References
<1> QED BY <1>3, <1>4

Globals == Object \cap {env[s] : s \in Symbol}
Operands == IF pending = None THEN {} ELSE References[pending]
Roots == Held(stack) \cup Globals \cup Operands

LEMMA RootsFacts ==
  ASSUME VMTypeOK
  PROVE  /\ Roots \in SUBSET Object
         /\ Held(stack) \in SUBSET Object
         /\ InUse = Closure(Roots, References)
         /\ Roots \subseteq InUse
         /\ Closed(InUse, References)
         /\ Marked \subseteq InUse
         /\ Held(stack) \subseteq Marked
         /\ Marked \in SUBSET Object /\ InUse \in SUBSET Object
<1>1. /\ Children \in [Object -> SUBSET Object]
      /\ References \in [Object -> SUBSET Object]
      /\ \A o \in Object : Children[o] \subseteq References[o]
  BY GraphFacts DEF VMTypeOK, TypeOK
<1>2. Held(stack) \in SUBSET Object /\ Globals \in SUBSET Object
  BY DEF Held, Globals
<1>3. Operands \in SUBSET Object
  BY <1>1 DEF Operands, VMTypeOK, TypeOK
<1>4. Roots \in SUBSET Object /\ Held(stack) \subseteq Roots
  BY <1>2, <1>3 DEF Roots
<1>5. InUse = Closure(Roots, References)
  BY DEF InUse, Roots, Globals, Operands
<1>6. Roots \subseteq InUse /\ Closed(InUse, References)
  BY <1>1, <1>4, <1>5, ClosureRoots, ClosureClosed
<1>7. Marked \subseteq InUse
  BY <1>1, <1>2, <1>4, <1>5, ClosureMonotonic DEF Marked
<1>8. Held(stack) \subseteq Marked
  BY <1>2, ClosureRoots DEF Marked
<1>9. Marked \in SUBSET Object /\ InUse \in SUBSET Object
  BY DEF Marked, InUse, Closure
<1> QED BY <1>2, <1>4, <1>5, <1>6, <1>7, <1>8, <1>9

(* In a sound state nothing in use is free. *)
LEMMA InUseAllocated ==
  ASSUME VMTypeOK, SoundState
  PROVE  InUse \subseteq Allocated \ {pending}
<1> DEFINE S == Allocated \ {pending}
<1>1. S \in SUBSET Object
  BY DEF Allocated
<1>2. \A v \in Sound : v \in Object => v \in S
  BY GarbageAssumption DEF Sound
<1>3. \A o \in Allocated : References[o] \subseteq S
  BY <1>2 DEF SoundState, References, Held, ToSet, Allocated
<1>4. Held(stack) \subseteq S
  BY <1>2 DEF SoundState, Held, ToSet
<1>5. Globals \subseteq S
  BY <1>2, GarbageAssumption DEF SoundState, Globals
<1>6. Operands \subseteq S
  BY <1>3 DEF Operands, References, Allocated, VMTypeOK, TypeOK
<1>7. Roots \subseteq S /\ Closed(S, References)
  BY <1>3, <1>4, <1>5, <1>6 DEF Roots, Closed
<1>8. Closure(Roots, References) \subseteq S
  BY <1>1, <1>7, ClosureLeast
<1> QED BY <1>8, RootsFacts

-----------------------------------------------------------------------------
(* One lemma per step of the collector. *)

LEMMA MarkIInv ==
  ASSUME IInv, Collect, Mark
  PROVE  IInv'
<1>1. /\ pc = "mark" /\ pc' = "sweep" /\ idx' = 1
      /\ reachable' = reachable \cup Marked
      /\ stack' = stack /\ heap' = heap /\ objs' = objs /\ cap' = cap
      /\ pending' = pending /\ env' = env
      /\ premature' = (premature \/ ~(InUse \cap ToSet(objs) \subseteq Marked))
  BY DEF Collect, Mark
<1>2. VMTypeOK /\ ~premature /\ SoundState /\ reachable = {}
  BY <1>1 DEF IInv, MarksMatchReachability
<1>3. InUse \subseteq ToSet(objs) /\ Marked \subseteq InUse /\ Marked \in SUBSET Object
  BY <1>1, <1>2, InUseAllocated, RootsFacts DEF IInv, RegistryExact
<1>4. Marked' = Marked /\ InUse' = InUse
  BY <1>1 DEF Marked, InUse, Children, References
<1>5. Len(objs) \in Nat /\ ToSet(objs) = {objs[i] : i \in 1 .. Len(objs)}
  BY <1>2 DEF VMTypeOK, TypeOK, ToSet
<1>6. VMTypeOK'
  <2>1. idx' \in Nat \ {0} /\ premature' \in BOOLEAN
    BY <1>1
  <2>2. reachable' \in SUBSET Object
    BY <1>1, <1>2, <1>3
  <2> QED BY <1>1, <1>2, <2>1, <2>2 DEF VMTypeOK, TypeOK
<1>7. RegistryExact' /\ PendingOK'
  BY <1>1 DEF IInv, RegistryExact, PendingOK, Allocated
<1>8. MarksMatchReachability'
  BY <1>1, <1>2, <1>3, <1>4, <1>5 DEF MarksMatchReachability
<1>9. SweepInv'
  <2>1. idx' \in 1 .. Len(objs') + 1 /\ \A i \in 1 .. idx' - 1 : FALSE
    BY <1>1, <1>5
  <2>2. Marked' \subseteq ToSet(objs') /\ (~premature' => InUse' \subseteq Marked')
    BY <1>1, <1>2, <1>3, <1>4
  <2> QED BY <2>1, <2>2 DEF SweepInv
<1> QED BY <1>1, <1>6, <1>7, <1>8, <1>9 DEF IInv

LEMMA MarkFailsIInv ==
  ASSUME IInv, Collect, MarkFails
  PROVE  IInv'
<1>1. /\ pc = "mark" /\ pc' = "crashed" /\ idx' = idx
      /\ reachable' = reachable
      /\ stack' = stack /\ heap' = heap /\ objs' = objs /\ cap' = cap
      /\ pending' = pending /\ env' = env
      /\ premature' = premature
  BY DEF Collect, MarkFails, Mark, IInv, VMTypeOK
<1>2. VMTypeOK /\ ~premature /\ SoundState /\ reachable = {}
  BY <1>1 DEF IInv, MarksMatchReachability
<1>3. VMTypeOK'
  BY <1>1, <1>2 DEF VMTypeOK, TypeOK
<1>4. RegistryExact' /\ PendingOK' /\ MarksMatchReachability'
  BY <1>1, <1>2 DEF IInv, RegistryExact, PendingOK, MarksMatchReachability, Allocated
<1>5. SoundState'
  BY <1>1, <1>2 DEF SoundState, Sound, Allocated
<1> QED BY <1>1, <1>3, <1>4, <1>5 DEF IInv

(* Moving the last entry into the place of the i-th removes only that one. *)
Shrunk(s, i) == SubSeq([s EXCEPT ![i] = s[Len(s)]], 1, Len(s) - 1)

LEMMA RemoveByMove ==
  ASSUME NEW S, NEW s \in Seq(S), NEW i \in 1 .. Len(s),
         \A j, k \in 1 .. Len(s) : s[j] = s[k] => j = k
  PROVE  /\ Shrunk(s, i) \in Seq(S)
         /\ Len(Shrunk(s, i)) = Len(s) - 1
         /\ \A j \in 1 .. Len(s) - 1 :
              Shrunk(s, i)[j] = IF j = i THEN s[Len(s)] ELSE s[j]
         /\ \A j, k \in 1 .. Len(Shrunk(s, i)) :
              Shrunk(s, i)[j] = Shrunk(s, i)[k] => j = k
         /\ ToSet(Shrunk(s, i)) = ToSet(s) \ {s[i]}
<1> DEFINE t == [s EXCEPT ![i] = s[Len(s)]]
           r == SubSeq(t, 1, Len(s) - 1)
<1>1. Len(s) \in Nat /\ Len(s) > 0 /\ i \in Nat /\ s \in [1 .. Len(s) -> S]
  OBVIOUS
<1>2. t \in Seq(S) /\ Len(t) = Len(s)
      /\ \A j \in 1 .. Len(s) : t[j] = IF j = i THEN s[Len(s)] ELSE s[j]
  <2>1. s[Len(s)] \in S
    BY <1>1
  <2>2. t \in [1 .. Len(s) -> S]
    BY <1>1, <2>1
  <2>3. t \in Seq(S) /\ Len(t) = Len(s)
    BY <1>1, <2>2
  <2>4. \A j \in 1 .. Len(s) : t[j] = IF j = i THEN s[Len(s)] ELSE s[j]
    BY <1>1
  <2> QED BY <2>3, <2>4
<1> HIDE DEF t
<1>3. /\ r \in Seq(S) /\ Len(r) = Len(s) - 1
      /\ \A j \in 1 .. Len(s) - 1 : r[j] = t[j]
  BY <1>1, <1>2
<1> HIDE DEF r
<1>4. \A j \in 1 .. Len(s) - 1 : r[j] = IF j = i THEN s[Len(s)] ELSE s[j]
  BY <1>1, <1>2, <1>3
<1>5. \A j, k \in 1 .. Len(r) : r[j] = r[k] => j = k
  BY <1>1, <1>3, <1>4
<1>6. ToSet(s) = {s[j] : j \in 1 .. Len(s)} /\ ToSet(r) = {r[j] : j \in 1 .. Len(s) - 1}
  BY <1>1, <1>3 DEF ToSet
<1>7. ToSet(r) \subseteq ToSet(s) \ {s[i]}
  BY <1>1, <1>4, <1>6
<1>8. ASSUME NEW j \in 1 .. Len(s), j # i PROVE s[j] \in ToSet(r)
  <2> DEFINE n == Len(s)
  <2>1. n \in Nat /\ j \in 1 .. n /\ i \in 1 .. n
    BY <1>1
  <2>2. \A k \in 1 .. n - 1 : r[k] \in ToSet(r)
    BY <1>6
  <2>3. \A k \in 1 .. n - 1 : r[k] = IF k = i THEN s[n] ELSE s[k]
    BY <1>4
  <2> HIDE DEF n
  <2>4. j \in 1 .. n - 1 \/ (j = n /\ i \in 1 .. n - 1)
    BY <1>8, <2>1
  <2> QED BY <1>8, <2>2, <2>3, <2>4
<1>9. ToSet(s) \ {s[i]} \subseteq ToSet(r)
  BY <1>6, <1>8
<1>10. r = Shrunk(s, i)
  BY DEF r, t, Shrunk
<1> QED BY <1>3, <1>4, <1>5, <1>7, <1>9, <1>10

LEMMA SweepFreeIInv ==
  ASSUME IInv, Collect, SweepFree
  PROVE  IInv' /\ objs[idx] \notin Marked
<1> DEFINE x == objs[idx]
           n == Len(objs)
<1>1. /\ pc = "sweep" /\ pc' = "sweep" /\ idx' = idx /\ idx <= n
      /\ x \notin reachable /\ reachable' = reachable
      /\ heap' = [heap EXCEPT ![x] = Free]
      /\ objs' = SubSeq([objs EXCEPT ![idx] = objs[n]], 1, n - 1)
      /\ stack' = stack /\ cap' = cap /\ pending' = pending /\ env' = env
      /\ premature' = premature
  BY DEF Collect, SweepFree, Mark, IInv, VMTypeOK
<1>2. /\ VMTypeOK /\ SweepInv
      /\ reachable = {objs[i] : i \in idx .. n} \cap Marked
      /\ ToSet(objs) = Allocated \ {pending} /\ n <= cap
      /\ \A i, j \in 1 .. n : objs[i] = objs[j] => i = j
  BY <1>1 DEF IInv, RegistryExact, MarksMatchReachability
<1>3. objs \in Seq(Object) /\ n \in Nat /\ idx \in 1 .. n
  BY <1>1, <1>2 DEF VMTypeOK, TypeOK, SweepInv
<1>4. /\ objs' \in Seq(Object) /\ Len(objs') = n - 1
      /\ \A j \in 1 .. n - 1 : objs'[j] = IF j = idx THEN objs[n] ELSE objs[j]
      /\ \A i, j \in 1 .. Len(objs') : objs'[i] = objs'[j] => i = j
      /\ ToSet(objs') = ToSet(objs) \ {x}
  <2>1. objs' = Shrunk(objs, idx)
    BY <1>1 DEF Shrunk
  <2>2. \A i, j \in 1 .. Len(objs) : objs[i] = objs[j] => i = j
    BY <1>2
  <2>3. objs \in Seq(Object) /\ idx \in 1 .. Len(objs)
    BY <1>3
  <2> HIDE DEF n, x
  <2>4. /\ Shrunk(objs, idx) \in Seq(Object)
        /\ Len(Shrunk(objs, idx)) = Len(objs) - 1
        /\ \A j \in 1 .. Len(objs) - 1 :
             Shrunk(objs, idx)[j] = IF j = idx THEN objs[Len(objs)] ELSE objs[j]
        /\ \A i, j \in 1 .. Len(Shrunk(objs, idx)) :
             Shrunk(objs, idx)[i] = Shrunk(objs, idx)[j] => i = j
        /\ ToSet(Shrunk(objs, idx)) = ToSet(objs) \ {objs[idx]}
    BY <2>2, <2>3, RemoveByMove
  <2> QED BY <2>1, <2>4 DEF n, x
<1>5. x \in Object /\ x \in ToSet(objs) /\ x # pending /\ x \in Allocated /\ x \notin Marked
  <2>1. x \in Object /\ x \in ToSet(objs)
    BY <1>3 DEF ToSet
  <2>2. x \in {objs[i] : i \in idx .. n}
    BY <1>3
  <2> QED BY <1>1, <1>2, <2>1, <2>2
<1> HIDE DEF x, n
<1>6. /\ heap' \in [Object -> Cell \cup {Free}]
      /\ heap'[x] = Free
      /\ \A o \in Object \ {x} : heap'[o] = heap[o]
  BY <1>1, <1>2, <1>5 DEF VMTypeOK, TypeOK
<1>7. VMTypeOK'
  BY <1>1, <1>2, <1>4, <1>6 DEF VMTypeOK, TypeOK
<1>8. Allocated' = Allocated \ {x}
  BY <1>5, <1>6 DEF Allocated
<1>9. /\ \A o \in Object \ {x} : Children'[o] = Children[o]
      /\ \A o \in Object \ {x} : References'[o] = References[o]
  BY <1>6 DEF Children, References
<1>10. /\ Children \in [Object -> SUBSET Object] /\ Children' \in [Object -> SUBSET Object]
       /\ References \in [Object -> SUBSET Object] /\ References' \in [Object -> SUBSET Object]
  BY <1>2, <1>6, GraphFacts DEF VMTypeOK, TypeOK, Children, References, Held
<1>11. Marked' = Marked
  <2>1. \A o \in Closure(Held(stack), Children) : Children'[o] = Children[o]
    BY <1>5, <1>9 DEF Marked, Closure
  <2>2. Closure(Held(stack), Children') = Closure(Held(stack), Children)
    BY <1>2, <1>10, <2>1, RootsFacts, ClosureLocal
  <2>3. Marked' = Closure(Held(stack'), Children')
    BY DEF Marked, Held
  <2> QED BY <1>1, <2>2, <2>3 DEF Marked
<1>12. ~premature => InUse' = InUse
  <2> SUFFICES ASSUME ~premature PROVE InUse' = InUse
    OBVIOUS
  <2>1. x \notin InUse
    BY <1>2, <1>5 DEF SweepInv
  <2>2. \A o \in Closure(Roots, References) : References'[o] = References[o]
    BY <1>2, <1>9, <2>1, RootsFacts
  <2>3. Closure(Roots, References') = Closure(Roots, References)
    BY <1>2, <1>10, <2>2, RootsFacts, ClosureLocal
  <2>4. Roots' = Roots
    <3>1. Operands' = Operands
      BY <1>1, <1>2, <1>5, <1>9 DEF Operands, VMTypeOK, TypeOK
    <3> QED BY <1>1, <3>1 DEF Roots, Globals, Held
  <2>5. InUse' = Closure(Roots', References')
    BY DEF InUse, Roots, Globals, Operands
  <2> QED BY <1>2, <2>3, <2>4, <2>5, RootsFacts
<1>13. RegistryExact'
  <2>1. ToSet(objs') = Allocated' \ {pending'}
    BY <1>1, <1>2, <1>4, <1>8
  <2>2. Len(objs') <= cap'
    BY <1>1, <1>2, <1>3, <1>4 DEF VMTypeOK, TypeOK
  <2> QED BY <1>4, <2>1, <2>2 DEF RegistryExact
<1>14. PendingOK'
  BY <1>1, <1>2, <1>5, <1>6 DEF IInv, PendingOK, VMTypeOK, TypeOK
<1>15. MarksMatchReachability'
  <2>1. ASSUME NEW m \in Marked, m # x
        PROVE  m \in {objs[i] : i \in idx .. n} <=> m \in {objs'[i] : i \in idx .. n - 1}
    <3>1. ASSUME NEW i \in idx .. n, m = objs[i]
          PROVE  m \in {objs'[j] : j \in idx .. n - 1}
      <4>1. i # idx /\ i \in Nat /\ idx < i
        BY <1>3, <2>1, <3>1 DEF x
      <4>2. CASE i < n
        BY <1>3, <1>4, <3>1, <4>1, <4>2
      <4>3. CASE i = n
        <5>1. idx \in 1 .. n - 1 /\ objs'[idx] = m
          BY <1>3, <1>4, <3>1, <4>1, <4>3
        <5> QED BY <5>1, <1>3
      <4> QED BY <1>3, <4>1, <4>2, <4>3
    <3>2. ASSUME NEW i \in idx .. n - 1, m = objs'[i]
          PROVE  m \in {objs[j] : j \in idx .. n}
      <4>1. i \in 1 .. n - 1 /\ i \in idx .. n /\ n \in idx .. n
        BY <1>3
      <4> QED BY <1>4, <3>2, <4>1
    <3> QED BY <3>1, <3>2
  <2>2. reachable = {objs'[i] : i \in idx .. n - 1} \cap Marked
    BY <1>2, <1>5, <2>1
  <2> QED BY <1>1, <1>4, <1>11, <2>2 DEF MarksMatchReachability
<1>16. SweepInv'
  <2>1. idx' \in 1 .. Len(objs') + 1
    BY <1>1, <1>3, <1>4
  <2>2. Marked' \subseteq ToSet(objs')
    BY <1>2, <1>4, <1>5, <1>11 DEF SweepInv
  <2>3. \A i \in 1 .. idx' - 1 : objs'[i] \in Marked'
    BY <1>1, <1>2, <1>3, <1>4, <1>11 DEF SweepInv
  <2>4. ~premature' => InUse' \subseteq Marked'
    BY <1>1, <1>2, <1>11, <1>12 DEF SweepInv
  <2> QED BY <2>1, <2>2, <2>3, <2>4 DEF SweepInv
<1> QED BY <1>1, <1>5, <1>7, <1>13, <1>14, <1>15, <1>16 DEF IInv, x

LEMMA SweepKeepIInv ==
  ASSUME IInv, Collect, SweepKeep
  PROVE  IInv'
<1> DEFINE x == objs[idx]
           n == Len(objs)
<1>1. /\ pc = "sweep" /\ pc' = "sweep" /\ idx' = idx + 1 /\ idx <= n
      /\ x \in reachable /\ reachable' = reachable \ {x}
      /\ stack' = stack /\ heap' = heap /\ objs' = objs /\ cap' = cap
      /\ pending' = pending /\ env' = env /\ premature' = premature
  BY DEF Collect, SweepKeep, Mark, IInv, VMTypeOK
<1>2. /\ VMTypeOK /\ SweepInv
      /\ reachable = {objs[i] : i \in idx .. n} \cap Marked
      /\ \A i, j \in 1 .. n : objs[i] = objs[j] => i = j
  BY <1>1 DEF IInv, RegistryExact, MarksMatchReachability
<1>3. objs \in Seq(Object) /\ n \in Nat /\ idx \in 1 .. n
  BY <1>1, <1>2 DEF VMTypeOK, TypeOK, SweepInv
<1>4. Marked' = Marked /\ InUse' = InUse
  BY <1>1 DEF Marked, InUse, Children, References
<1>5. VMTypeOK'
  <2>1. idx' \in Nat \ {0}
    BY <1>1, <1>3
  <2> QED BY <1>1, <1>2, <2>1 DEF VMTypeOK, TypeOK
<1>6. RegistryExact' /\ PendingOK'
  BY <1>1 DEF IInv, RegistryExact, PendingOK, Allocated
<1>7. MarksMatchReachability'
  <2>1. {objs[i] : i \in idx + 1 .. n} = {objs[i] : i \in idx .. n} \ {x}
    BY <1>2, <1>3
  <2> QED BY <1>1, <1>2, <1>4, <2>1 DEF MarksMatchReachability
<1>8. SweepInv'
  <2>1. idx' \in 1 .. Len(objs') + 1
    BY <1>1, <1>3
  <2>2. x \in Marked
    BY <1>1, <1>2
  <2>3. \A i \in 1 .. idx' - 1 : objs'[i] \in Marked'
    BY <1>1, <1>2, <1>3, <1>4, <2>2 DEF SweepInv
  <2> QED BY <1>1, <1>2, <1>4, <2>1, <2>3 DEF SweepInv
<1> QED BY <1>1, <1>5, <1>6, <1>7, <1>8 DEF IInv

LEMMA SweepEndsIInv ==
  ASSUME IInv, Collect, SweepEnds
  PROVE  IInv' /\ ToSet(objs) = Marked
<1>1. /\ pc = "sweep" /\ pc' = (IF pending = None THEN "run" ELSE "append")
      /\ idx > Len(objs) /\ idx' = idx /\ reachable' = reachable
      /\ stack' = stack /\ heap' = heap /\ objs' = objs /\ cap' = cap
      /\ pending' = pending /\ env' = env /\ premature' = premature
  BY DEF Collect, SweepEnds, Mark, IInv, VMTypeOK
<1>2. /\ VMTypeOK /\ SweepInv
      /\ reachable = {objs[i] : i \in idx .. Len(objs)} \cap Marked
      /\ ToSet(objs) = Allocated \ {pending}
  BY <1>1 DEF IInv, RegistryExact, MarksMatchReachability
<1>3. Len(objs) \in Nat /\ idx = Len(objs) + 1
      /\ ToSet(objs) = {objs[i] : i \in 1 .. Len(objs)}
  BY <1>1, <1>2 DEF VMTypeOK, TypeOK, SweepInv, ToSet
<1>4. reachable = {}
  BY <1>2, <1>3
<1>5. ToSet(objs) = Marked
  BY <1>2, <1>3 DEF SweepInv
<1>6. VMTypeOK'
  BY <1>1, <1>2 DEF VMTypeOK, TypeOK
<1>7. RegistryExact' /\ PendingOK' /\ MarksMatchReachability'
  BY <1>1, <1>4 DEF IInv, RegistryExact, PendingOK, MarksMatchReachability, Allocated
<1>8. ~premature => SoundState'
  <2> SUFFICES ASSUME ~premature PROVE SoundState
    BY <1>1 DEF SoundState, Sound, Allocated
  <2>1. InUse \subseteq Allocated \ {pending}
    BY <1>2, <1>5 DEF SweepInv
  <2>2. \A v \in Value : (v \in Object => v \in InUse) => v \in Sound
    BY <2>1 DEF Value, Sound
  <2>3. Held(stack) \subseteq InUse /\ Globals \subseteq InUse /\ Operands \subseteq InUse
    BY <1>2, RootsFacts DEF Roots
  <2>4. stack \in Seq(Sound)
    <3>1. Len(stack) \in Nat /\ stack \in [1 .. Len(stack) -> Value]
      BY <1>2 DEF VMTypeOK, TypeOK
    <3>2. \A i \in 1 .. Len(stack) : stack[i] \in Object => stack[i] \in InUse
      BY <2>3, <3>1 DEF Held, ToSet
    <3>3. stack \in [1 .. Len(stack) -> Sound]
      BY <2>2, <3>1, <3>2
    <3> QED BY <3>1, <3>3
  <2>5. env \in [Symbol -> Sound \cup {None}]
    <3>1. \A s \in Symbol : env[s] \in Object => env[s] \in InUse
      BY <2>3 DEF Globals
    <3> QED BY <1>2, <2>2, <3>1 DEF VMTypeOK
  <2>6. ASSUME NEW o \in Allocated PROVE heap[o].vals \in Seq(Sound)
    <3>1. o \in Object /\ heap[o] # Free /\ heap[o].vals \in Seq(Value)
      BY <1>2 DEF Allocated, VMTypeOK, TypeOK, Cell
    <3>2. References[o] = Held(heap[o].vals)
      BY <3>1 DEF References
    <3>3. References[o] \subseteq InUse
      <4>1. CASE o = pending
        BY <2>3, <3>1, <4>1, GarbageAssumption DEF Operands
      <4>2. CASE o # pending
        BY <1>2, <1>5, <4>2, RootsFacts DEF Closed
      <4> QED BY <4>1, <4>2
    <3>4. Len(heap[o].vals) \in Nat /\ heap[o].vals \in [1 .. Len(heap[o].vals) -> Value]
      BY <3>1
    <3>5. \A i \in 1 .. Len(heap[o].vals) : heap[o].vals[i] \in Object => heap[o].vals[i] \in InUse
      BY <3>2, <3>3, <3>4 DEF Held, ToSet
    <3>6. heap[o].vals \in [1 .. Len(heap[o].vals) -> Sound]
      BY <2>2, <3>4, <3>5
    <3> QED BY <3>4, <3>6
  <2> QED BY <2>4, <2>5, <2>6 DEF SoundState
<1>9. pc' # "sweep" /\ pc' # "mark"
  BY <1>1
<1> QED BY <1>1, <1>5, <1>6, <1>7, <1>8, <1>9 DEF IInv

LEMMA AppendIInv ==
  ASSUME IInv, Collect, Append_
  PROVE  IInv' /\ ToSet(objs') = Allocated'
<1> DEFINE n == Len(objs)
<1>1. /\ pc = "append" /\ pc' = "run"
      /\ cap' = (IF n = cap THEN GROW_CAP(cap) ELSE cap)
      /\ objs' = Append(objs, pending) /\ stack' = Append(stack, pending)
      /\ pending' = None /\ heap' = heap /\ reachable' = reachable /\ idx' = idx
      /\ env' = env /\ premature' = premature
  BY DEF Collect, Append_, Mark, IInv, VMTypeOK
<1>2. /\ VMTypeOK /\ reachable = {} /\ pending # None /\ heap[pending] # Free
      /\ ToSet(objs) = Allocated \ {pending} /\ n <= cap
      /\ \A i, j \in 1 .. n : objs[i] = objs[j] => i = j
  BY <1>1 DEF IInv, PendingOK, RegistryExact, MarksMatchReachability
<1>3. pending \in Object /\ pending \in Allocated /\ pending \in Value
  BY <1>2 DEF VMTypeOK, TypeOK, Allocated, Value
<1>4. objs \in Seq(Object) /\ n \in Nat /\ cap \in Nat
  BY <1>2 DEF VMTypeOK, TypeOK
<1>5. /\ objs' \in Seq(Object) /\ Len(objs') = n + 1 /\ objs'[n + 1] = pending
      /\ \A i \in 1 .. n : objs'[i] = objs[i]
  BY <1>1, <1>3, <1>4
<1>6. cap' \in Nat /\ n + 1 <= cap'
  <2>1. GROW_CAP(cap) \in Nat /\ cap + 1 <= GROW_CAP(cap)
    BY <1>4 DEF GROW_CAP
  <2>2. n < cap \/ n = cap
    BY <1>2, <1>4
  <2> QED BY <1>1, <1>4, <2>1, <2>2
<1>7. ToSet(objs) = {objs[i] : i \in 1 .. n} /\ ToSet(objs') = {objs'[i] : i \in 1 .. n + 1}
  BY <1>4, <1>5 DEF ToSet
<1> HIDE DEF n
<1>8. ToSet(objs') = ToSet(objs) \cup {pending}
  <2>1. ASSUME NEW i \in 1 .. n + 1 PROVE objs'[i] \in ToSet(objs) \cup {pending}
    BY <1>4, <1>5, <1>7
  <2>2. ASSUME NEW i \in 1 .. n PROVE objs[i] \in ToSet(objs')
    <3>1. i \in 1 .. n + 1 /\ objs'[i] = objs[i]
      BY <1>4, <1>5
    <3> QED BY <1>7, <3>1
  <2>3. pending \in ToSet(objs')
    <3>1. n + 1 \in 1 .. n + 1
      BY <1>4
    <3> QED BY <1>5, <1>7, <3>1
  <2> QED BY <1>7, <2>1, <2>2, <2>3
<1>9. Allocated' = Allocated
  BY <1>1 DEF Allocated
<1>10. None \notin Allocated
  BY GarbageAssumption DEF Allocated
<1>11. ToSet(objs') = Allocated'
  BY <1>2, <1>3, <1>8, <1>9
<1>12. RegistryExact'
  <2>1. \A i \in 1 .. n : objs[i] # pending
    BY <1>2, <1>7
  <2>2. \A i, j \in 1 .. Len(objs') : objs'[i] = objs'[j] => i = j
    <3> SUFFICES ASSUME NEW i \in 1 .. n + 1, NEW j \in 1 .. n + 1, objs'[i] = objs'[j]
                 PROVE  i = j
      BY <1>5
    <3>1. (i \in 1 .. n \/ i = n + 1) /\ (j \in 1 .. n \/ j = n + 1)
      BY <1>4
    <3> QED BY <1>2, <1>5, <2>1, <3>1 DEF n
  <2>3. ToSet(objs') = Allocated' \ {pending'}
    BY <1>1, <1>9, <1>10, <1>11
  <2>4. Len(objs') <= cap'
    BY <1>5, <1>6
  <2> QED BY <2>2, <2>3, <2>4 DEF RegistryExact
<1>13. VMTypeOK'
  <2>1. stack' \in Seq(Value)
    BY <1>1, <1>2, <1>3, AppendSound DEF VMTypeOK, TypeOK
  <2> QED BY <1>1, <1>2, <1>5, <1>6, <2>1 DEF VMTypeOK, TypeOK
<1>14. PendingOK' /\ MarksMatchReachability'
  BY <1>1, <1>2 DEF PendingOK, MarksMatchReachability
<1>15. ~premature' => SoundState'
  <2> SUFFICES ASSUME ~premature PROVE SoundState'
    BY <1>1
  <2>1. SoundState
    BY <1>1 DEF IInv
  <2>2. Sound \subseteq Sound' /\ pending \in Sound'
    BY <1>1, <1>3, <1>9, <1>10 DEF Sound
  <2>3. stack' \in Seq(Sound')
    BY <1>1, <2>1, <2>2, SeqWiden, AppendSound DEF SoundState
  <2>4. env' \in [Symbol -> Sound' \cup {None}]
    BY <1>1, <2>1, <2>2 DEF SoundState
  <2>5. \A o \in Allocated' : heap'[o].vals \in Seq(Sound')
    BY <1>1, <1>9, <2>1, <2>2, SeqWiden DEF SoundState
  <2> QED BY <2>3, <2>4, <2>5 DEF SoundState
<1> QED BY <1>1, <1>11, <1>12, <1>13, <1>14, <1>15 DEF IInv

LEMMA NextIInv == IInv /\ [Next]_vars => IInv'
<1> SUFFICES ASSUME IInv, [Next]_vars PROVE IInv'
  OBVIOUS
<1>1. CASE \/ PUSH \/ POP
           \/ \E i \in 1 .. MaxStack : PSH(i)
           \/ \E i \in 1 .. MaxStack : STR(i)
           \/ \E n \in {1, 2} : OperatorToScalar(n)
           \/ \E s \in Symbol : SYM(s)
  BY <1>1, MovesIInv
<1>2. CASE \/ Concat
           \/ \E a, v \in {1, 2} : AppendValue(a, v)
           \/ MergeArrays \/ CLO \/ PRO
           \/ \E n \in 0 .. MaxSize : ARR(n)
           \/ DCT
  BY <1>2, MakesIInv
<1>3. CASE \/ MergeDictionaries
           \/ \E i \in 1 .. MaxSize : IDX(i)
           \/ \E i \in 1 .. MaxSize : IDA(i)
  BY <1>3, ContainersIInv
<1>4. CASE \E s \in Symbol : DEF_(s) \/ ASN(s)
  BY <1>4, GlobalsIInv
<1>5. CASE GC \/ free_vm
  BY <1>5, HostIInv
<1>6. CASE Collect
  BY <1>6, MarkIInv, MarkFailsIInv, SweepFreeIInv, SweepKeepIInv, SweepEndsIInv, AppendIInv
     DEF Collect, Collector
<1>7. CASE UNCHANGED vars
  <2>1. /\ stack' = stack /\ heap' = heap /\ reachable' = reachable /\ objs' = objs
        /\ cap' = cap /\ pc' = pc /\ idx' = idx /\ pending' = pending
        /\ env' = env /\ premature' = premature
    BY <1>7 DEF vars, collectorVars
  <2>2. Allocated' = Allocated /\ Sound' = Sound /\ Marked' = Marked /\ InUse' = InUse
    BY <2>1 DEF Allocated, Sound, Marked, InUse, Children, References
  <2>3. VMTypeOK' /\ RegistryExact' /\ MarksMatchReachability' /\ PendingOK'
    BY <2>1, <2>2
       DEF IInv, VMTypeOK, TypeOK, RegistryExact, MarksMatchReachability, PendingOK, Allocated
  <2>4. ~premature /\ pc \notin {"sweep", "freed"} => SoundState'
    BY <2>1, <2>2 DEF IInv, SoundState
  <2>5. pc = "sweep" => SweepInv'
    BY <2>1, <2>2 DEF IInv, SweepInv
  <2> QED BY <2>1, <2>3, <2>4, <2>5 DEF IInv
<1> QED BY <1>1, <1>2, <1>3, <1>4, <1>5, <1>6, <1>7 DEF Next

LEMMA SpecIInv == Spec => []IInv
BY InitIInv, NextIInv, PTL DEF Spec

-----------------------------------------------------------------------------
(* Values, registry and collector state always have their types.           *)
THEOREM VMTypeCorrect == Spec => []VMTypeOK
<1>1. IInv => VMTypeOK
  BY DEF IInv
<1> QED BY <1>1, SpecIInv, PTL

(* The registry holds every object the VM made exactly once, whatever the  *)
(* program does, also while gc_collect rewrites it and after a free.       *)
THEOREM RegistryIsExact == Spec => []RegistryExact
<1>1. IInv => RegistryExact
  BY DEF IInv
<1> QED BY <1>1, SpecIInv, PTL

(* Every collection starts and ends without a reachable flag; in between,  *)
(* the flags are those of the objects the sweep has still to look at.      *)
THEOREM MarksAreExact == Spec => []MarksMatchReachability
<1>1. IInv => MarksMatchReachability
  BY DEF IInv
<1> QED BY <1>1, SpecIInv, PTL

(* Until a collection frees something in use, the stack reaches only       *)
(* allocated objects.                                                      *)
THEOREM StackIsSafe == Spec => []StackSafe
<1>1. IInv => StackSafe
  <2> SUFFICES ASSUME IInv, ~premature, pc # "freed" PROVE Marked \subseteq Allocated
    BY DEF StackSafe
  <2>1. CASE pc = "sweep"
    BY <2>1 DEF IInv, SweepInv, RegistryExact
  <2>2. CASE pc # "sweep"
    BY <2>2, InUseAllocated, RootsFacts DEF IInv
  <2> QED BY <2>1, <2>2
<1> QED BY <1>1, SpecIInv, PTL

(* Instructions leave the registry to the collector. *)
LEMMA InstructionsKeepRegistry ==
  ASSUME Next
  PROVE  Collect \/ free_vm \/ (Instruction /\ objs' = objs)
<1> USE DEF Leaves, Creates, Writes, Instruction, collectorVars, gc_register
<1>1. ASSUME PUSH \/ POP \/ (\E i \in 1 .. MaxStack : PSH(i)) \/ (\E i \in 1 .. MaxStack : STR(i))
      PROVE  Instruction /\ objs' = objs
  BY <1>1 DEF PUSH, POP, PSH, STR
<1>2. ASSUME (\E n \in {1, 2} : OperatorToScalar(n)) \/ (\E s \in Symbol : SYM(s) \/ DEF_(s) \/ ASN(s)) \/ GC
      PROVE  Instruction /\ objs' = objs
  BY <1>2 DEF OperatorToScalar, SYM, DEF_, ASN, GC, gc_collect
<1>3. ASSUME Concat \/ (\E a, v \in {1, 2} : AppendValue(a, v)) \/ MergeArrays \/ CLO \/ PRO \/ DCT
      PROVE  Instruction /\ objs' = objs
  BY <1>3 DEF Concat, AppendValue, MergeArrays, CLO, PRO, DCT
<1>4. ASSUME \E n \in 0 .. MaxSize : ARR(n)
      PROVE  Instruction /\ objs' = objs
  BY <1>4 DEF ARR
<1>5. ASSUME MergeDictionaries \/ (\E i \in 1 .. MaxSize : IDX(i)) \/ (\E i \in 1 .. MaxSize : IDA(i))
      PROVE  Instruction /\ objs' = objs
  BY <1>5 DEF MergeDictionaries, IDX, IDA
<1> QED BY <1>1, <1>2, <1>3, <1>4, <1>5 DEF Next

(* gc_collect never frees an object that mark_object found.                *)
THEOREM SweepSparesTheMarked == Spec => FreesOnlyUnmarked
<1>1. IInv /\ [Next]_vars =>
        [\A o \in Allocated : heap'[o] = Free /\ pc' # "freed" => o \notin Marked]_vars
  <2> SUFFICES ASSUME IInv, Next,
                      NEW o \in Allocated, heap'[o] = Free, pc' # "freed"
               PROVE  o \notin Marked
    OBVIOUS
  <2>1. heap \in [Object -> Cell \cup {Free}] /\ o \in Object /\ heap[o] # Free
    BY DEF IInv, VMTypeOK, TypeOK, Allocated
  <2>2. CASE Collect
    <3>1. \/ SweepFree
          \/ heap' = heap
      BY <2>2 DEF Collect, Collector, Mark, MarkFails, SweepKeep, SweepEnds, Append_
    <3>2. CASE SweepFree
      <4>1. heap' = [heap EXCEPT ![objs[idx]] = Free]
        BY <3>2 DEF SweepFree
      <4>2. o = objs[idx]
        BY <2>1, <4>1
      <4> QED BY <2>2, <3>2, <4>2, SweepFreeIInv
    <3> QED BY <2>1, <3>1, <3>2
  <2>3. CASE Instruction /\ objs' = objs
    <3>1. pending = None /\ pc # "freed"
      BY <2>3, InstructionFacts DEF Instruction
    <3>2. None \notin Object
      BY GarbageAssumption
    <3>3. o \in ToSet(objs)
      BY <2>1, <3>1, <3>2 DEF IInv, RegistryExact
    <3>4. IInv'
      BY NextIInv
    <3>5. ToSet(objs') = Allocated' \ {pending'}
      BY <3>4 DEF IInv, RegistryExact
    <3>6. o \in Allocated'
      BY <2>3, <3>3, <3>5
    <3> QED BY <3>6 DEF Allocated
  <2>4. CASE free_vm
    BY <2>4 DEF free_vm, free_gc
  <2> QED BY <2>2, <2>3, <2>4, InstructionsKeepRegistry
<1> QED BY <1>1, SpecIInv, PTL DEF Spec, FreesOnlyUnmarked

(* A sweep ends only when the registry holds nothing but marked objects.   *)
THEOREM SweepCollectsTheRest == Spec => CollectsAllUnmarked
<1>1. IInv /\ [Next]_vars =>
        [pc = "sweep" /\ pc' # "sweep" => ToSet(objs) \subseteq Marked]_vars
  <2> SUFFICES ASSUME IInv, Next, pc = "sweep", pc' # "sweep"
               PROVE  ToSet(objs) \subseteq Marked
    OBVIOUS
  <2>1. Collect
    BY InstructionsKeepRegistry DEF Instruction, free_vm
  <2>2. SweepEnds
    BY <2>1 DEF Collect, Collector, Mark, MarkFails, SweepFree, SweepKeep, Append_
  <2> QED BY <2>1, <2>2, SweepEndsIInv
<1> QED BY <1>1, SpecIInv, PTL DEF Spec, CollectsAllUnmarked
===============================================================================
