------------------------------- MODULE MothStack -------------------------------
(***************************************************************************)
(* The stack of the moth VM (source/moth/stack.c) driven by the            *)
(* instructions of source/moth/vm.c that move values and frames.           *)
(*                                                                         *)
(* Stack is two fixed arrays: varr holds the values of every activation    *)
(* one after the other and farr holds, per activation, the return address  *)
(* and the index in varr where its values start.  Pointers into the arrays *)
(* are indices; slots at or above vtop keep their stale contents.          *)
(*                                                                         *)
(* The program is any bytecode: at every step any instruction may come     *)
(* next; only the argc of a call and the size of a VM_FRM are fixed by     *)
(* where it stands (Argc, FrmSize).                                        *)
(* stack.c checks nothing, so the guards that keep an instruction inside   *)
(* its own activation and inside the arrays (Operands, Room, FrameRoom)    *)
(* are the definition of well-formed bytecode here.                        *)
(*                                                                         *)
(* A definition X_Y marked Faulty is X with a plausible bug; no            *)
(* specification uses it.  The run's properties are tested against them.   *)
(***************************************************************************)
EXTENDS Integers, Sequences

CONSTANTS
  Value, Function, Truthy, Void,
  Entry,            \* Entry[f] is the code offset of the body of f
  Argc,             \* Argc[i] is the argc operand of a call at offset i
  FrmSize,          \* FrmSize[i] is the size of a VM_FRM, _FRM2, _FRM3 or _FRM4 at offset i
  STK_CAP,          \* MOTHVM_STK_CAP (1024)
  FRM_CAP,          \* MOTHVM_FRM_CAP (256)
  MaxCode,          \* bound: code offsets are 0 .. MaxCode
  ArgRead           \* when frame_ reads vm->ip: "before" or "after" its ARG1

ASSUME ConstantsAssumption ==
  /\ STK_CAP \in Nat \ {0} /\ FRM_CAP \in Nat \ {0} /\ MaxCode \in Nat
  /\ Function \subseteq Value /\ Truthy \subseteq Value /\ Void \in Value
  /\ Entry \in [Function -> 0 .. MaxCode]
  /\ Argc \in [0 .. MaxCode -> Nat]
  /\ FrmSize \in [0 .. MaxCode -> 3 .. 6]
  /\ ArgRead \subseteq {"before", "after"} /\ ArgRead # {}

VARIABLES varr, vtop, farr, ftop, ip, st, running

vars == <<varr, vtop, farr, ftop, ip, st, running>>
frameVars == <<farr, ftop>>

(* Every STATUS_ that reports an error is "ERROR".                          *)
Status == {"OK", "ERROR", "BRKPNT"}

(* The one type invariant: arrays of fixed size, tops within them.         *)
TypeOK ==
  /\ varr \in [0 .. STK_CAP - 1 -> Value]
  /\ vtop \in 0 .. STK_CAP
  /\ farr \in [0 .. FRM_CAP - 1 -> [ra : 0 .. MaxCode, bp : 0 .. STK_CAP]]
  /\ ftop \in 1 .. FRM_CAP
  /\ ip \in 0 .. MaxCode
  /\ st \in Status
  /\ running \in BOOLEAN

-----------------------------------------------------------------------------
(* stack.c *)

Frame == farr[ftop - 1]                       \* stk_frame
Top == varr[vtop - 1]                         \* stk_top

(* stk_pop n times and then stk_push every element of the sequence vs.     *)
PopPush(n, vs) ==
  /\ varr' = [i \in DOMAIN varr |->
               IF i \in vtop - n .. vtop - n + Len(vs) - 1
               THEN vs[i - (vtop - n) + 1] ELSE varr[i]]
  /\ vtop' = vtop - n + Len(vs)

stk_get(i) == varr[Frame.bp + i]
stk_set(i, v) == varr' = [varr EXCEPT ![Frame.bp + i] = v] /\ UNCHANGED vtop

(* Faulty: the popped callee is counted again; argc is forgotten.          *)
stk_invoke_Recounts(ra, argc, popped) ==
  /\ farr' = [farr EXCEPT ![ftop] = [ra |-> ra, bp |-> vtop - 2 * popped - argc]]
  /\ ftop' = ftop + 1
  /\ vtop' = vtop - popped
  /\ UNCHANGED varr
stk_invoke_NoArgs(ra, argc, popped) ==
  /\ farr' = [farr EXCEPT ![ftop] = [ra |-> ra, bp |-> vtop - popped]]
  /\ ftop' = ftop + 1
  /\ vtop' = vtop - popped
  /\ UNCHANGED varr

(* Called after `popped` stk_pops of the same instruction.                 *)
stk_invoke(ra, argc, popped) ==
  /\ farr' = [farr EXCEPT ![ftop] = [ra |-> ra, bp |-> vtop - popped - argc]]
  /\ ftop' = ftop + 1
  /\ vtop' = vtop - popped
  /\ UNCHANGED varr

(* Faulty: ftop keeps its place. *)
init_stk_KeepsFrames ==
  /\ farr' = [farr EXCEPT ![0] = [ra |-> 0, bp |-> 0]]
  /\ vtop' = 0
  /\ UNCHANGED <<varr, ftop>>

init_stk ==
  /\ farr' = [farr EXCEPT ![0] = [ra |-> 0, bp |-> 0]]
  /\ ftop' = 1
  /\ vtop' = 0
  /\ UNCHANGED varr

-----------------------------------------------------------------------------
(* Well-formed bytecode: what the VM takes for granted.                    *)

Operands(n) == vtop - Frame.bp >= n           \* n values of its own
Room(n) == vtop + n <= STK_CAP
FrameRoom == ftop < FRM_CAP

(* One instruction of n bytes; the next one follows it. *)
Instruction(n) == running /\ ip + n <= MaxCode /\ ip' = ip + n

(* An opcode alone, or one with an operand of one to four bytes, as VM_VAL *)
(* to VM_VAL4 have; VM_SYM, VM_DEF and VM_ASN have the same four.          *)
AnyWidth == \E n \in 1 .. 5 : Instruction(n)

-----------------------------------------------------------------------------
(* vm.c *)

(* The host calls vm_run: it resets ip and st and leaves the stack alone.  *)
vm_run == ~running /\ running' = TRUE /\ ip' = 0 /\ st' = "OK"
          /\ UNCHANGED <<varr, vtop, frameVars>>

(* The three ways vm_run returns: the end of the program, a breakpoint,    *)
(* and a global (LOAD_SYMBOL, ASSIGN_SYMBOL) that nothing defined.         *)
Stops(n, status) ==
  /\ Instruction(n)
  /\ running' = FALSE
  /\ st' = status
  /\ UNCHANGED <<varr, vtop, frameVars>>

FIN == Stops(1, st)
DBG == Stops(1, "BRKPNT")
Undefined == \E n \in 2 .. 5 : Stops(n, "ERROR")

(* The host reuses the VM: reset_stk is init_stk again.                    *)
reset_stk == ~running /\ init_stk /\ UNCHANGED <<ip, st, running>>

(* VM_NOP, VM_GC and VM_ASN leave the stack alone.                         *)
Idle ==
  /\ AnyWidth
  /\ UNCHANGED <<varr, vtop, frameVars, st, running>>

(* VM_VID .. VM_EUL are one byte; VM_VAL, VM_SYM, VM_ARR, VM_DCT have an   *)
(* operand.                                                                *)
PushValue(v) ==
  /\ Room(1)
  /\ PopPush(0, <<v>>)
  /\ AnyWidth
  /\ UNCHANGED <<frameVars, st, running>>

(* VM_POP and VM_DEF; vector_ and closeover_ of a wrong value pop it, set  *)
(* st and push nothing (no case of vector_'s switch ends in a break).      *)
POP ==
  /\ Operands(1)
  /\ PopPush(1, <<>>)
  /\ AnyWidth
  /\ st' \in {st, "ERROR"}
  /\ UNCHANGED <<frameVars, running>>

(* GET_LOCAL reads a slot of its own activation.                           *)
PSH(i) ==
  /\ Room(1) /\ i < vtop - Frame.bp
  /\ PopPush(0, <<stk_get(i)>>)
  /\ Instruction(3)
  /\ UNCHANGED <<frameVars, st, running>>

STR(i) ==
  /\ i < vtop - Frame.bp
  /\ stk_set(i, Top)
  /\ Instruction(3)
  /\ UNCHANGED <<frameVars, st, running>>

(* UOP and BOP: pop the operands, compute, push the result; indexasn_ pops *)
(* a third one.  A type error sets st, pushes void and execution goes on.  *)
Operator(arity, result) ==
  /\ Operands(arity)
  /\ PopPush(arity, <<result>>)
  /\ st' = st \/ (st' = "ERROR" /\ result = Void)
  /\ Instruction(1)
  /\ UNCHANGED <<frameVars, running>>

(* The four jumps.  JPT and JPF look at the top value and leave it there.  *)
Jump(opcode, offset) ==
  LET taken == CASE opcode = "JPT" -> Top \in Truthy
                 [] opcode = "JPF" -> Top \notin Truthy
                 [] OTHER -> TRUE
      target == IF opcode = "JBW" THEN ip + 3 - offset ELSE ip + 3 + offset
  IN  /\ running
      /\ opcode \in {"JPT", "JPF"} => Operands(1)
      /\ ip' = IF taken THEN target ELSE ip + 3
      /\ ip' \in 0 .. MaxCode
      /\ UNCHANGED <<varr, vtop, frameVars, st, running>>

(* call_ pops the callee; one that is no function is an error that leaves  *)
(* the arguments where they are and continues with the next instruction.   *)
CAL ==
  /\ Operands(Argc[ip] + 1) /\ ip + 2 <= MaxCode
  /\ running
  /\ \/ /\ Top \in Function /\ FrameRoom
        /\ stk_invoke(ip + 2, Argc[ip], 1)
        /\ ip' = Entry[Top]
        /\ UNCHANGED st
     \/ /\ Top \notin Function
        /\ PopPush(1, <<>>)
        /\ ip' = ip + 2
        /\ st' = "ERROR"
        /\ UNCHANGED frameVars
  /\ UNCHANGED running

(* frame_ passes vm->ip and ARG1 (which advances vm->ip) to one call: the  *)
(* order of the two is the compiler's.                                     *)
FRM(addr) ==
  /\ running
  /\ Operands(Argc[ip]) /\ FrameRoom /\ ip + FrmSize[ip] <= MaxCode
  /\ \E order \in ArgRead :
       stk_invoke(ip + FrmSize[ip] - (IF order = "after" THEN 0 ELSE 1), Argc[ip], 0)
  /\ ip' = addr
  /\ UNCHANGED <<st, running>>

(* Faulty: stk_return looks at stk_frame after it has dropped the frame.   *)
RET_CallersFrame ==
  /\ running
  /\ Operands(1) /\ ftop > 1
  /\ ftop' = ftop - 1
  /\ varr' = [varr EXCEPT ![farr[ftop - 2].bp] = Top]
  /\ vtop' = farr[ftop - 2].bp + 1
  /\ ip' = farr[ftop - 2].ra
  /\ UNCHANGED <<farr, st, running>>

(* return_: pop the result, stk_return, push the result.  The outermost    *)
(* activation has no caller to return to (its ra is null).                 *)
RET ==
  /\ running
  /\ Operands(1) /\ ftop > 1
  /\ ftop' = ftop - 1
  /\ varr' = [varr EXCEPT ![Frame.bp] = Top]
  /\ vtop' = Frame.bp + 1
  /\ ip' = Frame.ra
  /\ UNCHANGED <<farr, st, running>>

-----------------------------------------------------------------------------
Init ==
  /\ varr = [i \in 0 .. STK_CAP - 1 |-> Void]
  /\ vtop = 0
  /\ farr = [i \in 0 .. FRM_CAP - 1 |-> [ra |-> 0, bp |-> 0]]
  /\ ftop = 1
  /\ ip = 0
  /\ st = "OK"
  /\ running = FALSE

Next ==
  \/ vm_run
  \/ FIN
  \/ DBG
  \/ Undefined
  \/ reset_stk
  \/ Idle
  \/ \E v \in Value : PushValue(v)
  \/ POP
  \/ \E i \in 0 .. STK_CAP - 1 : PSH(i)
  \/ \E i \in 0 .. STK_CAP - 1 : STR(i)
  \/ \E arity \in 1 .. 3, result \in Value : Operator(arity, result)
  \/ \E opcode \in {"JMP", "JPT", "JPF", "JBW"}, offset \in 0 .. MaxCode :
       Jump(opcode, offset)
  \/ CAL
  \/ \E addr \in 0 .. MaxCode : FRM(addr)
  \/ RET

Spec == Init /\ [][Next]_vars

-----------------------------------------------------------------------------
(* Properties *)

(* The activations tile the value array in order, from the outermost one,  *)
(* which returns nowhere: stk_invoke's subtraction of argc and stk_return's *)
(* reset of vtop never make one reach into another.                        *)
FrameNesting ==
  /\ farr[0] = [ra |-> 0, bp |-> 0]
  /\ \A k \in 1 .. ftop - 1 : farr[k - 1].bp <= farr[k].bp
  /\ Frame.bp <= vtop

(* An instruction of one activation never writes a value below its own     *)
(* base, and never changes where its callers' values or code resume.       *)
CallerUntouched ==
  [][ /\ \A i \in 0 .. Frame.bp - 1 : varr'[i] = varr[i]
      /\ \A k \in 0 .. ftop - 2 : farr'[k] = farr[k] ]_vars

(* Where the values of activation k end: at the base of the next one, or   *)
(* at vtop.                                                                *)
End(k) == IF k = ftop - 1 THEN vtop ELSE farr[k + 1].bp

(* Activation k as the abstract stack sees it.                             *)
ActivationAt(k) ==
  [ra |-> farr[k].ra,
   vals |-> [j \in 1 .. End(k) - farr[k].bp |-> varr[farr[k].bp + j - 1]]]

Promise == INSTANCE CallStack WITH
  frames <- [k \in 1 .. ftop |-> ActivationAt(k - 1)]

(* Every instruction does to the arrays what the abstract call stack does  *)
(* to its activations: calls pass exactly argc values, returns restore the *)
(* caller and resume it after the call.                                    *)
ImplementsCallStack == Promise!Spec
===============================================================================
