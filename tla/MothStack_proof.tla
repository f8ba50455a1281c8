--------------------------- MODULE MothStack_proof ---------------------------
(***************************************************************************)
(* Machine-checked proofs about MothStack, for every capacity of the two   *)
(* arrays, every set of values and every program of well-formed bytecode.  *)
(***************************************************************************)
EXTENDS MothStack, TLAPS, WellFoundedInduction, SequenceTheorems

(* What a pop-push sequence does to the value array. *)
LEMMA PopPushOne ==
  ASSUME TypeOK, NEW n \in Nat, n <= vtop, vtop - n < STK_CAP, NEW v \in Value,
         PopPush(n, <<v>>)
  PROVE  /\ varr' = [varr EXCEPT ![vtop - n] = v]
         /\ vtop' = vtop - n + 1
<1>1. Len(<<v>>) = 1 /\ <<v>>[1] = v
  OBVIOUS
<1>2. DOMAIN varr = 0 .. STK_CAP - 1 /\ vtop - n \in 0 .. STK_CAP - 1
  BY ConstantsAssumption DEF TypeOK
<1>3. vtop' = vtop - n + 1
  BY <1>1 DEF PopPush, TypeOK
<1>4. varr' = [i \in 0 .. STK_CAP - 1 |-> IF i = vtop - n THEN v ELSE varr[i]]
  <2>1. varr' = [i \in 0 .. STK_CAP - 1 |->
                  IF i \in vtop - n .. vtop - n + 1 - 1
                  THEN <<v>>[i - (vtop - n) + 1] ELSE varr[i]]
    BY <1>1, <1>2, Zenon DEF PopPush
  <2>2. \A i \in 0 .. STK_CAP - 1 :
          /\ i \in vtop - n .. vtop - n + 1 - 1 <=> i = vtop - n
          /\ i = vtop - n => i - (vtop - n) + 1 = 1
    BY <1>2 DEF TypeOK
  <2> QED BY <1>1, <2>1, <2>2
<1> QED BY <1>2, <1>3, <1>4

LEMMA PopPushNone ==
  ASSUME TypeOK, NEW n \in Nat, n <= vtop, PopPush(n, <<>>)
  PROVE  varr' = varr /\ vtop' = vtop - n
BY ConstantsAssumption DEF TypeOK, PopPush

-----------------------------------------------------------------------------
(* The inductive invariant.  TypeOK is not inductive alone: that a frame's *)
(* base stays within the array after a return needs FrameNesting, and an   *)
(* instruction finds its operands at non-negative indices because the base *)
(* of the newest frame is at most vtop.                                    *)
IInv == TypeOK /\ FrameNesting

LEMMA InitIInv == Init => IInv
<1> SUFFICES ASSUME Init PROVE IInv
  OBVIOUS
<1> USE ConstantsAssumption
<1>1. [ra |-> 0, bp |-> 0] \in [ra : 0 .. MaxCode, bp : 0 .. STK_CAP]
  OBVIOUS
<1>2. farr = [i \in 0 .. FRM_CAP - 1 |-> [ra |-> 0, bp |-> 0]] /\ ftop = 1 /\ vtop = 0
  BY DEF Init
<1>3. TypeOK
  <2>1. farr \in [0 .. FRM_CAP - 1 -> [ra : 0 .. MaxCode, bp : 0 .. STK_CAP]]
    BY <1>1, <1>2
  <2>2. varr \in [0 .. STK_CAP - 1 -> Value]
    BY DEF Init
  <2>3. running \in BOOLEAN /\ ip = 0 /\ st = "OK"
    BY DEF Init
  <2> QED BY <1>2, <2>1, <2>2, <2>3 DEF TypeOK, Status
<1>4. farr[0] = [ra |-> 0, bp |-> 0]
  BY <1>2
<1>5. FrameNesting
  BY <1>2, <1>4 DEF FrameNesting, Frame
<1> QED BY <1>3, <1>5 DEF IInv

(* The facts about a state that the steps below use. *)
LEMMA StateFacts ==
  ASSUME IInv
  PROVE  /\ STK_CAP \in Nat \ {0} /\ FRM_CAP \in Nat \ {0} /\ MaxCode \in Nat
         /\ vtop \in 0 .. STK_CAP /\ ftop \in 1 .. FRM_CAP /\ ip \in 0 .. MaxCode
         /\ \A k \in 0 .. FRM_CAP - 1 :
              farr[k].ra \in 0 .. MaxCode /\ farr[k].bp \in 0 .. STK_CAP
         /\ Frame.bp \in 0 .. vtop
         /\ Frame.ra \in 0 .. MaxCode
         /\ vtop > 0 => Top \in Value
BY ConstantsAssumption DEF IInv, TypeOK, FrameNesting, Frame, Top

(* An instruction that leaves the frames alone and the newest activation's *)
(* values above its base keeps the nesting.                                *)
LEMMA NestingKept ==
  ASSUME IInv, UNCHANGED frameVars, vtop' >= Frame.bp
  PROVE  FrameNesting'
BY DEF IInv, FrameNesting, Frame, frameVars

(* A new activation that starts inside the newest one keeps the nesting.   *)
LEMMA InvokeIInv ==
  ASSUME IInv, FrameRoom, NEW ra \in 0 .. MaxCode, NEW argc \in Nat, NEW popped \in Nat,
         Operands(argc + popped), stk_invoke(ra, argc, popped)
  PROVE  /\ farr' \in [0 .. FRM_CAP - 1 -> [ra : 0 .. MaxCode, bp : 0 .. STK_CAP]]
         /\ ftop' \in 1 .. FRM_CAP
         /\ vtop' \in 0 .. STK_CAP
         /\ varr' = varr
         /\ FrameNesting'
<1> DEFINE base == vtop - popped - argc
           frame == [ra |-> ra, bp |-> base]
<1>1. base \in 0 .. STK_CAP /\ Frame.bp <= base /\ base <= vtop - popped
  BY StateFacts DEF Operands
<1>2. frame \in [ra : 0 .. MaxCode, bp : 0 .. STK_CAP]
  BY <1>1
<1>3. ftop \in 1 .. FRM_CAP - 1
  BY StateFacts DEF FrameRoom
<1>4. farr' = [farr EXCEPT ![ftop] = frame] /\ ftop' = ftop + 1
      /\ vtop' = vtop - popped /\ varr' = varr
  BY DEF stk_invoke
<1>5. farr' \in [0 .. FRM_CAP - 1 -> [ra : 0 .. MaxCode, bp : 0 .. STK_CAP]]
  BY <1>2, <1>3, <1>4 DEF IInv, TypeOK
<1>6. farr'[ftop] = frame /\ \A k \in 0 .. ftop - 1 : farr'[k] = farr[k]
  BY <1>3, <1>4, StateFacts DEF IInv, TypeOK
<1>7. FrameNesting'
  <2>1. farr'[0] = [ra |-> 0, bp |-> 0]
    BY <1>3, <1>6 DEF IInv, FrameNesting
  <2>2. farr'[ftop].bp = base
    BY <1>6
  <2>3. \A k \in 1 .. ftop' - 1 : farr'[k - 1].bp <= farr'[k].bp
    <3> SUFFICES ASSUME NEW k \in 1 .. ftop PROVE farr'[k - 1].bp <= farr'[k].bp
      BY <1>3, <1>4
    <3>1. CASE k = ftop
      BY <1>1, <1>3, <1>6, <2>2, <3>1 DEF Frame
    <3>2. CASE k # ftop
      BY <1>3, <1>6, <3>2 DEF IInv, FrameNesting
    <3> QED BY <3>1, <3>2
  <2>4. Frame.bp' <= vtop'
    BY <1>1, <1>3, <1>4, <2>2 DEF Frame
  <2> QED BY <2>1, <2>3, <2>4 DEF FrameNesting
<1>8. ftop' \in 1 .. FRM_CAP
  BY <1>3, <1>4, StateFacts
<1>9. vtop' \in 0 .. STK_CAP
  BY <1>1, <1>4, StateFacts
<1> QED BY <1>4, <1>5, <1>7, <1>8, <1>9

LEMMA NextIInv == IInv /\ [Next]_vars => IInv'
<1> SUFFICES ASSUME IInv, [Next]_vars PROVE IInv'
  OBVIOUS
<1>a. TypeOK /\ FrameNesting
  BY DEF IInv
<1> USE StateFacts
<1>1. CASE vm_run
  BY <1>1, <1>a, NestingKept DEF vm_run, TypeOK, IInv, frameVars, Status
<1>2. ASSUME NEW n \in 1 .. 5, NEW status \in Status, Stops(n, status) PROVE IInv'
  <2>0. ip + n <= MaxCode /\ ip' = ip + n /\ running' = FALSE /\ st' = status
        /\ UNCHANGED <<varr, vtop, frameVars>>
    BY <1>2, Zenon DEF Stops, Instruction
  <2>1. ip' \in 0 .. MaxCode
    BY <2>0
  <2>2. running' \in BOOLEAN
    BY <2>0, Zenon
  <2> QED BY <1>a, <2>0, <2>1, <2>2, NestingKept DEF TypeOK, IInv, frameVars
<1>3. CASE FIN \/ DBG \/ Undefined
  <2>1. {st, "BRKPNT", "ERROR"} \subseteq Status
    BY <1>a DEF TypeOK, Status
  <2> QED BY <1>2, <1>3, <2>1 DEF FIN, DBG, Undefined
<1>15. CASE Idle
  <2>1. ip' \in 0 .. MaxCode
    BY <1>15 DEF Idle, AnyWidth, Instruction
  <2> QED BY <1>15, <1>a, <2>1, NestingKept DEF Idle, TypeOK, IInv, frameVars
<1>4. CASE reset_stk
  <2> DEFINE frame == [ra |-> 0, bp |-> 0]
  <2>1. frame \in [ra : 0 .. MaxCode, bp : 0 .. STK_CAP]
    OBVIOUS
  <2>2. farr' = [farr EXCEPT ![0] = frame] /\ ftop' = 1 /\ vtop' = 0 /\ varr' = varr
    BY <1>4 DEF reset_stk, init_stk
  <2>3. farr'[0] = frame
    BY <1>a, <2>2 DEF TypeOK
  <2>4. FrameNesting'
    BY <2>2, <2>3 DEF FrameNesting, Frame
  <2>5. TypeOK'
    BY <1>4, <1>a, <2>1, <2>2 DEF TypeOK, reset_stk
  <2> QED BY <2>4, <2>5 DEF IInv
<1>5. ASSUME NEW v \in Value, PushValue(v) PROVE IInv'
  <2>0. PopPush(0, <<v>>) /\ 0 <= vtop /\ vtop - 0 = vtop /\ vtop < STK_CAP
    BY <1>5 DEF PushValue, Room
  <2>1. varr' = [varr EXCEPT ![vtop] = v] /\ vtop' = vtop + 1 /\ vtop < STK_CAP
    BY <1>a, <2>0, PopPushOne, 0 \in Nat
  <2>2. FrameNesting'
    BY <1>5, <2>1, NestingKept DEF PushValue
  <2>3. TypeOK'
    BY <1>5, <1>a, <2>1 DEF PushValue, AnyWidth, Instruction, TypeOK, frameVars
  <2> QED BY <2>2, <2>3 DEF IInv
<1>6. CASE POP
  <2>1. varr' = varr /\ vtop' = vtop - 1 /\ vtop - 1 >= Frame.bp
    BY <1>6, <1>a, PopPushNone, 1 \in Nat DEF POP, Operands
  <2>2. FrameNesting'
    BY <1>6, <2>1, NestingKept DEF POP
  <2>3. TypeOK'
    BY <1>6, <1>a, <2>1, SMTT(30) DEF POP, AnyWidth, Instruction, TypeOK, frameVars, Status
  <2> QED BY <2>2, <2>3 DEF IInv
<1>7. ASSUME NEW i \in 0 .. STK_CAP - 1, PSH(i) PROVE IInv'
  <2>1. Frame.bp + i \in 0 .. STK_CAP - 1
    BY <1>7 DEF PSH, Room
  <2>2. stk_get(i) \in Value
    BY <1>a, <2>1 DEF stk_get, TypeOK
  <2>3. varr' = [varr EXCEPT ![vtop] = stk_get(i)] /\ vtop' = vtop + 1 /\ vtop < STK_CAP
    BY <1>7, <1>a, <2>2, PopPushOne, 0 \in Nat DEF PSH, Room
  <2>4. FrameNesting'
    BY <1>7, <2>3, NestingKept DEF PSH
  <2>5. TypeOK'
    BY <1>7, <1>a, <2>2, <2>3 DEF PSH, Instruction, TypeOK, frameVars
  <2> QED BY <2>4, <2>5 DEF IInv
<1>8. ASSUME NEW i \in 0 .. STK_CAP - 1, STR(i) PROVE IInv'
  <2>1. vtop > 0 /\ Top \in Value
    BY <1>8 DEF STR
  <2>2. varr' = [varr EXCEPT ![Frame.bp + i] = Top] /\ vtop' = vtop
    BY <1>8 DEF STR, stk_set
  <2>3. FrameNesting'
    BY <1>8, <2>2, NestingKept DEF STR
  <2>4. TypeOK'
    BY <1>8, <1>a, <2>1, <2>2, SMTT(30) DEF STR, Instruction, TypeOK, frameVars
  <2> QED BY <2>3, <2>4 DEF IInv
<1>9. ASSUME NEW arity \in 1 .. 3, NEW result \in Value, Operator(arity, result)
      PROVE  IInv'
  <2>1. arity \in Nat /\ arity > 0 /\ vtop - arity >= Frame.bp
    BY <1>9 DEF Operator, Operands
  <2>2. /\ varr' = [varr EXCEPT ![vtop - arity] = result]
        /\ vtop' = vtop - arity + 1 /\ vtop' \in 0 .. STK_CAP
    BY <1>9, <1>a, <2>1, PopPushOne DEF Operator
  <2>3. FrameNesting'
    BY <1>9, <2>1, <2>2, NestingKept DEF Operator
  <2>4. st' \in Status
    BY <1>9, <1>a DEF Operator, TypeOK, Status
  <2>5. TypeOK'
    <3>1. ip' \in 0 .. MaxCode /\ UNCHANGED <<frameVars, running>>
      BY <1>9 DEF Operator, Instruction
    <3>2. varr' \in [0 .. STK_CAP - 1 -> Value]
      BY <1>a, <2>2 DEF TypeOK
    <3> QED BY <1>a, <2>2, <2>4, <3>1, <3>2 DEF TypeOK, frameVars
  <2> QED BY <2>3, <2>5 DEF IInv
<1>10. ASSUME NEW opcode \in {"JMP", "JPT", "JPF", "JBW"}, NEW offset \in 0 .. MaxCode,
              Jump(opcode, offset)
       PROVE  IInv'
  <2>1. ip' \in 0 .. MaxCode /\ UNCHANGED <<varr, vtop, frameVars, st, running>>
    BY <1>10 DEF Jump
  <2> QED BY <1>a, <2>1, NestingKept DEF TypeOK, IInv, frameVars
<1>11. CASE CAL
  <2> DEFINE argc == Argc[ip]
  <2>a. argc \in Nat
    BY ConstantsAssumption
  <2>0. Operands(argc + 1) /\ ip + 2 \in 0 .. MaxCode /\ running' = running
    BY <1>11 DEF CAL
  <2>1. CASE Top \in Function /\ FrameRoom /\ stk_invoke(ip + 2, argc, 1)
             /\ ip' = Entry[Top] /\ UNCHANGED st
    <3>1. ip' \in 0 .. MaxCode
      BY <2>1, ConstantsAssumption
    <3>2. /\ farr' \in [0 .. FRM_CAP - 1 -> [ra : 0 .. MaxCode, bp : 0 .. STK_CAP]]
          /\ ftop' \in 1 .. FRM_CAP /\ vtop' \in 0 .. STK_CAP /\ varr' = varr
          /\ FrameNesting'
      BY <2>0, <2>1, <2>a, InvokeIInv, 1 \in Nat
    <3> QED BY <1>a, <2>0, <2>1, <3>1, <3>2 DEF IInv, TypeOK
  <2>2. CASE PopPush(1, <<>>) /\ ip' = ip + 2 /\ st' = "ERROR" /\ UNCHANGED frameVars
    <3>1. varr' = varr /\ vtop' = vtop - 1 /\ vtop' >= Frame.bp /\ vtop' \in 0 .. STK_CAP
      BY <1>a, <2>0, <2>2, <2>a, PopPushNone, 1 \in Nat, SMTT(30) DEF Operands
    <3>2. FrameNesting'
      BY <2>2, <3>1, NestingKept
    <3> QED BY <1>a, <2>0, <2>2, <3>1, <3>2 DEF IInv, TypeOK, frameVars, Status
  <2> QED BY <1>11, <2>1, <2>2 DEF CAL
<1>12. ASSUME NEW addr \in 0 .. MaxCode, FRM(addr)
       PROVE  IInv'
  <2> DEFINE argc == Argc[ip]
  <2>a. argc \in Nat
    BY ConstantsAssumption
  <2>1. PICK ra \in 0 .. MaxCode : stk_invoke(ra, Argc[ip], 0)
    <3>1. PICK order \in ArgRead :
            stk_invoke(ip + FrmSize[ip] - (IF order = "after" THEN 0 ELSE 1), Argc[ip], 0)
      BY <1>12, Zenon DEF FRM
    <3>2. ip \in 0 .. MaxCode /\ ip + FrmSize[ip] <= MaxCode
      BY <1>12, <1>a, Zenon DEF FRM, TypeOK
    <3>3. FrmSize[ip] \in 3 .. 6
      BY <3>2, ConstantsAssumption
    <3>4. ip + FrmSize[ip] - (IF order = "after" THEN 0 ELSE 1) \in 0 .. MaxCode
      BY <3>2, <3>3
    <3> QED BY <3>1, <3>4, Zenon
  <2>2. /\ Operands(argc) /\ FrameRoom
        /\ ip' = addr /\ st' = st /\ running' = running
    BY <1>12, Zenon DEF FRM
  <2>b. argc + 0 = argc
    BY <2>a
  <2>3. /\ farr' \in [0 .. FRM_CAP - 1 -> [ra : 0 .. MaxCode, bp : 0 .. STK_CAP]]
        /\ ftop' \in 1 .. FRM_CAP /\ vtop' \in 0 .. STK_CAP /\ varr' = varr
        /\ FrameNesting'
    BY <2>1, <2>2, <2>a, <2>b, InvokeIInv, 0 \in Nat
  <2> QED BY <1>a, <2>2, <2>3 DEF IInv, TypeOK
<1>13. CASE RET
  <2>1. /\ ftop \in 2 .. FRM_CAP /\ Frame.bp < vtop /\ Top \in Value
        /\ varr' = [varr EXCEPT ![Frame.bp] = Top] /\ vtop' = Frame.bp + 1
        /\ ftop' = ftop - 1 /\ ip' = Frame.ra /\ farr' = farr
        /\ st' = st /\ running' = running
    BY <1>13 DEF RET, Operands
  <2>2. TypeOK'
    BY <1>a, <2>1 DEF TypeOK
  <2>3. farr[ftop - 2].bp <= farr[ftop - 1].bp
    BY <1>a, <2>1 DEF FrameNesting
  <2>4. FrameNesting'
    BY <1>a, <2>1, <2>3 DEF FrameNesting, Frame
  <2> QED BY <2>2, <2>4 DEF IInv
<1>14. CASE UNCHANGED vars
  BY <1>a, <1>14 DEF vars, TypeOK, IInv, FrameNesting, Frame
<1> QED BY <1>1, <1>3, <1>4, <1>5, <1>6, <1>7, <1>8, <1>9, <1>10, <1>11,
           <1>12, <1>13, <1>14, <1>15 DEF Next

(* The tops of both arrays stay within them, whatever well-formed bytecode *)
(* runs (source/moth/stack.c has no check of its own).                     *)
THEOREM TypeCorrect == Spec => []TypeOK
<1>1. IInv => TypeOK BY DEF IInv
<1> QED BY <1>1, InitIInv, NextIInv, PTL DEF Spec

(* The activations tile the value array in order, for every nesting depth. *)
THEOREM ActivationsNest == Spec => []FrameNesting
<1>1. IInv => FrameNesting BY DEF IInv
<1> QED BY <1>1, InitIInv, NextIInv, PTL DEF Spec

(* One step never writes below the base of the activation it runs in, nor  *)
(* changes a caller's frame.                                               *)
LEMMA StepLeavesCaller ==
  ASSUME IInv, [Next]_vars
  PROVE  /\ \A i \in 0 .. Frame.bp - 1 : varr'[i] = varr[i]
         /\ \A k \in 0 .. ftop - 2 : farr'[k] = farr[k]
<1> DEFINE Goal == /\ \A i \in 0 .. Frame.bp - 1 : varr'[i] = varr[i]
                   /\ \A k \in 0 .. ftop - 2 : farr'[k] = farr[k]
<1>a. /\ varr \in [0 .. STK_CAP - 1 -> Value]
      /\ farr \in [0 .. FRM_CAP - 1 -> [ra : 0 .. MaxCode, bp : 0 .. STK_CAP]]
      /\ TypeOK
  BY DEF IInv, TypeOK
<1> USE StateFacts
<1>1. ASSUME UNCHANGED <<varr, farr>> PROVE Goal
  BY <1>1
<1>2. ASSUME UNCHANGED farr, NEW j \in 0 .. STK_CAP - 1, j >= Frame.bp, NEW v,
             varr' = [varr EXCEPT ![j] = v]
      PROVE  Goal
  BY <1>2, <1>a
<1>3. ASSUME UNCHANGED varr, NEW k \in 0 .. FRM_CAP - 1, k >= ftop, NEW frame,
             farr' = [farr EXCEPT ![k] = frame]
      PROVE  Goal
  BY <1>3, <1>a
<1>4. CASE reset_stk
  <2> DEFINE frame == [ra |-> 0, bp |-> 0]
  <2>1. farr' = [farr EXCEPT ![0] = frame] /\ varr' = varr
    BY <1>4 DEF reset_stk, init_stk
  <2>2. farr[0] = frame
    BY DEF IInv, FrameNesting
  <2> QED BY <1>1, <1>a, <2>1, <2>2
<1>5. ASSUME NEW v \in Value, PushValue(v) PROVE Goal
  <2>0. PopPush(0, <<v>>) /\ 0 <= vtop /\ vtop - 0 = vtop /\ vtop < STK_CAP
    BY <1>5 DEF PushValue, Room
  <2>1. varr' = [varr EXCEPT ![vtop] = v] /\ vtop < STK_CAP
    BY <1>a, <2>0, PopPushOne, 0 \in Nat
  <2> QED BY <1>2, <1>5, <2>1 DEF PushValue, frameVars
<1>6. CASE POP
  BY <1>1, <1>6, <1>a, PopPushNone, 1 \in Nat DEF POP, Operands, frameVars
<1>7. ASSUME NEW i \in 0 .. STK_CAP - 1, PSH(i) PROVE Goal
  <2>1. Frame.bp + i \in 0 .. STK_CAP - 1 /\ stk_get(i) \in Value
    BY <1>7, <1>a DEF PSH, Room, stk_get
  <2>2. PopPush(0, <<stk_get(i)>>) /\ 0 <= vtop /\ vtop - 0 = vtop /\ vtop < STK_CAP
    BY <1>7 DEF PSH, Room
  <2>4. varr' = [varr EXCEPT ![vtop] = stk_get(i)]
    BY <1>a, <2>1, <2>2, PopPushOne, 0 \in Nat
  <2>3. UNCHANGED farr /\ vtop \in 0 .. STK_CAP - 1 /\ vtop >= Frame.bp
    BY <1>7, <2>2 DEF PSH, frameVars
  <2> QED BY <1>2, <2>3, <2>4
<1>8. ASSUME NEW i \in 0 .. STK_CAP - 1, STR(i) PROVE Goal
  <2>1. varr' = [varr EXCEPT ![Frame.bp + i] = Top] /\ Frame.bp + i \in 0 .. STK_CAP - 1
    BY <1>8 DEF STR, stk_set
  <2> QED BY <1>2, <1>8, <2>1 DEF STR, frameVars
<1>9. ASSUME NEW arity \in 1 .. 3, NEW result \in Value, Operator(arity, result)
      PROVE  Goal
  <2>1. arity \in Nat /\ arity > 0 /\ vtop - arity >= Frame.bp
    BY <1>9 DEF Operator, Operands
  <2>2. varr' = [varr EXCEPT ![vtop - arity] = result]
    <3>1. PopPush(arity, <<result>>) /\ arity <= vtop /\ vtop - arity < STK_CAP
      BY <1>9, <2>1 DEF Operator
    <3> QED BY <1>a, <2>1, <3>1, PopPushOne
  <2>3. UNCHANGED farr /\ vtop - arity \in 0 .. STK_CAP - 1
    BY <1>9, <2>1 DEF Operator, frameVars
  <2> QED BY <1>2, <2>1, <2>2, <2>3
<1>10. ASSUME NEW opcode \in {"JMP", "JPT", "JPF", "JBW"}, NEW offset \in 0 .. MaxCode,
              Jump(opcode, offset)
       PROVE  Goal
  BY <1>1, <1>10 DEF Jump, frameVars
<1>11. CASE CAL
  <2>1. CASE FrameRoom /\ stk_invoke(ip + 2, Argc[ip], 1)
    BY <1>3, <2>1 DEF stk_invoke, FrameRoom
  <2>2. CASE PopPush(1, <<>>) /\ UNCHANGED frameVars
    BY <1>1, <1>11, <1>a, <2>2, PopPushNone, 1 \in Nat DEF CAL, Operands, frameVars
  <2> QED BY <1>11, <2>1, <2>2 DEF CAL
<1>12. ASSUME NEW addr \in 0 .. MaxCode, FRM(addr)
       PROVE  Goal
  <2>1. PICK ra : stk_invoke(ra, Argc[ip], 0)
    BY <1>12 DEF FRM
  <2> QED BY <1>3, <1>12, <2>1 DEF FRM, stk_invoke, FrameRoom
<1>13. CASE RET
  <2>1. varr' = [varr EXCEPT ![Frame.bp] = Top] /\ farr' = farr /\ Frame.bp < vtop
    BY <1>13 DEF RET, Operands
  <2> QED BY <1>2, <2>1
<1>14. CASE vm_run \/ FIN \/ DBG \/ Undefined \/ Idle \/ UNCHANGED vars
  BY <1>1, <1>14 DEF vm_run, FIN, DBG, Undefined, Stops, Idle, vars, frameVars
<1> QED BY <1>4, <1>5, <1>6, <1>7, <1>8, <1>9, <1>10, <1>11, <1>12, <1>13, <1>14
        DEF Next

(* An activation cannot write into its callers' values or frames: calls    *)
(* and returns (stk_invoke, stk_return) isolate them for every program.    *)
THEOREM CallersAreUntouched == Spec => CallerUntouched
<1>1. IInv /\ [Next]_vars =>
        [ /\ \A i \in 0 .. Frame.bp - 1 : varr'[i] = varr[i]
          /\ \A k \in 0 .. ftop - 2 : farr'[k] = farr[k] ]_vars
  BY StepLeavesCaller
<1> QED BY <1>1, InitIInv, NextIInv, PTL DEF Spec, CallerUntouched

-----------------------------------------------------------------------------
(* Refinement: the activations that the base pointers cut out of the value *)
(* array behave like those of CallStack.                                   *)

Activation == [ra : 0 .. MaxCode, vals : Seq(Value)]
Activations == [k \in 1 .. ftop |-> ActivationAt(k - 1)]

(* FrameNesting compares neighbours; so no activation starts above a later *)
(* one (there is no last one that does).                                   *)
LEMMA LeastOfNaturals ==
  ASSUME NEW T \in SUBSET Nat, T # {}
  PROVE  \E x \in T : \A y \in T : x <= y
<1> DEFINE R == {ss \in Nat \X Nat : ss[1] < ss[2]}
<1>1. IsWellFoundedOn(R, Nat)
  BY NatLessThanWellFounded DEF OpToRel
<1>2. PICK x \in T : \A y \in T : ~ (<<y, x>> \in R)
  <2> HIDE DEF R
  <2> QED BY <1>1, WFMin
<1>3. \A y \in T : ~ (y < x)
  BY <1>2
<1> QED BY <1>3

LEMMA BasesAscend ==
  ASSUME IInv, NEW top \in 0 .. ftop - 1, NEW k \in 0 .. top
  PROVE  farr[k].bp <= farr[top].bp
<1> DEFINE T == {n \in Nat : n <= top /\ ~(farr[top - n].bp <= farr[top].bp)}
<1>1. ASSUME T # {} PROVE FALSE
  <2>1. PICK n \in T : \A m \in T : n <= m
    BY <1>1, LeastOfNaturals
  <2>2. n # 0 /\ n - 1 \in Nat /\ n - 1 \notin T
    BY <2>1, StateFacts
  <2>3. farr[top - (n - 1)].bp <= farr[top].bp
    BY <2>1, <2>2, StateFacts
  <2>4. top - n + 1 \in 1 .. ftop - 1 /\ top - (n - 1) = top - n + 1
        /\ top - n = (top - n + 1) - 1
    BY <2>1, <2>2, StateFacts
  <2>5. farr[(top - n + 1) - 1].bp <= farr[top - n + 1].bp
    BY <2>4 DEF IInv, FrameNesting
  <2> QED BY <2>1, <2>3, <2>4, <2>5, StateFacts
<1>2. top - k \in Nat /\ top - (top - k) = k /\ top - k <= top
  BY StateFacts
<1> QED BY <1>1, <1>2

LEMMA ActivationsAre ==
  ASSUME IInv
  PROVE  /\ Activations \in Seq(Activation) /\ Len(Activations) = ftop
         /\ Promise!Depth = ftop
         /\ Promise!Older = [k \in 1 .. ftop - 1 |-> ActivationAt(k - 1)]
         /\ Promise!Older \in Seq(Activation) /\ Len(Promise!Older) = ftop - 1
         /\ Promise!Newest \in Activation
         /\ Promise!Newest.ra = Frame.ra
         /\ Promise!Newest.vals = [j \in 1 .. vtop - Frame.bp |-> varr[Frame.bp + j - 1]]
         /\ Len(Promise!Newest.vals) = vtop - Frame.bp
<1>1. ASSUME NEW k \in 0 .. ftop - 1
      PROVE  /\ End(k) \in 0 .. vtop /\ farr[k].bp \in 0 .. End(k)
             /\ ActivationAt(k) \in Activation
             /\ Len(ActivationAt(k).vals) = End(k) - farr[k].bp
  <2>1. End(k) \in 0 .. vtop /\ farr[k].bp \in 0 .. End(k)
    <3>1. CASE k = ftop - 1
      BY <3>1, StateFacts DEF End, Frame
    <3>2. CASE k # ftop - 1
      <4>1. k + 1 \in 1 .. ftop - 1 /\ (k + 1) - 1 = k /\ End(k) = farr[k + 1].bp
        BY <3>2, StateFacts DEF End
      <4>2. farr[k].bp <= farr[k + 1].bp
        BY <4>1 DEF IInv, FrameNesting
      <4>3. farr[k + 1].bp <= Frame.bp
        BY <4>1, BasesAscend, StateFacts DEF Frame
      <4> QED BY <4>1, <4>2, <4>3, StateFacts
    <3> QED BY <3>1, <3>2
  <2> DEFINE n == End(k) - farr[k].bp
             vals == [j \in 1 .. n |-> varr[farr[k].bp + j - 1]]
  <2>2. n \in Nat
    BY <2>1, StateFacts
  <2>3. \A j \in 1 .. n : varr[farr[k].bp + j - 1] \in Value
    <3> SUFFICES ASSUME NEW j \in 1 .. n PROVE varr[farr[k].bp + j - 1] \in Value
      OBVIOUS
    <3>1. farr[k].bp + j - 1 \in 0 .. STK_CAP - 1
      BY <2>1, StateFacts
    <3> QED BY <3>1 DEF IInv, TypeOK
  <2>4. vals \in Seq(Value) /\ Len(vals) = n
    BY <2>2, <2>3
  <2>5. farr[k].ra \in 0 .. MaxCode
    BY StateFacts
  <2> QED BY <2>1, <2>4, <2>5 DEF ActivationAt, Activation
<1>2. ftop \in Nat /\ ftop >= 1
  BY StateFacts
<1>3. Activations \in Seq(Activation) /\ Len(Activations) = ftop
  BY <1>1, <1>2 DEF Activations
<1>4. Promise!Depth = ftop
  BY <1>3 DEF Promise!Depth, Activations
<1>5. Promise!Older = SubSeq(Activations, 1, ftop - 1)
  BY <1>4 DEF Promise!Older, Activations
<1>6. Promise!Older = [k \in 1 .. ftop - 1 |-> ActivationAt(k - 1)]
  BY <1>2, <1>3, <1>5 DEF Activations
<1>7. Promise!Older \in Seq(Activation) /\ Len(Promise!Older) = ftop - 1
  BY <1>1, <1>2, <1>6
<1>8. Promise!Newest = ActivationAt(ftop - 1)
  BY <1>2, <1>4 DEF Promise!Newest
<1>9. /\ Promise!Newest.ra = Frame.ra
      /\ Promise!Newest.vals = [j \in 1 .. vtop - Frame.bp |-> varr[Frame.bp + j - 1]]
  BY <1>8 DEF ActivationAt, End, Frame
<1>10. ftop - 1 \in 0 .. ftop - 1 /\ End(ftop - 1) = vtop
  BY <1>2 DEF End
<1> QED BY <1>1, <1>3, <1>4, <1>6, <1>7, <1>8, <1>9, <1>10 DEF Frame

(* An older activation is as it was when neither its frame nor the values  *)
(* below the newest base change.                                           *)
LEMMA OlderKept ==
  ASSUME IInv, NEW top \in 1 .. FRM_CAP, top <= ftop, ftop' \in Nat, top <= ftop',
         \A j \in 0 .. top - 1 : farr'[j] = farr[j],
         \A i \in 0 .. farr[top - 1].bp - 1 : varr'[i] = varr[i],
         NEW k \in 0 .. top - 2
  PROVE  ActivationAt(k)' = ActivationAt(k)
<1>1. k + 1 \in 1 .. top - 1 /\ k \in 0 .. ftop - 2 /\ (k + 1) - 1 = k
      /\ ftop \in Nat /\ k # ftop - 1 /\ top \in Int
  BY StateFacts
<1>2. End(k) = farr[k + 1].bp
  BY <1>1 DEF End
<1>a. k # ftop' - 1
  <2>1. ftop' \in Int /\ ftop \in Int /\ top \in Int /\ k \in Int
    BY <1>1
  <2>2. k + 2 <= top
    BY <1>1, <2>1
  <2>3. \A a, b, c \in Int : a <= b /\ c + 2 <= a => c # b - 1
    OBVIOUS
  <2> QED BY <2>1, <2>2, <2>3, Zenon
<1>3. End(k)' = farr[k + 1].bp /\ farr'[k].bp = farr[k].bp /\ farr'[k].ra = farr[k].ra
  BY <1>1, <1>a DEF End
<1>4. farr[k + 1].bp <= farr[top - 1].bp
  BY <1>1, BasesAscend, StateFacts
<1>5. \A j \in 1 .. farr[k + 1].bp - farr[k].bp :
        varr'[farr[k].bp + j - 1] = varr[farr[k].bp + j - 1]
  BY <1>1, <1>4, StateFacts
<1> QED BY <1>2, <1>3, <1>5 DEF ActivationAt

(* A step that changes only the newest activation's values gives it those  *)
(* that the array then holds from its base to vtop.                        *)
LEMMA NewestMaps ==
  ASSUME IInv, IInv', UNCHANGED frameVars,
         \A i \in 0 .. Frame.bp - 1 : varr'[i] = varr[i],
         NEW vals \in Seq(Value), Len(vals) = vtop' - Frame.bp,
         \A j \in 1 .. Len(vals) : varr'[Frame.bp + j - 1] = vals[j]
  PROVE  Promise!NewestOwns(vals)
<1>1. farr' = farr /\ ftop' = ftop
  BY DEF frameVars
<1>2. \A k \in 1 .. ftop - 1 : ActivationAt(k - 1)' = ActivationAt(k - 1)
  <2> SUFFICES ASSUME NEW k \in 1 .. ftop - 1
               PROVE  ActivationAt(k - 1)' = ActivationAt(k - 1)
    OBVIOUS
  <2>1. k - 1 \in 0 .. ftop - 2 /\ ftop \in 1 .. FRM_CAP /\ ftop <= ftop'
    BY <1>1, StateFacts
  <2> QED BY <1>1, <2>1, OlderKept DEF Frame
<1>3. ASSUME NEW k \in 1 .. ftop, k = ftop
      PROVE  ActivationAt(k - 1)' = [ra |-> Frame.ra, vals |-> vals]
  <2>1. End(k - 1)' = vtop'
    BY <1>1, <1>3, StateFacts DEF End
  <2>2. farr[k - 1].bp = Frame.bp /\ farr[k - 1].ra = Frame.ra
    BY <1>3 DEF Frame
  <2>3. vals = [j \in 1 .. vtop' - Frame.bp |-> varr'[Frame.bp + j - 1]]
    <3>1. vals = [j \in 1 .. Len(vals) |-> vals[j]]
      OBVIOUS
    <3> QED BY <3>1
  <2> QED BY <1>1, <2>1, <2>2, <2>3 DEF ActivationAt
<1>4. Activations' = [k \in 1 .. ftop |-> ActivationAt(k - 1)']
  BY <1>1 DEF Activations
<1>5. Promise!Owning(Promise!Newest, vals) = [ra |-> Frame.ra, vals |-> vals]
  BY ActivationsAre DEF Promise!Owning
<1>6. Append(Promise!Older, [ra |-> Frame.ra, vals |-> vals])
        = [k \in 1 .. ftop |-> ActivationAt(k - 1)']
  <2> DEFINE older == Promise!Older
             newest == [ra |-> Frame.ra, vals |-> vals]
  <2>1. older \in Seq(Activation) /\ Len(older) = ftop - 1 /\ newest \in Activation
        /\ \A k \in 1 .. ftop - 1 : older[k] = ActivationAt(k - 1)
    BY ActivationsAre, StateFacts DEF Activation
  <2>2. ftop \in Nat /\ ftop >= 1
    BY StateFacts
  <2> HIDE DEF older, newest
  <2>3. Append(older, newest) \in Seq(Activation) /\ Len(Append(older, newest)) = ftop
        /\ \A k \in 1 .. ftop : Append(older, newest)[k]
                                = IF k = ftop THEN newest ELSE older[k]
    BY <2>1, <2>2
  <2>4. ASSUME NEW k \in 1 .. ftop PROVE Append(older, newest)[k] = ActivationAt(k - 1)'
    <3>1. CASE k = ftop
      BY <1>3, <2>3, <3>1 DEF newest
    <3>2. CASE k # ftop
      <4>1. k \in 1 .. ftop - 1
        BY <2>2, <3>2
      <4> QED BY <1>2, <2>1, <2>3, <3>2, <4>1
    <3> QED BY <3>1, <3>2
  <2>5. Append(older, newest) = [k \in 1 .. ftop |-> Append(older, newest)[k]]
    <3> DEFINE all == Append(older, newest)
    <3>1. all \in Seq(Activation) /\ Len(all) = ftop
      BY <2>3
    <3> HIDE DEF all
    <3>2. all = [k \in 1 .. Len(all) |-> all[k]]
      BY <3>1
    <3> QED BY <3>1, <3>2 DEF all
  <2> QED BY <2>4, <2>5 DEF older, newest
<1> QED BY <1>4, <1>5, <1>6 DEF Promise!NewestOwns, Activations
(* The array after n pops and a push of every element of vs.               *)
PoppedAndPushed(n, vs) ==
  /\ vtop' = vtop - n + Len(vs)
  /\ \A i \in 0 .. vtop - n - 1 : varr'[i] = varr[i]
  /\ \A j \in 1 .. Len(vs) : varr'[vtop - n + j - 1] = vs[j]

(* What pop n times and push every element of vs does to the array is what *)
(* Replace does to the newest activation.                                  *)
LEMMA ReplaceMaps ==
  ASSUME IInv, IInv', running, UNCHANGED <<frameVars, running>>,
         NEW n \in Nat, NEW vs \in Seq(Value), Operands(n), PoppedAndPushed(n, vs)
  PROVE  Promise!Replace(n, vs)
<1> DEFINE bp == Frame.bp
           own == Promise!Newest.vals
           left == SubSeq(own, 1, Len(own) - n)
           vals == left \o vs
<1>1. own \in Seq(Value) /\ Len(own) = vtop - bp
      /\ \A j \in 1 .. vtop - bp : own[j] = varr[bp + j - 1]
  BY ActivationsAre DEF Activation
<1>2. bp \in Nat /\ vtop \in Nat /\ bp + n <= vtop
  BY StateFacts DEF Operands
<1> HIDE DEF own, bp
<1>3. left \in Seq(Value) /\ Len(left) = vtop - bp - n
      /\ \A j \in 1 .. vtop - bp - n : left[j] = own[j]
  <2> DEFINE m == Len(own) - n
  <2>1. m \in Nat /\ m <= Len(own) /\ m = vtop - bp - n
    BY <1>1, <1>2
  <2> HIDE DEF m
  <2>2. SubSeq(own, 1, m) \in Seq(Value) /\ Len(SubSeq(own, 1, m)) = m
        /\ \A j \in 1 .. m : SubSeq(own, 1, m)[j] = own[j]
    BY <1>1, <2>1
  <2> QED BY <2>1, <2>2 DEF m
<1> HIDE DEF left
<1>4. vals \in Seq(Value) /\ Len(vals) = Len(left) + Len(vs)
      /\ \A j \in 1 .. Len(left) + Len(vs) :
           vals[j] = IF j <= Len(left) THEN left[j] ELSE vs[j - Len(left)]
  BY <1>3, ConcatProperties
<1> HIDE DEF vals
<1>a. Len(vs) \in Nat
  OBVIOUS
<1>5. Len(vals) = vtop' - bp
  BY <1>2, <1>3, <1>4, <1>a DEF PoppedAndPushed
<1>6. ASSUME NEW j \in 1 .. Len(vals) PROVE varr'[bp + j - 1] = vals[j]
  <2>1. CASE j <= vtop - bp - n
    <3>1. bp + j - 1 \in 0 .. vtop - n - 1 /\ j \in 1 .. vtop - bp
          /\ j \in 1 .. vtop - bp - n /\ j \in 1 .. Len(left) + Len(vs)
      BY <1>2, <1>3, <1>4, <1>a, <2>1
    <3>2. varr'[bp + j - 1] = varr[bp + j - 1]
      BY <3>1 DEF PoppedAndPushed
    <3> QED BY <1>1, <1>3, <1>4, <2>1, <3>1, <3>2
  <2>2. CASE ~(j <= vtop - bp - n)
    <3> DEFINE i == j - (vtop - bp - n)
    <3>1. i \in 1 .. Len(vs) /\ vtop - n + i - 1 = bp + j - 1
          /\ j \in 1 .. Len(left) + Len(vs)
      BY <1>2, <1>3, <1>4, <1>a, <2>2
    <3> HIDE DEF i
    <3>2. varr'[vtop - n + i - 1] = vs[i]
      BY <3>1 DEF PoppedAndPushed
    <3> QED BY <1>3, <1>4, <2>2, <3>1, <3>2 DEF i
  <2> QED BY <2>1, <2>2
<1>7. \A i \in 0 .. bp - 1 : varr'[i] = varr[i]
  BY <1>2 DEF PoppedAndPushed
<1>8. Promise!NewestOwns(vals)
  BY <1>4, <1>5, <1>6, <1>7, NewestMaps DEF bp
<1>9. vals = Promise!First(own, Len(own) - n) \o vs
  BY DEF vals, left, Promise!First
<1>10. ip' \in 0 .. MaxCode
  BY DEF IInv, TypeOK
<1>11. n <= Len(own)
  BY <1>1, <1>2
<1> QED BY <1>8, <1>9, <1>10, <1>11 DEF Promise!Replace, own

(* stk_invoke after `callees` pops is Invoke: the new activation starts    *)
(* with the last argc values and the caller keeps the rest.                *)
LEMMA InvokeMaps ==
  ASSUME IInv, IInv', FrameRoom, running, UNCHANGED <<st, running>>,
         NEW argc \in Nat, NEW callees \in Nat, NEW size \in Nat,
         Operands(argc + callees), stk_invoke(ip + size, argc, callees)
  PROVE  Promise!Invoke(callees, argc, ip', size)
<1> DEFINE bp == Frame.bp
           base == vtop - callees - argc
           own == Promise!Newest.vals
           left == SubSeq(own, 1, Len(own) - callees)
           kept == SubSeq(left, 1, Len(left) - argc)
           passed == SubSeq(left, Len(left) - argc + 1, Len(left))
           caller == [ra |-> Frame.ra, vals |-> kept]
           callee == [ra |-> ip + size, vals |-> passed]
           older == Promise!Older
           two == <<caller, callee>>
           all == older \o two
<1>1. own \in Seq(Value) /\ Len(own) = vtop - bp
      /\ \A j \in 1 .. vtop - bp : own[j] = varr[bp + j - 1]
  BY ActivationsAre DEF Activation
<1>2. bp \in Nat /\ vtop \in Nat /\ bp + argc + callees <= vtop
  BY StateFacts DEF Operands
<1>a. ftop \in 1 .. FRM_CAP - 1 /\ FRM_CAP \in Nat
  BY StateFacts DEF FrameRoom
<1>b. farr' = [farr EXCEPT ![ftop] = [ra |-> ip + size, bp |-> base]]
      /\ ftop' = ftop + 1 /\ vtop' = vtop - callees /\ varr' = varr
  BY DEF stk_invoke
<1>c. farr'[ftop] = [ra |-> ip + size, bp |-> base]
      /\ \A k \in 0 .. ftop - 1 : farr'[k] = farr[k]
  BY <1>a, <1>b, StateFacts DEF IInv, TypeOK
<1>3. base \in Nat /\ bp <= base /\ base = vtop - callees - argc
  BY <1>2
<1> HIDE DEF bp, base, own
<1>4. left \in Seq(Value) /\ Len(left) = vtop - bp - callees
      /\ \A j \in 1 .. vtop - bp - callees : left[j] = own[j]
  <2> DEFINE m == Len(own) - callees
  <2>1. m \in Nat /\ m <= Len(own) /\ m = vtop - bp - callees
    BY <1>1, <1>2
  <2> HIDE DEF m
  <2>2. SubSeq(own, 1, m) \in Seq(Value) /\ Len(SubSeq(own, 1, m)) = m
        /\ \A j \in 1 .. m : SubSeq(own, 1, m)[j] = own[j]
    BY <1>1, <2>1
  <2> QED BY <2>1, <2>2 DEF m
<1> HIDE DEF left
<1>5. kept \in Seq(Value) /\ Len(kept) = base - bp
      /\ \A j \in 1 .. base - bp : kept[j] = varr[bp + j - 1]
  <2> DEFINE m == Len(left) - argc
  <2>1. m \in Nat /\ m <= Len(left) /\ m = base - bp
        /\ base - bp <= vtop - bp - callees /\ base - bp <= vtop - bp
    BY <1>2, <1>3, <1>4
  <2> HIDE DEF m
  <2>2. SubSeq(left, 1, m) \in Seq(Value) /\ Len(SubSeq(left, 1, m)) = m
        /\ \A j \in 1 .. m : SubSeq(left, 1, m)[j] = left[j]
    BY <1>4, <2>1
  <2>3. kept \in Seq(Value) /\ Len(kept) = m /\ \A j \in 1 .. m : kept[j] = left[j]
    BY <2>2 DEF m
  <2> HIDE DEF kept
  <2>4. ASSUME NEW j \in 1 .. base - bp PROVE kept[j] = varr[bp + j - 1]
    <3>1. j \in 1 .. m /\ j \in 1 .. vtop - bp - callees /\ j \in 1 .. vtop - bp
      BY <1>2, <1>3, <2>1
    <3> QED BY <1>1, <1>4, <2>3, <3>1
  <2> QED BY <2>1, <2>3, <2>4
<1>6. passed \in Seq(Value) /\ Len(passed) = argc
      /\ \A j \in 1 .. argc : passed[j] = varr[base + j - 1]
  <2> DEFINE m == Len(left) - argc
  <2>1. m \in Nat /\ m + argc = Len(left) /\ m = base - bp /\ m + 1 \in Int
        /\ Len(left) \in Int /\ Len(left) - (m + 1) + 1 = argc
    BY <1>2, <1>3, <1>4
  <2> HIDE DEF m
  <2> DEFINE from == m + 1
             upto == Len(left)
             part == SubSeq(left, from, upto)
  <2>0. m \in Nat /\ argc \in Nat /\ Len(left) = m + argc
    BY <2>1
  <2>2. from \in Int /\ 1 <= from /\ upto \in Nat /\ upto - from + 1 = argc
        /\ from <= upto + 1 /\ upto = Len(left)
    BY <2>0
  <2>3. part = passed
    BY DEF m
  <2>7. from = m + 1
    OBVIOUS
  <2> HIDE DEF from, upto
  <2>4. ASSUME NEW j \in from .. upto PROVE left[j] \in Value
    <3>1. j \in 1 .. Len(left)
      BY <2>2
    <3> QED BY <1>4, <3>1
  <2>5. /\ part \in Seq(Value)
        /\ Len(part) = IF from <= upto THEN upto - from + 1 ELSE 0
        /\ \A j \in 1 .. upto - from + 1 : part[j] = left[from + j - 1]
    BY <2>2, <2>4, SubSeqProperties
  <2> HIDE DEF part, passed
  <2>6. ASSUME NEW j \in 1 .. argc PROVE passed[j] = varr[base + j - 1]
    <3>1. from + j - 1 = m + j /\ m + j \in Nat /\ 1 <= m + j /\ m + j <= m + argc
      BY <2>0, <2>7
    <3>2. vtop - bp - callees = m + argc /\ m + argc <= vtop - bp /\ bp + m = base
      BY <1>2, <1>3, <2>1
    <3>3. m + j \in 1 .. vtop - bp - callees /\ m + j \in 1 .. vtop - bp
      BY <1>2, <2>1, <3>1, <3>2, SMTT(30)
    <3>4. bp + (m + j) - 1 = base + j - 1
      BY <1>2, <2>1, <3>2
    <3>5. passed[j] = left[m + j]
      BY <2>2, <2>3, <2>5, <3>1
    <3> QED BY <1>1, <1>4, <3>3, <3>4, <3>5
  <2>8. Len(passed) = argc
    BY <2>2, <2>3, <2>5
  <2> QED BY <2>3, <2>5, <2>6, <2>8
<1>7. ASSUME NEW k \in 1 .. ftop - 1 PROVE ActivationAt(k - 1)' = older[k]
  <2>1. k - 1 \in 0 .. ftop - 2 /\ ftop \in 1 .. FRM_CAP /\ ftop <= ftop' /\ ftop' \in Nat
        /\ ftop <= ftop
    BY <1>a, <1>b
  <2>2. ActivationAt(k - 1)' = ActivationAt(k - 1)
    BY <1>b, <1>c, <2>1, OlderKept
  <2> QED BY <2>2, ActivationsAre
<1>8. ASSUME NEW k \in 1 .. ftop + 1, k = ftop PROVE ActivationAt(k - 1)' = caller
  <2>1. k - 1 \in 0 .. ftop - 1 /\ (k - 1) + 1 = ftop /\ k - 1 # ftop' - 1
    BY <1>8, <1>a, <1>b
  <2>2. End(k - 1)' = base
    BY <1>c, <2>1 DEF End
  <2>3. farr'[k - 1] = farr[k - 1] /\ farr[k - 1].bp = bp /\ farr[k - 1].ra = Frame.ra
    BY <1>8, <1>c, <2>1 DEF Frame, bp
  <2> HIDE DEF kept
  <2>4. kept = [j \in 1 .. base - bp |-> varr[bp + j - 1]]
    <3>1. kept = [j \in 1 .. Len(kept) |-> kept[j]]
      BY <1>5
    <3> QED BY <1>5, <3>1
  <2>5. varr' = varr
    BY <1>b
  <2> QED BY <2>2, <2>3, <2>4, <2>5 DEF ActivationAt
<1>9. ASSUME NEW k \in 1 .. ftop + 1, k = ftop + 1 PROVE ActivationAt(k - 1)' = callee
  <2>1. k - 1 = ftop /\ k - 1 = ftop' - 1
    BY <1>9, <1>a, <1>b
  <2>2. End(k - 1)' = vtop'
    BY <2>1 DEF End
  <2>3. farr'[k - 1].bp = base /\ farr'[k - 1].ra = ip + size
    BY <1>c, <2>1
  <2>4. vtop' - base = argc
    BY <1>2, <1>3, <1>b
  <2> HIDE DEF passed
  <2>5. passed = [j \in 1 .. argc |-> varr[base + j - 1]]
    <3>1. passed = [j \in 1 .. Len(passed) |-> passed[j]]
      BY <1>6
    <3> QED BY <1>6, <3>1
  <2>6. varr' = varr
    BY <1>b
  <2> QED BY <2>2, <2>3, <2>4, <2>5, <2>6 DEF ActivationAt
<1>10. Activations' = [k \in 1 .. ftop + 1 |-> ActivationAt(k - 1)']
  BY <1>b DEF Activations
<1>d. ip + size \in 0 .. MaxCode /\ Frame.ra \in 0 .. MaxCode
  <2>1. farr'[ftop].ra \in 0 .. MaxCode
    BY <1>a DEF IInv, TypeOK
  <2> QED BY <1>c, <2>1, StateFacts
<1> HIDE DEF kept, passed
<1>11. caller \in Activation /\ callee \in Activation
  BY <1>5, <1>6, <1>d DEF Activation
<1> HIDE DEF caller, callee
<1>12. two \in Seq(Activation) /\ Len(two) = 2 /\ two[1] = caller /\ two[2] = callee
  BY <1>11
<1>13. older \in Seq(Activation) /\ Len(older) = ftop - 1
  BY ActivationsAre
<1> HIDE DEF older, two
<1>14. all \in Seq(Activation) /\ Len(all) = (ftop - 1) + 2
       /\ \A k \in 1 .. (ftop - 1) + 2 :
            all[k] = IF k <= ftop - 1 THEN older[k] ELSE two[k - (ftop - 1)]
  <2>1. /\ older \o two \in Seq(Activation) /\ Len(older \o two) = Len(older) + Len(two)
        /\ \A k \in 1 .. Len(older) + Len(two) :
             (older \o two)[k] = IF k <= Len(older) THEN older[k] ELSE two[k - Len(older)]
    BY <1>12, <1>13, ConcatProperties
  <2> QED BY <1>12, <1>13, <2>1
<1> HIDE DEF all
<1>15. ASSUME NEW k \in 1 .. ftop + 1 PROVE ActivationAt(k - 1)' = all[k]
  <2>0. k \in 1 .. (ftop - 1) + 2 /\ ftop \in Nat
    BY <1>a
  <2>1. CASE k = ftop
    <3>1. ~(k <= ftop - 1) /\ k - (ftop - 1) = 1
      BY <2>0, <2>1
    <3>2. all[k] = caller
      BY <1>12, <1>14, <2>0, <3>1
    <3> QED BY <1>8, <2>1, <3>2
  <2>2. CASE k = ftop + 1
    <3>1. ~(k <= ftop - 1) /\ k - (ftop - 1) = 2
      BY <2>0, <2>2
    <3>2. all[k] = callee
      BY <1>12, <1>14, <2>0, <3>1
    <3> QED BY <1>9, <2>2, <3>2
  <2>3. CASE k # ftop /\ k # ftop + 1
    <3>1. k \in 1 .. ftop - 1 /\ k <= ftop - 1
      BY <1>a, <2>3
    <3>2. all[k] = older[k]
      BY <1>14, <2>0, <3>1
    <3> QED BY <1>7, <3>1, <3>2
  <2> QED BY <2>1, <2>2, <2>3
<1>16. all = [k \in 1 .. ftop + 1 |-> all[k]]
  <2>1. all = [k \in 1 .. Len(all) |-> all[k]]
    BY <1>14
  <2>2. Len(all) = ftop + 1
    BY <1>14, <1>a
  <2> QED BY <2>1, <2>2
<1>17. Activations' = all
  BY <1>10, <1>15, <1>16
<1>18. /\ Promise!Owning(Promise!Newest, kept) = caller
       /\ Promise!First(left, Len(left) - argc) = kept
       /\ Promise!First(own, Len(own) - callees) = left
       /\ Promise!LastOf(left, argc) = passed
  BY ActivationsAre DEF Promise!Owning, Promise!First, Promise!LastOf, caller, kept, left, passed
<1>19. callees + argc <= Len(own)
  BY <1>1, <1>2
<1> QED BY <1>17, <1>18, <1>19
        DEF Promise!Invoke, Activations, all, own, older, two, callee
(* STR overwrites one slot of the newest activation with its last value.   *)
LEMMA AssignMaps ==
  ASSUME IInv, IInv', NEW i \in 0 .. STK_CAP - 1, STR(i)
  PROVE  Promise!Assign(i + 1)
<1> DEFINE bp == Frame.bp
           own == Promise!Newest.vals
           vals == [own EXCEPT ![i + 1] = own[Len(own)]]
<1>1. own \in Seq(Value) /\ Len(own) = vtop - bp
      /\ \A j \in 1 .. vtop - bp : own[j] = varr[bp + j - 1]
  BY ActivationsAre DEF Activation
<1>2. bp \in Nat /\ vtop \in Nat /\ bp <= vtop /\ i < vtop - bp /\ vtop <= STK_CAP
      /\ i \in Nat /\ STK_CAP \in Nat
  BY StateFacts DEF STR
<1>3. varr' = [varr EXCEPT ![bp + i] = Top] /\ vtop' = vtop /\ running = TRUE
      /\ UNCHANGED frameVars /\ st' = st /\ running' = running
  BY DEF STR, stk_set, Instruction, IInv, TypeOK
<1>4. DOMAIN varr = 0 .. STK_CAP - 1 /\ ip' \in 0 .. MaxCode
  BY DEF IInv, TypeOK
<1> HIDE DEF own, bp
<1>5. own[Len(own)] = Top /\ Top \in Value
  <2>1. vtop - bp \in 1 .. vtop - bp /\ bp + (vtop - bp) - 1 = vtop - 1
    BY <1>2
  <2>2. own[vtop - bp] = varr[vtop - 1] /\ own[vtop - bp] \in Value
    BY <1>1, <2>1
  <2> QED BY <1>1, <2>2 DEF Top
<1>6. vals \in Seq(Value) /\ Len(vals) = vtop - bp
      /\ \A j \in 1 .. vtop - bp : vals[j] = IF j = i + 1 THEN Top ELSE own[j]
  <2>1. i + 1 \in 1 .. Len(own)
    BY <1>1, <1>2
  <2> QED BY <1>1, <1>5, <2>1
<1> HIDE DEF vals
<1>7. ASSUME NEW j \in 1 .. Len(vals) PROVE varr'[bp + j - 1] = vals[j]
  <2>1. bp + j - 1 \in 0 .. STK_CAP - 1 /\ (bp + j - 1 = bp + i <=> j = i + 1)
        /\ j \in 1 .. vtop - bp
    BY <1>2, <1>6
  <2>2. varr'[bp + j - 1] = IF bp + j - 1 = bp + i THEN Top ELSE varr[bp + j - 1]
    BY <1>3, <1>4, <2>1
  <2> QED BY <1>1, <1>6, <2>1, <2>2
<1>8. ASSUME NEW j \in 0 .. bp - 1 PROVE varr'[j] = varr[j]
  <2>1. j \in 0 .. STK_CAP - 1 /\ j # bp + i
    BY <1>2
  <2> QED BY <1>3, <1>4, <2>1
<1>9. Len(vals) = vtop' - bp
  BY <1>3, <1>6
<1>10. Promise!NewestOwns(vals)
  BY <1>3, <1>6, <1>7, <1>8, <1>9, NewestMaps DEF bp
<1>11. i + 1 \in 1 .. Len(own)
  BY <1>1, <1>2
<1> QED BY <1>3, <1>4, <1>10, <1>11 DEF Promise!Assign, own, vals

(* stk_return after the pop of the result is Return: the caller is what it *)
(* was before the call, with the result on top.                            *)
LEMMA ReturnMaps ==
  ASSUME IInv, IInv', RET
  PROVE  Promise!Return
<1> DEFINE bp == Frame.bp
           older == Promise!Older
           own == Promise!Newest.vals
           before == older[ftop - 1]
           cbp == farr[ftop - 2].bp
           result == own[Len(own)]
           vals == Append(before.vals, result)
           caller == [ra |-> before.ra, vals |-> vals]
           rest == SubSeq(Activations, 1, ftop - 2)
           all == Append(rest, caller)
<1>1. /\ varr' = [varr EXCEPT ![bp] = Top] /\ vtop' = bp + 1
      /\ ftop' = ftop - 1 /\ ip' = Frame.ra /\ farr' = farr
      /\ st' = st /\ running' = running /\ running
  BY DEF RET
<1>2. /\ ftop \in 2 .. FRM_CAP /\ FRM_CAP \in Nat /\ bp \in Nat /\ vtop \in Nat /\ bp < vtop
      /\ vtop <= STK_CAP /\ STK_CAP \in Nat
  BY StateFacts DEF RET, Operands
<1>3. cbp \in Nat /\ cbp <= bp
  <2>1. ftop - 1 \in 1 .. ftop - 1 /\ (ftop - 1) - 1 = ftop - 2 /\ ftop - 2 \in 0 .. FRM_CAP - 1
    BY <1>2
  <2>2. farr[(ftop - 1) - 1].bp <= farr[ftop - 1].bp
    BY <2>1 DEF IInv, FrameNesting
  <2> QED BY <2>1, <2>2, StateFacts DEF Frame
<1>4. DOMAIN varr = 0 .. STK_CAP - 1
  BY DEF IInv, TypeOK
<1>5. own \in Seq(Value) /\ Len(own) = vtop - bp
      /\ \A j \in 1 .. vtop - bp : own[j] = varr[bp + j - 1]
  BY ActivationsAre DEF Activation
<1>6. older \in Seq(Activation) /\ Len(older) = ftop - 1
      /\ older = [k \in 1 .. ftop - 1 |-> ActivationAt(k - 1)]
      /\ Activations \in Seq(Activation) /\ Len(Activations) = ftop
  BY ActivationsAre
<1>7. before \in Activation /\ before.ra = farr[ftop - 2].ra
      /\ before.vals = [j \in 1 .. bp - cbp |-> varr[cbp + j - 1]]
  <2>1. ftop - 1 \in 1 .. ftop - 1 /\ (ftop - 1) - 1 = ftop - 2 /\ ftop - 2 # ftop - 1
        /\ (ftop - 2) + 1 = ftop - 1
    BY <1>2
  <2>2. before = ActivationAt(ftop - 2)
    BY <1>6, <2>1
  <2>3. End(ftop - 2) = bp
    BY <2>1 DEF End, Frame
  <2>4. before \in Activation
    BY <1>6, <2>1
  <2> QED BY <2>2, <2>3, <2>4 DEF ActivationAt
<1> HIDE DEF bp, cbp, own
<1>8. result = Top /\ Top \in Value
  <2>1. vtop - bp \in 1 .. vtop - bp /\ bp + (vtop - bp) - 1 = vtop - 1
    BY <1>2
  <2>2. own[vtop - bp] = varr[vtop - 1] /\ own[vtop - bp] \in Value
    BY <1>5, <2>1
  <2> QED BY <1>5, <2>2 DEF Top
<1> HIDE DEF before, result
<1>9. before.vals \in Seq(Value) /\ Len(before.vals) = bp - cbp
  <2>1. before.vals \in Seq(Value)
    BY <1>7 DEF Activation
  <2>2. bp - cbp \in Nat
    BY <1>2, <1>3
  <2> QED BY <1>7, <2>1, <2>2
<1>10. /\ vals \in Seq(Value) /\ Len(vals) = bp - cbp + 1
       /\ \A j \in 1 .. bp - cbp : vals[j] = before.vals[j]
       /\ vals[bp - cbp + 1] = Top
  BY <1>8, <1>9, AppendProperties
<1> HIDE DEF vals
<1>11. vals = [j \in 1 .. vtop' - cbp |-> varr'[cbp + j - 1]]
  <2>1. vals = [j \in 1 .. Len(vals) |-> vals[j]]
    BY <1>10
  <2>2. Len(vals) = vtop' - cbp
    BY <1>1, <1>2, <1>3, <1>10
  <2>3. ASSUME NEW j \in 1 .. Len(vals) PROVE vals[j] = varr'[cbp + j - 1]
    <3>1. CASE j = bp - cbp + 1
      <4>1. cbp + j - 1 = bp /\ bp \in 0 .. STK_CAP - 1
        BY <1>2, <1>3, <3>1
      <4>2. varr'[bp] = Top
        BY <1>1, <1>4, <4>1
      <4>3. vals[j] = Top
        BY <1>10, <3>1, Zenon
      <4> QED BY <4>1, <4>2, <4>3
    <3>2. CASE j # bp - cbp + 1
      <4>1. j \in 1 .. bp - cbp /\ cbp + j - 1 # bp /\ cbp + j - 1 \in 0 .. STK_CAP - 1
        BY <1>2, <1>3, <1>10, <3>2
      <4>2. vals[j] = varr[cbp + j - 1]
        BY <1>7, <1>10, <4>1
      <4> QED BY <1>1, <1>4, <4>1, <4>2
    <3> QED BY <3>1, <3>2
  <2> QED BY <2>1, <2>2, <2>3
<1>12. ASSUME NEW k \in 1 .. ftop - 1, k = ftop - 1 PROVE ActivationAt(k - 1)' = caller
  <2>1. k - 1 = ftop' - 1 /\ k - 1 = ftop - 2
    BY <1>1, <1>2, <1>12
  <2>2. End(k - 1)' = vtop'
    BY <2>1 DEF End
  <2>3. farr'[k - 1].bp = cbp /\ farr'[k - 1].ra = before.ra
    BY <1>1, <1>7, <2>1 DEF cbp
  <2> QED BY <1>11, <2>2, <2>3 DEF ActivationAt
<1>13. ASSUME NEW k \in 1 .. ftop - 2 PROVE ActivationAt(k - 1)' = ActivationAt(k - 1)
  <2>1. /\ k - 1 \in 0 .. (ftop - 1) - 2 /\ ftop - 1 \in 1 .. FRM_CAP /\ ftop - 1 <= ftop'
        /\ ftop' \in Nat /\ ftop - 1 <= ftop
    BY <1>1, <1>2
  <2>2. \A j \in 0 .. (ftop - 1) - 1 : farr'[j] = farr[j]
    BY <1>1
  <2>3. \A j \in 0 .. farr[(ftop - 1) - 1].bp - 1 : varr'[j] = varr[j]
    <3>1. farr[(ftop - 1) - 1].bp = cbp
      <4>1. (ftop - 1) - 1 = ftop - 2
        BY <1>2
      <4> QED BY <4>1 DEF cbp
    <3>2. \A j \in 0 .. cbp - 1 : j # bp
      BY <1>2, <1>3
    <3> QED BY <1>1, <1>2, <1>3, <1>4, <3>1, <3>2
  <2> QED BY <2>1, <2>2, <2>3, OlderKept
<1>14. rest \in Seq(Activation) /\ Len(rest) = ftop - 2
       /\ \A k \in 1 .. ftop - 2 : rest[k] = ActivationAt(k - 1)
  <2> DEFINE n == ftop - 2
             acts == Activations
  <2>1. n \in Nat /\ n <= ftop
    BY <1>2
  <2>2. acts \in Seq(Activation) /\ Len(acts) = ftop
    BY <1>6
  <2>3. \A k \in 1 .. n : acts[k] = ActivationAt(k - 1)
    BY <1>2 DEF Activations
  <2> HIDE DEF n, acts
  <2>4. SubSeq(acts, 1, n) \in Seq(Activation) /\ Len(SubSeq(acts, 1, n)) = n
        /\ \A k \in 1 .. n : SubSeq(acts, 1, n)[k] = acts[k]
    BY <2>1, <2>2
  <2> QED BY <2>3, <2>4 DEF n, acts
<1>15. caller \in Activation
  BY <1>7, <1>10 DEF Activation
<1> HIDE DEF rest, caller
<1>16. /\ all \in Seq(Activation) /\ Len(all) = ftop - 2 + 1
       /\ \A k \in 1 .. ftop - 2 : all[k] = rest[k]
       /\ all[ftop - 2 + 1] = caller
  BY <1>14, <1>15, AppendProperties
<1> HIDE DEF all
<1>17. ASSUME NEW k \in 1 .. ftop - 1 PROVE ActivationAt(k - 1)' = all[k]
  <2>1. CASE k = ftop - 1
    <3>1. k = ftop - 2 + 1
      BY <1>2, <2>1
    <3>2. all[k] = caller
      BY <1>16, <3>1, Zenon
    <3> QED BY <1>12, <2>1, <3>2
  <2>2. CASE k # ftop - 1
    <3>1. k \in 1 .. ftop - 2
      BY <1>2, <2>2
    <3> QED BY <1>13, <1>14, <1>16, <3>1
  <2> QED BY <2>1, <2>2
<1>18. Activations' = [k \in 1 .. ftop - 1 |-> ActivationAt(k - 1)']
  BY <1>1 DEF Activations
<1>19. all = [k \in 1 .. ftop - 1 |-> all[k]]
  <2>1. all = [k \in 1 .. Len(all) |-> all[k]]
    BY <1>16
  <2>2. Len(all) = ftop - 1
    BY <1>2, <1>16
  <2> QED BY <2>1, <2>2
<1>20. Activations' = all
  BY <1>17, <1>18, <1>19
<1>21. Promise!Depth = ftop /\ Activations[Promise!Depth - 1] = before
  <2>1. ftop - 1 \in 1 .. ftop /\ ftop - 1 \in 1 .. ftop - 1
    BY <1>2
  <2>2. Activations[ftop - 1] = before
    BY <1>6, <2>1 DEF Activations, before
  <2> QED BY <2>2, ActivationsAre
<1>22. Promise!Owning(before, vals) = caller
  BY DEF Promise!Owning, caller
<1>23. Promise!First(Activations, Promise!Depth - 2) = rest
  BY <1>21 DEF Promise!First, rest
<1>24. own # <<>> /\ Promise!Depth > 1 /\ ip' = Promise!Newest.ra
  BY <1>1, <1>2, <1>5, <1>21, ActivationsAre
<1> QED BY <1>1, <1>20, <1>21, <1>22, <1>23, <1>24
        DEF Promise!Return, Activations, all, own, result, vals
(* Every step of the arrays is a step of the activations, or leaves them   *)
(* alone.                                                                  *)
LEMMA NextMaps ==
  ASSUME ArgRead = {"after"}, IInv, IInv', [Next]_vars
  PROVE  [Promise!Next]_(Promise!vars)
<1> USE DEF Promise!Next
<1>a. TypeOK /\ TypeOK'
  BY DEF IInv
<1>b. <<>> \in Seq(Value) /\ Len(<<>>) = 0
  OBVIOUS
<1>c. ASSUME NEW v \in Value
      PROVE  <<v>> \in Seq(Value) /\ Len(<<v>>) = 1 /\ <<v>>[1] = v
  OBVIOUS
(* An instruction that moves no value. *)
<1>d. ASSUME UNCHANGED <<varr, vtop, frameVars>> PROVE Activations' = Activations
  BY <1>d DEF Activations, ActivationAt, End, frameVars
(* The array after one push in place of n values. *)
<1>e. ASSUME NEW n \in Nat, NEW v \in Value, Operands(n), vtop - n < STK_CAP,
             PopPush(n, <<v>>)
      PROVE  PoppedAndPushed(n, <<v>>)
  <2>1. n <= vtop /\ vtop - n \in 0 .. STK_CAP - 1
    BY <1>e, StateFacts DEF Operands
  <2>2. varr' = [varr EXCEPT ![vtop - n] = v] /\ vtop' = vtop - n + 1
    BY <1>a, <1>e, <2>1, PopPushOne
  <2>3. \A i \in 0 .. vtop - n - 1 : varr'[i] = varr[i]
    BY <2>1, <2>2, StateFacts DEF TypeOK
  <2>4. varr'[vtop - n] = v
    BY <1>a, <2>1, <2>2 DEF TypeOK
  <2>5. \A j \in 1 .. 1 : varr'[vtop - n + j - 1] = <<v>>[j]
    <3>1. \A j \in 1 .. 1 : j = 1 /\ vtop - n + j - 1 = vtop - n
      BY <2>1, StateFacts
    <3> QED BY <1>c, <2>4, <3>1
  <2> QED BY <1>c, <2>2, <2>3, <2>5 DEF PoppedAndPushed
(* The array after one pop. *)
<1>f. ASSUME Operands(1), PopPush(1, <<>>) PROVE PoppedAndPushed(1, <<>>)
  <2>1. 1 <= vtop
    BY <1>f, StateFacts DEF Operands
  <2>2. varr' = varr /\ vtop' = vtop - 1
    BY <1>a, <1>f, <2>1, PopPushNone, 1 \in Nat
  <2>3. vtop' = vtop - 1 + Len(<<>>)
    BY <1>b, <2>2, StateFacts
  <2>4. \A j \in 1 .. Len(<<>>) : FALSE
    BY <1>b
  <2> QED BY <2>2, <2>3, <2>4 DEF PoppedAndPushed
<1>g. ASSUME UNCHANGED <<varr, vtop>> PROVE PoppedAndPushed(0, <<>>)
  <2>1. vtop' = vtop - 0 + Len(<<>>) /\ varr' = varr
    BY <1>b, <1>g, StateFacts
  <2>2. \A j \in 1 .. Len(<<>>) : FALSE
    BY <1>b
  <2> QED BY <2>1, <2>2 DEF PoppedAndPushed
<1>h. Operands(0)
  BY StateFacts DEF Operands
<1>1. CASE vm_run
  <2>1. Promise!Run
    BY <1>1, <1>d DEF vm_run, Promise!Run, Activations
  <2> QED BY <2>1
<1>2. CASE FIN \/ DBG \/ Undefined
  <2>1. UNCHANGED <<varr, vtop, frameVars>> /\ running /\ running' = FALSE
        /\ st' \in {st, "BRKPNT", "ERROR"}
    BY <1>2 DEF FIN, DBG, Undefined, Stops, Instruction
  <2>2. ip' \in 0 .. MaxCode
    BY <1>a DEF TypeOK
  <2>3. Promise!Stop
    BY <1>d, <2>1, <2>2 DEF Promise!Stop, Activations
  <2> QED BY <2>3
<1>3. CASE reset_stk
  <2>1. farr' = [farr EXCEPT ![0] = [ra |-> 0, bp |-> 0]] /\ ftop' = 1 /\ vtop' = 0
        /\ UNCHANGED <<ip, st, running>>
    BY <1>3 DEF reset_stk, init_stk
  <2>2. farr'[0] = [ra |-> 0, bp |-> 0]
    BY <1>a, <2>1, ConstantsAssumption DEF TypeOK
  <2>3. ASSUME NEW k \in 1 .. 1 PROVE ActivationAt(k - 1)' = [ra |-> 0, vals |-> <<>>]
    <3>1. k - 1 = 0 /\ k - 1 = ftop' - 1
      BY <2>1
    <3>2. End(k - 1)' = 0 /\ farr'[k - 1].bp = 0 /\ farr'[k - 1].ra = 0
      BY <2>1, <2>2, <3>1 DEF End
    <3>3. [j \in 1 .. End(k - 1)' - farr'[k - 1].bp |-> varr'[farr'[k - 1].bp + j - 1]]
            = <<>>
      BY <3>2
    <3> QED BY <3>2, <3>3, Zenon DEF ActivationAt
  <2>4. Activations' = << [ra |-> 0, vals |-> <<>>] >>
    BY <2>1, <2>3 DEF Activations
  <2>5. Promise!Reset
    BY <2>1, <2>4 DEF Promise!Reset, Activations
  <2> QED BY <2>5
<1>4. CASE Idle
  <2>1. UNCHANGED <<varr, vtop>> /\ UNCHANGED <<frameVars, running>> /\ running
        /\ st' = st
    BY <1>4 DEF Idle, AnyWidth, Instruction
  <2>2. Promise!Replace(0, <<>>)
    BY <1>b, <1>g, <1>h, <2>1, ReplaceMaps, 0 \in Nat
  <2> QED BY <2>1, <2>2
<1>5. ASSUME NEW v \in Value, PushValue(v) PROVE Promise!Next
  <2>1. UNCHANGED <<frameVars, running>> /\ running /\ st' = st /\ PopPush(0, <<v>>)
        /\ vtop - 0 < STK_CAP
    BY <1>5, StateFacts DEF PushValue, AnyWidth, Instruction, Room
  <2>2. PoppedAndPushed(0, <<v>>)
    BY <1>e, <1>h, <2>1, 0 \in Nat
  <2>3. Promise!Replace(0, <<v>>)
    BY <1>c, <1>h, <2>1, <2>2, ReplaceMaps, 0 \in Nat
  <2> QED BY <2>1, <2>3
<1>6. CASE POP
  <2>1. UNCHANGED <<frameVars, running>> /\ running /\ st' \in {st, "ERROR"}
        /\ Operands(1) /\ PopPush(1, <<>>)
    BY <1>6 DEF POP, AnyWidth, Instruction
  <2>2. Promise!Replace(1, <<>>)
    BY <1>b, <1>f, <2>1, ReplaceMaps, 1 \in Nat
  <2> QED BY <2>1, <2>2
<1>7. ASSUME NEW i \in 0 .. STK_CAP - 1, PSH(i) PROVE Promise!Next
  <2>1. UNCHANGED <<frameVars, running>> /\ running /\ st' = st
        /\ PopPush(0, <<stk_get(i)>>) /\ vtop - 0 < STK_CAP
    BY <1>7, StateFacts DEF PSH, Instruction, Room
  <2>2. Frame.bp + i \in 0 .. STK_CAP - 1
    BY <1>7, StateFacts DEF PSH, Room
  <2>3. stk_get(i) \in Value
    BY <1>a, <2>2 DEF stk_get, TypeOK
  <2>4. PoppedAndPushed(0, <<stk_get(i)>>)
    BY <1>e, <1>h, <2>1, <2>3, 0 \in Nat
  <2>5. Promise!Replace(0, <<stk_get(i)>>)
    BY <1>c, <1>h, <2>1, <2>3, <2>4, ReplaceMaps, 0 \in Nat
  <2> QED BY <2>1, <2>3, <2>5
<1>8. ASSUME NEW i \in 0 .. STK_CAP - 1, STR(i) PROVE Promise!Next
  <2>1. Promise!Assign(i + 1)
    BY <1>8, AssignMaps
  <2>2. i + 1 \in 1 .. Len(Promise!Newest.vals)
    BY <2>1 DEF Promise!Assign
  <2> QED BY <2>1, <2>2
<1>9. ASSUME NEW arity \in 1 .. 3, NEW result \in Value, Operator(arity, result)
      PROVE  Promise!Next
  <2>1. UNCHANGED <<frameVars, running>> /\ running /\ st' \in {st, "ERROR"}
        /\ Operands(arity) /\ PopPush(arity, <<result>>)
    BY <1>9 DEF Operator, Instruction
  <2>2. arity \in Nat /\ vtop - arity < STK_CAP
    BY StateFacts
  <2>3. PoppedAndPushed(arity, <<result>>)
    BY <1>e, <2>1, <2>2
  <2>4. Promise!Replace(arity, <<result>>)
    BY <1>c, <2>1, <2>2, <2>3, ReplaceMaps
  <2> QED BY <2>1, <2>4
<1>10. ASSUME NEW opcode \in {"JMP", "JPT", "JPF", "JBW"}, NEW offset \in 0 .. MaxCode,
              Jump(opcode, offset)
       PROVE  Promise!Next
  <2>1. UNCHANGED <<varr, vtop>> /\ UNCHANGED <<frameVars, running>> /\ running
        /\ st' = st
    BY <1>10 DEF Jump
  <2>2. Promise!Replace(0, <<>>)
    BY <1>b, <1>g, <1>h, <2>1, ReplaceMaps, 0 \in Nat
  <2> QED BY <2>1, <2>2
<1>11. CASE CAL
  <2>1. Operands(Argc[ip] + 1) /\ running /\ UNCHANGED running /\ Argc[ip] \in Nat
    BY <1>a, <1>11, ConstantsAssumption DEF CAL, TypeOK
  <2>2. CASE Top \in Function /\ FrameRoom /\ stk_invoke(ip + 2, Argc[ip], 1)
             /\ ip' = Entry[Top] /\ UNCHANGED st
    <3>1. Promise!Invoke(1, Argc[ip], ip', 2)
      BY <2>1, <2>2, InvokeMaps, 1 \in Nat, 2 \in Nat
    <3> DEFINE own == Promise!Newest.vals
    <3>2. own # <<>> /\ own[Len(own)] = Top
      <4>1. own = [j \in 1 .. vtop - Frame.bp |-> varr[Frame.bp + j - 1]]
            /\ Len(own) = vtop - Frame.bp
        BY ActivationsAre
      <4>2. vtop - Frame.bp \in 1 .. vtop - Frame.bp
            /\ Frame.bp + (vtop - Frame.bp) - 1 = vtop - 1
        BY <2>1, StateFacts DEF Operands
      <4> HIDE DEF own
      <4>3. own[vtop - Frame.bp] = varr[vtop - 1]
        BY <4>1, <4>2
      <4>4. own # <<>>
        BY <4>1, <4>2
      <4> QED BY <4>1, <4>3, <4>4 DEF Top
    <3> QED BY <2>2, <3>1, <3>2
  <2>3. CASE PopPush(1, <<>>) /\ st' = "ERROR" /\ UNCHANGED frameVars
    <3>1. Operands(1)
      BY <2>1, StateFacts DEF Operands
    <3>2. Promise!Replace(1, <<>>)
      BY <1>b, <1>f, <2>1, <2>3, <3>1, ReplaceMaps, 1 \in Nat
    <3> QED BY <2>3, <3>2
  <2> QED BY <1>11, <2>2, <2>3 DEF CAL
<1>12. ASSUME NEW addr \in 0 .. MaxCode, FRM(addr) PROVE Promise!Next
  <2>a. ip \in 0 .. MaxCode
    BY StateFacts
  <2>b. FrmSize[ip] \in 3 .. 6 /\ Argc[ip] \in Nat
    BY <2>a, ConstantsAssumption
  <2>1. running /\ Operands(Argc[ip]) /\ FrameRoom /\ UNCHANGED <<st, running>>
        /\ stk_invoke(ip + FrmSize[ip], Argc[ip], 0) /\ ip' = addr
    <3>1. /\ running /\ Operands(Argc[ip]) /\ FrameRoom /\ UNCHANGED <<st, running>>
          /\ stk_invoke(ip + FrmSize[ip] - 0, Argc[ip], 0) /\ ip' = addr
      BY <1>12, Zenon DEF FRM
    <3>2. ip + FrmSize[ip] - 0 = ip + FrmSize[ip]
      BY <2>a, <2>b
    <3> QED BY <3>1, <3>2, Zenon
  <2>2. Argc[ip] \in Nat /\ FrmSize[ip] \in Nat /\ Argc[ip] + 0 = Argc[ip]
    BY <2>b
  <2>3. Promise!Invoke(0, Argc[ip], ip', FrmSize[ip])
    BY <2>1, <2>2, InvokeMaps, 0 \in Nat
  <2> QED BY <2>1, <2>3
<1>13. CASE RET
  BY <1>13, ReturnMaps
<1>14. CASE UNCHANGED vars
  BY <1>14, <1>d DEF vars, frameVars, Promise!vars, Activations
<1> QED BY <1>1, <1>2, <1>3, <1>4, <1>5, <1>6, <1>7, <1>8, <1>9, <1>10, <1>11,
           <1>12, <1>13, <1>14 DEF Next

LEMMA InitMaps == Init => Promise!Init
<1> SUFFICES ASSUME Init PROVE Promise!Init
  OBVIOUS
<1>1. farr = [i \in 0 .. FRM_CAP - 1 |-> [ra |-> 0, bp |-> 0]] /\ ftop = 1 /\ vtop = 0
      /\ ip = 0 /\ st = "OK" /\ running = FALSE
  BY DEF Init
<1>2. farr[0] = [ra |-> 0, bp |-> 0]
  BY <1>1, ConstantsAssumption
<1>3. ASSUME NEW k \in 1 .. 1 PROVE ActivationAt(k - 1) = [ra |-> 0, vals |-> <<>>]
  <2>1. k - 1 = 0 /\ k - 1 = ftop - 1
    BY <1>1
  <2>2. End(k - 1) = 0 /\ farr[k - 1].bp = 0 /\ farr[k - 1].ra = 0
    BY <1>1, <1>2, <2>1 DEF End
  <2>3. [j \in 1 .. End(k - 1) - farr[k - 1].bp |-> varr[farr[k - 1].bp + j - 1]] = <<>>
    BY <2>2
  <2> QED BY <2>2, <2>3, Zenon DEF ActivationAt
<1>4. Activations = << [ra |-> 0, vals |-> <<>>] >>
  BY <1>1, <1>3 DEF Activations
<1> QED BY <1>1, <1>4 DEF Promise!Init, Activations

(* The two fixed arrays with their base pointers (stack.c, call_, frame_,  *)
(* return_) implement a pile of isolated activations: a call passes argc   *)
(* values and nothing else, a return restores the caller and resumes it    *)
(* right after the call, for every program and every capacity.  frame_     *)
(* reads vm->ip after its ARG1, as the build the runs model does; read     *)
(* before, a block would resume one byte short.                            *)
THEOREM StackRefinesActivations ==
  ASSUME ArgRead = {"after"} PROVE Spec => ImplementsCallStack
<1>1. IInv /\ IInv' /\ [Next]_vars => [Promise!Next]_(Promise!vars)
  BY NextMaps
<1> QED BY <1>1, InitIInv, NextIInv, InitMaps, PTL
        DEF Spec, ImplementsCallStack, Promise!Spec
===============================================================================
