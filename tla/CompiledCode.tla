------------------------------ MODULE CompiledCode ------------------------------
(***************************************************************************)
(* What the code that Codegen emits does in the virtual machine            *)
(* (source/moth/vm.c), byte by byte, and how the disassembler              *)
(* (source/moth/disas.c) reads it.  Unlike in MothStack, the code is the   *)
(* compiler's and values are looked at.  Calls do not occur.               *)
(*                                                                         *)
(* A definition X_Y marked Faulty is X with a plausible bug; no            *)
(* specification uses it.  The runs' properties are tested against them.   *)
(***************************************************************************)
EXTENDS Codegen, TLC

CONSTANTS
  Trees,    \* the trees that are compiled
  Rodata,   \* what the rodata holds before, of other code: a set of sequences
  VALUES    \* bound: values on the stack

VARIABLES
  tree, comp,  \* a tree and what the compiler has made of it; they never change
  ip, stack,   \* of the VM
  st

vars == <<tree, comp, ip, stack, st>>
compiled == <<tree, comp>>

IsValue(x) ==
  \/ x \in {VOID_VAL, BOOL_VAL(TRUE), BOOL_VAL(FALSE)}
  \/ x.type = "int" /\ x.v \in Int

(* The type invariant; every byte of the program is one.                   *)
CodeTypeOK ==
  /\ ip \in 0 .. Len(comp.code)
  /\ \A n \in DOMAIN stack : IsValue(stack[n])
  /\ Len(stack) <= VALUES
  /\ st \in {"OK", "ERROR"}
  /\ \A n \in DOMAIN comp.code :
       comp.code[n] \in 0 .. Byte - 1 \cup {VM(Opcode[o]) : o \in DOMAIN Opcode}

-----------------------------------------------------------------------------
(* The VM. *)

truthy(x) == x.type # "void" /\ x.v # 0
falsy(x) == ~truthy(x)

Running == ip < Len(comp.code)
At(name) == Running /\ comp.code[ip + 1] = VM(name)

ARG(n) == LET arg[i \in 0 .. n] == IF i = 0 THEN 0 ELSE arg[i - 1] * Byte + comp.code[ip + 1 + i]
          IN  arg[n]

Top == stack[Len(stack)]
Below(n) == SubSeq(stack, 1, Len(stack) - n)

NOP ==
  /\ At("NOP")
  /\ ip' = ip + 1
  /\ UNCHANGED <<compiled, stack, st>>

PUSH(n, x) ==
  /\ Len(stack) < VALUES
  /\ stack' = Append(stack, x)
  /\ ip' = ip + n
  /\ UNCHANGED <<compiled, st>>

Literal ==
  \/ At("VID") /\ PUSH(1, VOID_VAL)
  \/ At("TRU") /\ PUSH(1, BOOL_VAL(TRUE))
  \/ At("FAL") /\ PUSH(1, BOOL_VAL(FALSE))

Width == ("VAL" :> 1) @@ ("VAL2" :> 2) @@ ("VAL3" :> 3) @@ ("VAL4" :> 4)

VAL == \E o \in DOMAIN Width : At(o) /\ PUSH(1 + Width[o], comp.rod[ARG(Width[o]) + 1])

POP ==
  /\ At("POP")
  /\ stack' = Below(1)
  /\ ip' = ip + 1
  /\ UNCHANGED <<compiled, st>>

Ordered(a, b) == a.type = "int" /\ b.type = "int"

(* What an operator does to its operands; VM_LT runs greater_eq_ and       *)
(* VM_GTE runs less_.                                                      *)
Ordering(name, a, b) ==
  CASE name = "GT"  -> a.v > b.v
    [] name = "LT"  -> a.v >= b.v
    [] name = "GTE" -> a.v < b.v
    [] name = "LTE" -> a.v <= b.v

UnaryOp ==
  \E name \in {"NOT", "NEG"} :
    /\ At(name)
    /\ LET ok == name = "NOT" \/ Top.type = "int" IN
         /\ stack' = Append(Below(1), CASE name = "NOT" -> BOOL_VAL(falsy(Top))
                                        [] ok    -> INT_VAL(-Top.v)
                                        [] OTHER -> VOID_VAL)
         /\ st' = IF ok THEN st ELSE "ERROR"
    /\ ip' = ip + 1
    /\ UNCHANGED compiled

BinaryOp ==
  \E name \in {"EQ", "NEQ", "GT", "LT", "GTE", "LTE"} :
    /\ At(name)
    /\ LET a == stack[Len(stack) - 1]
           ok == name \in {"EQ", "NEQ"} \/ Ordered(a, Top)
       IN  /\ stack' = Append(Below(2), CASE name = "EQ"  -> BOOL_VAL(a = Top)
                                          [] name = "NEQ" -> BOOL_VAL(a # Top)
                                          [] ok    -> BOOL_VAL(Ordering(name, a, Top))
                                          [] OTHER -> VOID_VAL)
           /\ st' = IF ok THEN st ELSE "ERROR"
    /\ ip' = ip + 1
    /\ UNCHANGED compiled

(* Jumps count from behind their operand; the conditional ones leave the   *)
(* value on the stack.                                                     *)
JumpTo(offset) == ip' = offset /\ UNCHANGED <<compiled, stack, st>>

JMP == At("JMP") /\ JumpTo(ip + 3 + ARG(2))
JPT == At("JPT") /\ JumpTo(ip + 3 + (IF truthy(Top) THEN ARG(2) ELSE 0))
JPF == At("JPF") /\ JumpTo(ip + 3 + (IF falsy(Top) THEN ARG(2) ELSE 0))
JBW == At("JBW") /\ JumpTo(ip + 3 - ARG(2))

Init ==
  /\ tree \in Trees
  /\ \E rod \in Rodata : comp = handle(tree, Fresh(rod))
  /\ ip = 0 /\ stack = <<>> /\ st = "OK"

Next ==
  \/ NOP \/ Literal \/ VAL \/ POP \/ UnaryOp \/ BinaryOp
  \/ JMP \/ JPT \/ JPF \/ JBW

Spec == Init /\ [][Next]_vars

-----------------------------------------------------------------------------
(* The disassembler. *)

(* Faulty: move and jump read a single byte. *)
OperandBytes_ShortJump(name) ==
  IF name \in DOMAIN Width THEN Width[name]
  ELSE IF name \in {"JMP", "JPT", "JPF", "JBW"} THEN 1 ELSE 0

OperandBytes(name) ==
  IF name \in DOMAIN Width THEN Width[name]
  ELSE IF name \in {"JMP", "JPT", "JPF", "JBW"} THEN 2 ELSE 0

NameOf(byte) ==
  IF byte > 1000 THEN Opcode[byte - 1000] ELSE "???"

(* disassemble: the offsets of the lines it prints, from offset on. *)
RECURSIVE Listing(_, _)
Listing(code, offset) ==
  IF offset >= Len(code) THEN {}
  ELSE {offset} \cup Listing(code, offset + 1 + OperandBytes(NameOf(code[offset + 1])))

-----------------------------------------------------------------------------
(* What trees mean, stated without jumps. *)

RECURSIVE Truth(_)
Truth(t) ==
  LET a == t.kids[1]
      b == t.kids[2]
  IN  CASE t.kids = <<>>  -> truthy(t.val)
        [] t.kind = "NOT" -> ~Truth(a)
        [] t.kind = "NEG" -> Truth(a)
        [] t.kind = "AND" -> Truth(a) /\ Truth(b)
        [] t.kind = "OR"  -> Truth(a) \/ Truth(b)
        [] t.kind = "EQ"  -> a.val = b.val
        [] t.kind = "NEQ" -> a.val # b.val
        [] t.kind = "GT"  -> a.val.v > b.val.v
        [] t.kind = "LT"  -> a.val.v < b.val.v
        [] t.kind = "GTE" -> a.val.v >= b.val.v
        [] t.kind = "LTE" -> a.val.v <= b.val.v

Statement == {"empty", "expression", "block", "if", "while"}

(* The values a run of the tree leaves: an operator consumes its operands  *)
(* but AND and OR, which leave the left one and the result.                *)
RECURSIVE Leaves(_)
Leaves(t) ==
  LET Of(n) == Leaves(t.kids[n]) IN
    CASE t.kind = "empty"      -> 0
      [] t.kind = "expression" -> Of(1) - 1
      [] t.kind = "block"      -> LET sum[n \in 0 .. Len(t.kids)] ==
                                        IF n = 0 THEN 0 ELSE sum[n - 1] + Of(n)
                                  IN  sum[Len(t.kids)]
      [] t.kind = "if"         -> Of(1) - 1 + (IF Truth(t.kids[1]) THEN Of(2)
                                               ELSE IF Len(t.kids) = 3 THEN Of(3) ELSE 0)
      [] t.kind = "while"      -> Of(1) - 1
      [] t.kind = "NOT" \/ t.kind = "NEG" -> Of(1)
      [] t.kind = "AND"        -> Of(1) + (IF Truth(t.kids[1]) THEN Of(2) ELSE 1)
      [] t.kind = "OR"         -> Of(1) + (IF Truth(t.kids[1]) THEN 1 ELSE Of(2))
      [] t.kids = <<>>         -> 1
      [] OTHER                 -> Of(1) + Of(2) - 1

-----------------------------------------------------------------------------
(* Properties *)

Ended == ~Running /\ ~comp.thrown

(* Every jump lands on an instruction, or at the end: with the constants   *)
(* of other code before it, whatever widths that gives the instructions    *)
(* that are jumped over.                                                   *)
OnInstruction == ip \in comp.starts \cup {Len(comp.code)}

(* Code that reaches its end has evaluated the tree: short-circuits and    *)
(* branches went the way the conditions say, a loop was left because its   *)
(* condition is false, and the values on the stack are those the tree      *)
(* leaves, no fewer and no more.                                           *)
DoesWhatTheTreeSays ==
  Ended => /\ Len(stack) = Leaves(tree)
           /\ tree.kind \notin Statement => (truthy(Top) <=> Truth(tree))

(* A literal has one entry in the rodata however often it occurs, and      *)
(* every id the compiler remembers is that of its literal.                 *)
ConstantsAreShared ==
  /\ \A m, n \in DOMAIN comp.rod : comp.rod[m] = comp.rod[n] => m = n
  /\ \A x \in DOMAIN comp.ids : comp.rod[comp.ids[x] + 1] = x

(* Reports that are thrown through blocks leave every scope closed.        *)
ScopesAreClosed == comp.depth = -1

(* The disassembler prints one line for each instruction emitted, and so   *)
(* takes no operand for an opcode; of the instructions with operands only  *)
(* those occur that the handlers of Codegen emit.                          *)
ListingIsInStep == Listing(comp.code, 0) = comp.starts

(* include/moth/opcode.h:94 "less than". *)
LessIsLess ==
  Ended /\ tree.kind = "LT" => (truthy(Top) <=> tree.kids[1].val.v < tree.kids[2].val.v)
===============================================================================
