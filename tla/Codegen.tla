-------------------------------- MODULE Codegen --------------------------------
(***************************************************************************)
(* The code generator (source/silk/targets/moth/compiler.cxx): what each   *)
(* handler appends to the program, as a function from the compiler's state *)
(* to its next one.  A tree is a kind, a literal (or Nothing) and its      *)
(* subtrees.  A byte is a number below Byte; opcodes are numbers from 1000 *)
(* on, so that code read out of step is never mistaken for an instruction. *)
(* The handlers of array and dictionary literals are left out: they emit   *)
(* VM_ARR and VM_DCT without the size byte that the VM reads behind them.  *)
(*                                                                         *)
(* A definition X_Y marked Faulty is X with a plausible bug; no            *)
(* specification uses it.  The runs' properties are tested against them.   *)
(***************************************************************************)
EXTENDS Integers, Sequences

CONSTANT Byte   \* 256

ASSUME CodegenAssumption == Byte \in Nat /\ Byte > 1

(* Values and literals; booleans are 0 and 1, as in Value.as. *)
VOID_VAL == [type |-> "void", v |-> 0]
BOOL_VAL(b) == [type |-> "bool", v |-> IF b THEN 1 ELSE 0]
INT_VAL(n) == [type |-> "int", v |-> n]

Nothing == VOID_VAL
Tree(kind, val, kids) == [kind |-> kind, val |-> val, kids |-> kids]

(* The opcodes that handlers emit; operators have their tree's name.       *)
Opcode ==
  <<"NOP", "POP", "JMP", "JPT", "JPF", "JBW", "VAL", "VAL2", "VAL3", "VAL4", "VID", "TRU", "FAL",
    "NOT", "NEG", "EQ", "NEQ", "GT", "LT", "GTE", "LTE">>
VM(name) == 1000 + CHOOSE n \in DOMAIN Opcode : Opcode[n] = name

(* The compiler: the program it writes, the ids of the literals that are   *)
(* in the rodata, the depth of scopes, and whether a report was thrown.    *)
(* starts is history: the offsets at which opcodes were emitted.           *)
Fresh(rodata) ==
  [code |-> <<>>, rod |-> rodata, ids |-> <<>>, depth |-> -1, thrown |-> FALSE, starts |-> {}]

-----------------------------------------------------------------------------
get_offset(s) == Len(s.code)

emit(s, byte) == IF s.thrown THEN s ELSE [s EXCEPT !.code = Append(@, byte)]

op(s, name) ==
  IF s.thrown THEN s
  ELSE [s EXCEPT !.code = Append(@, VM(name)), !.starts = @ \cup {get_offset(s)}]

Digit(arg, i) == (arg \div (Byte ^ i)) % Byte

emit_varbyte_arg(s, arg, size) ==
  IF s.thrown THEN s
  ELSE [s EXCEPT !.code = @ \o [i \in 1 .. size |-> Digit(arg, size - i)]]

(* emit_varbyte_op_arg(VM_VAL, id); the limits are what the code has, not  *)
(* the largest id of each width.                                           *)
load_rodata(s, id) ==
  CASE id <= Byte - 1       -> emit_varbyte_arg(op(s, "VAL"), id, 1)
    [] id \in Byte .. (Byte - 1) * 2 -> emit_varbyte_arg(op(s, "VAL2"), id, 2)
    [] id \in (Byte - 1) * 2 + 1 .. (Byte - 1) * 3 -> emit_varbyte_arg(op(s, "VAL3"), id, 3)
    [] OTHER                -> emit_varbyte_arg(op(s, "VAL4"), id, 4)

Numbered(ids, x, id) == [y \in DOMAIN ids \cup {x} |-> IF y = x THEN id ELSE ids[y]]

(* Faulty: a literal seen for the first time is not remembered. *)
encode_rodata_Forgets(s, x) == [s EXCEPT !.rod = Append(@, x)]

(* write_rodata, and the map from the literal to the id it returned.       *)
encode_rodata(s, x) ==
  [s EXCEPT !.rod = Append(@, x), !.ids = Numbered(@, x, Len(s.rod))]

load_constant(s, x) ==
  IF x \in DOMAIN s.ids THEN load_rodata(s, s.ids[x])
  ELSE load_rodata(encode_rodata(s, x), Len(s.rod))

-----------------------------------------------------------------------------
jmp_insert(s, name) == emit(emit(op(s, name), 0), 0)

(* Faulty: the distance counts from the operand, not from behind it.       *)
jmp_finish_FromOperand(s, insc) ==
  LET size == (get_offset(s) - (insc - 2)) % (Byte * Byte) IN
    IF s.thrown \/ size = 0 THEN s
    ELSE [s EXCEPT !.code[insc] = Digit(size, 0), !.code[insc - 1] = Digit(size, 1)]

(* insc is the offset behind the jump; its two operand bytes lie before.   *)
jmp_finish(s, insc) ==
  LET size == (get_offset(s) - insc) % (Byte * Byte) IN
    IF s.thrown \/ size = 0 THEN s
    ELSE [s EXCEPT !.code[insc] = Digit(size, 0), !.code[insc - 1] = Digit(size, 1)]

(* Faulty: the opcode, which the offset already has, is counted again.     *)
jump_back_CountsTwice(s, clause) ==
  emit_varbyte_arg(op(s, "JBW"), get_offset(s) + 4 - clause, 2)

jump_back(s, clause) == emit_varbyte_arg(op(s, "JBW"), get_offset(s) + 3 - clause, 2)

push_scope(s) == [s EXCEPT !.depth = @ + 1]

(* Faulty: a report that passes through a block leaves the scope open.     *)
pop_scope_NotThrown(s) == IF s.thrown THEN s ELSE [s EXCEPT !.depth = @ - 1]

(* No handler defines a stack variable, so no scope has any to pop.        *)
pop_scope(s) == [s EXCEPT !.depth = @ - 1]

throw(s) == [s EXCEPT !.thrown = TRUE]

-----------------------------------------------------------------------------
RECURSIVE handle(_, _)

RECURSIVE handle_nodes(_, _)
handle_nodes(kids, s) ==
  IF kids = <<>> THEN s ELSE handle_nodes(Tail(kids), handle(Head(kids), s))

(* Both operands' values stay on the stack: JPT only looks at the left one *)
(* and nothing pops it.                                                    *)
logical_or(left, right, s) ==
  LET tjmp  == jmp_insert(handle(left, s), "JPT")
      orjmp == jmp_insert(handle(right, tjmp), "JMP")
  IN  jmp_finish(op(jmp_finish(orjmp, get_offset(tjmp)), "TRU"), get_offset(orjmp))

(* Faulty: the left operand's jump is finished where the other one is.     *)
logical_and_SkipsFalse(left, right, s) ==
  LET fjmp   == jmp_insert(handle(left, s), "JPF")
      andjmp == jmp_insert(handle(right, fjmp), "JMP")
      last   == op(andjmp, "FAL")
  IN  jmp_finish(jmp_finish(last, get_offset(fjmp)), get_offset(andjmp))

logical_and(left, right, s) ==
  LET fjmp   == jmp_insert(handle(left, s), "JPF")
      andjmp == jmp_insert(handle(right, fjmp), "JMP")
  IN  jmp_finish(op(jmp_finish(andjmp, get_offset(fjmp)), "FAL"), get_offset(andjmp))

(* The false case comes first.                                             *)
StatementIf(t, s) ==
  LET tr    == jmp_insert(handle(t.kids[1], s), "JPT")
      false == IF Len(t.kids) = 3 THEN handle(t.kids[3], tr) ELSE tr
      fl    == jmp_insert(false, "JMP")
      true  == handle(t.kids[2], jmp_finish(fl, get_offset(tr)))
  IN  op(jmp_finish(true, get_offset(fl)), "POP")

StatementWhile(t, s) ==
  LET out  == jmp_insert(handle(t.kids[1], s), "JPF")
      body == handle(t.kids[2], op(out, "POP"))
  IN  op(jmp_finish(jump_back(body, get_offset(s)), get_offset(out)), "POP")

handle(t, s) ==
  CASE s.thrown              -> s
    [] t.kind = "empty"      -> op(s, "NOP")
    [] t.kind = "expression" -> op(handle(t.kids[1], s), "POP")
    [] t.kind = "block"      -> pop_scope(handle_nodes(t.kids, push_scope(s)))
    [] t.kind = "if"         -> StatementIf(t, s)
    [] t.kind = "while"      -> StatementWhile(t, s)
    [] t.kind = "identifier" -> throw(s)
    [] t.kind = "void"       -> op(s, "VID")
    [] t.kind = "bool"       -> op(s, IF t.val.v = 1 THEN "TRU" ELSE "FAL")
    [] t.kind = "int"        -> load_constant(s, t.val)
    [] t.kind \in {"NOT", "NEG"} -> op(handle(t.kids[1], s), t.kind)
    [] t.kind = "OR"         -> logical_or(t.kids[1], t.kids[2], s)
    [] t.kind = "AND"        -> logical_and(t.kids[1], t.kids[2], s)
    [] OTHER                 -> op(handle_nodes(t.kids, s), t.kind)
===============================================================================
