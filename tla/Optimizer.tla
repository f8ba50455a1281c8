-------------------------------- MODULE Optimizer --------------------------------
(***************************************************************************)
(* The optimizer (source/silk/pipeline/optimizer.cxx and optimizer.h): it  *)
(* visits the nodes of a module depth first and folds binary operators     *)
(* whose operands are number literals, in place.  The recursion of         *)
(* handle_node is the sequence `work`, the next task first.  Naturals and  *)
(* integers keep their width; reals are not told apart.  An integer that   *)
(* goes through a double is rounded to one that a double holds.            *)
(*                                                                         *)
(* A definition X_Y marked Faulty is X with a plausible bug; no            *)
(* specification uses it.  The runs' properties are tested against them.   *)
(***************************************************************************)
EXTENDS Integers, SyntaxTree

CONSTANT Precision   \* the bits of a double's significand, 53

ASSUME PrecisionAssumption == Precision \in Nat \ {0}

VARIABLES
  heap,        \* the nodes of the module that is optimized
  work,        \* what is still to do
  complaints,  \* the constants that were reported
  died         \* whether the process ended here

optimizerVars == <<heap, work, complaints, died>>

Task(do, n) == [do |-> do, node |-> n]
Tasks(do, ns) == [i \in DOMAIN ns |-> Task(do, ns[i])]

-----------------------------------------------------------------------------
(* What a handler passes to handle_node: not a return's continuation.      *)
VisitedChildren(node) == IF node.kind = "StatementReturn" THEN <<node.kids[2]>> ELSE node.kids

(* What a handler does after its children. *)
Afterwards(n) ==
  CASE heap[n].kind = "ExpressionBinaryOp" -> <<Task("fold", n)>>
    [] heap[n].kind = "StatementConstant"  -> <<Task("check", n)>>
    [] OTHER -> <<>>

Todo(do) == work # <<>> /\ ~died /\ Head(work).do = do
Subject == Head(work).node

Dies == died' = TRUE /\ UNCHANGED <<heap, work, complaints>>

handle_node ==
  /\ Todo("visit")
  /\ Subject # Null
  /\ work' = Tasks("visit", VisitedChildren(heap[Subject])) \o Afterwards(Subject) \o Tail(work)
  /\ UNCHANGED <<heap, complaints, died>>

(* A null child is dereferenced like any other. *)
handle_node_Null == Todo("visit") /\ Subject = Null /\ Dies

is_const_expr(node) ==
  node.kind \in {"ExpressionBool", "ExpressionNat", "ExpressionInt", "ExpressionReal",
                 "ExpressionRealKeyword", "ExpressionChar", "ExpressionString"}

CheckConstant ==
  /\ Todo("check")
  /\ complaints' = IF is_const_expr(heap[heap[Subject].kids[1]]) THEN complaints
                   ELSE Append(complaints, Subject)
  /\ work' = Tail(work)
  /\ UNCHANGED <<heap, died>>

-----------------------------------------------------------------------------
(* Numbers *)

RealKinds == {"ExpressionReal", "ExpressionRealKeyword"}
NumberKinds == RealKinds \cup {"ExpressionNat", "ExpressionInt"}

Unsigned(x) == x % Modulus
Signed(x) == LET u == Unsigned(x) IN IF u >= Modulus \div 2 THEN u - Modulus ELSE u
IntRange == 0 - Modulus \div 2 .. Modulus \div 2 - 1
NatRange == 0 .. Modulus - 1

(* C's division, towards zero. *)
Magnitude(x) == IF x < 0 THEN 0 - x ELSE x
Quotient(a, b) ==
  LET q == Magnitude(a) \div Magnitude(b) IN IF (a < 0) = (b < 0) THEN q ELSE 0 - q
Remainder(a, b) == a - b * Quotient(a, b)

(* The integers of the width that a double holds, and which of them, in a  *)
(* set of one, it holds for x: the nearest, of two the one that is even.   *)
Doubles ==
  {x \in 0 - Modulus .. Modulus :
     \E s \in 0 .. 2 ^ Precision - 1, e \in 0 .. Width : Magnitude(x) = s * 2 ^ e}
Rounded(x) ==
  {d \in Doubles : \A o \in Doubles \ {d} :
     \/ Magnitude(d - x) < Magnitude(o - x)
     \/ Magnitude(d - x) = Magnitude(o - x) /\ (d \div Magnitude(o - d)) % 2 = 0}

(* A double that becomes an integer: out of the range S it is undefined.   *)
Integer(d, S) == IF d \in S THEN {d} ELSE S

(* std::pow of two doubles, towards zero.  Which double it finds for a     *)
(* power that is none is left open, so any value in S.                     *)
Powers(a, b, S) ==
  CASE a \in {0, 1} /\ b > 0 -> {a}
    [] a = 1 \/ b = 0 -> {1}
    [] a = -1 -> {IF b % 2 = 0 THEN 1 ELSE -1}
    [] a = 0 /\ b < 0 -> S
    [] OTHER -> IF b < 0 THEN {0} ELSE IF b < Width /\ a ^ b \in S \cap Doubles THEN {a ^ b} ELSE S

FoldedKind(l, r) ==
  CASE l.kind \in RealKinds \/ r.kind \in RealKinds -> "ExpressionReal"
    [] l.kind = "ExpressionNat" /\ r.kind = "ExpressionNat" -> "ExpressionNat"
    [] OTHER -> "ExpressionInt"

(* An integer and a natural are both unsigned in C++. *)
Mixed(l, r) == l.kind # r.kind
Operands(l, r) == IF Mixed(l, r) THEN <<Unsigned(l.val), Unsigned(r.val)>> ELSE <<l.val, r.val>>

Foldable == {"+", "-", "*", "**", "/", "//", "%"}
Dividing == {"/", "//", "%"}

(* The throw in a noexcept function; the traps of the division.            *)
Fatal(op, l, r) ==
  \/ op \notin Foldable
  \/ /\ FoldedKind(l, r) # "ExpressionReal" /\ op \in Dividing
     /\ LET a == Operands(l, r)[1]
            b == Operands(l, r)[2]
        IN  b = 0 \/ (a = 0 - Modulus \div 2 /\ b = -1)

(* Faulty: a natural does not become less than zero. *)
Difference_Saturates(a, b) == IF a >= 0 /\ b > a THEN 0 ELSE a - b

Difference(a, b) == a - b

(* What a op b may be before it is converted to the kind of the result.    *)
(* The floor of a quotient is a double, and so are the operands of a power. *)
Values(op, l, r) ==
  LET a == Operands(l, r)[1]
      b == Operands(l, r)[2]
      S == IF FoldedKind(l, r) = "ExpressionNat" THEN NatRange ELSE IntRange
  IN  CASE op = "+"  -> {a + b}
        [] op = "-"  -> {Difference(a, b)}
        [] op = "*"  -> {a * b}
        [] op = "%"  -> {Remainder(a, b)}
        [] op = "/"  -> {Quotient(a, b)}
        [] op = "//" -> UNION {Integer(d, S) : d \in Rounded(Quotient(a, b))}
        [] op = "**" -> UNION {Powers(x, y, S) : x \in Rounded(l.val), y \in Rounded(r.val)}

(* The literals that l op r may become. *)
make_const_bin_expr(op, l, r) ==
  CASE FoldedKind(l, r) = "ExpressionReal" -> {0}
    [] FoldedKind(l, r) = "ExpressionNat"  -> {Unsigned(v) : v \in Values(op, l, r)}
    [] FoldedKind(l, r) = "ExpressionInt"  -> {Signed(v) : v \in Values(op, l, r)}

Left == heap[heap[Subject].kids[1]]
Right == heap[heap[Subject].kids[2]]

(* Faulty: the kind of the right operand is not asked for. *)
BothNumbers_Left == Left.kind \in NumberKinds

BothNumbers == Left.kind \in NumberKinds /\ Right.kind \in NumberKinds

Fold ==
  /\ Todo("fold")
  /\ BothNumbers /\ ~Fatal(heap[Subject].op, Left, Right)
  /\ \E v \in make_const_bin_expr(heap[Subject].op, Left, Right) :
       heap' = [heap EXCEPT ![Subject] =
                  [@ EXCEPT !.kind = FoldedKind(Left, Right), !.kids = <<>>, !.val = v]]
  /\ work' = Tail(work)
  /\ UNCHANGED <<complaints, died>>

Fold_Fatal ==
  /\ Todo("fold") /\ BothNumbers /\ Fatal(heap[Subject].op, Left, Right)
  /\ Dies

KeepOperator ==
  /\ Todo("fold") /\ ~BothNumbers
  /\ work' = Tail(work)
  /\ UNCHANGED <<heap, complaints, died>>

-----------------------------------------------------------------------------
OptimizerIdle == heap = <<>> /\ work = <<>> /\ complaints = <<>> /\ died = FALSE

optimize(module) ==
  /\ heap' = module.nodes
  /\ work' = Tasks("visit", module.tree)
  /\ UNCHANGED <<complaints, died>>

OptimizerStep ==
  \/ handle_node
  \/ handle_node_Null
  \/ CheckConstant
  \/ Fold
  \/ Fold_Fatal
  \/ KeepOperator

-----------------------------------------------------------------------------
(* Parts of the properties *)

(* What the virtual machine computes of two integers (vm.c).  <<>> where   *)
(* nothing is claimed: of powers and `/`, of divisions with negative       *)
(* operands or by zero, and of a quotient that a double cannot hold, which *)
(* the optimizer rounds and the machine does not.                          *)
VMArithmetic(op, a, b) ==
  CASE op = "+" -> <<Signed(a + b)>>
    [] op = "-" -> <<Signed(a - b)>>
    [] op = "*" -> <<Signed(a * b)>>
    [] op = "//" /\ a >= 0 /\ b > 0 /\ a \div b \in Doubles -> <<a \div b>>
    [] op = "%" /\ a >= 0 /\ b > 0 -> <<a % b>>
    [] OTHER -> <<>>

(* Whether a node is a number literal or an operator of such, however      *)
(* nested, and the integer it is to the machine if one is claimed.  Both   *)
(* kinds of literals are integers to it.                                   *)
NodeMeaning(node, meaning) ==
  CASE node.kind \in {"ExpressionNat", "ExpressionInt"} ->
         [constant |-> TRUE, value |-> <<Signed(node.val)>>]
    [] node.kind \in RealKinds -> [constant |-> TRUE, value |-> <<>>]
    [] node.kind = "ExpressionBinaryOp" ->
         LET a == meaning[node.kids[1]]
             b == meaning[node.kids[2]]
         IN  [constant |-> a.constant /\ b.constant,
              value |-> IF a.value = <<>> \/ b.value = <<>> THEN <<>>
                        ELSE VMArithmetic(node.op, a.value[1], b.value[1])]
    [] OTHER -> [constant |-> FALSE, value |-> <<>>]

Meaning(ns) ==
  LET meaning[n \in DOMAIN ns] == NodeMeaning(ns[n], meaning)
  IN  meaning

(* The operators of number literals, in `literals` what they were folded   *)
(* to, that are not to be folded.                                          *)
Deadly(ns, literals) ==
  {n \in DOMAIN ns :
     /\ ns[n].kind = "ExpressionBinaryOp" /\ Meaning(ns)[n].constant
     /\ LET l == literals[ns[n].kids[1]]
            r == literals[ns[n].kids[2]]
        IN  {l.kind, r.kind} \subseteq NumberKinds /\ Fatal(ns[n].op, l, r)}

(* The nodes of a module that some statement needs: all but what a return  *)
(* has for a continuation.                                                 *)
Reached(module) ==
  LET ns == module.nodes
      reached[n \in 0 .. Len(ns)] ==
        \/ n \in {module.tree[i] : i \in DOMAIN module.tree}
        \/ \E m \in n + 1 .. Len(ns) :
             /\ reached[m]
             /\ \E i \in DOMAIN ns[m].kids :
                  ns[m].kids[i] = n /\ ~(ns[m].kind = "StatementReturn" /\ i = 1)
  IN  {n \in 0 .. Len(ns) : reached[n]}
===============================================================================
