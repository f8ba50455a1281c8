------------------------------- MODULE SyntaxTree -------------------------------
(***************************************************************************)
(* The nodes of the syntax tree (include/silk/language/syntax_tree.h):     *)
(* which children a node of each kind has and which of them may be null.   *)
(* A node is a position in a sequence of records; a smaller position is an *)
(* older node.  Null is position 0.                                        *)
(***************************************************************************)
EXTENDS Naturals, Sequences

CONSTANT Width     \* the bits of an integer, 64

ASSUME WidthAssumption == Width \in Nat \ {0}

Null == 0
Modulus == 2 ^ Width

(* What follows of a power of two: proofs cannot look into ^.              *)
ASSUME ModulusAssumption == Modulus \in Nat /\ Modulus >= 2 /\ Modulus % 2 = 0

(* Without children: what they hold are names, types and literals.         *)
Leaf ==
  {"ModuleMain", "ModuleDeclaration", "ModuleImport", "DeclarationEnum", "DeclarationObject",
   "DeclarationExternFunction", "DeclarationMacro", "StatementEmpty", "StatementSwitch",
   "StatementIterationControl", "StatementMatch", "ExpressionIdentifier", "ExpressionVoid",
   "ExpressionContinuation", "ExpressionBool", "ExpressionNat", "ExpressionInt",
   "ExpressionReal", "ExpressionRealKeyword", "ExpressionChar", "ExpressionString"}

(* A std::unique_ptr for each child. *)
Arity ==
  [DeclarationFunction |-> 1, StatementExpression |-> 1, StatementVariable |-> 1,
   StatementConstant |-> 1, StatementReturn |-> 2, StatementIf |-> 3, StatementWhile |-> 2,
   StatementLoop |-> 1, StatementFor |-> 4, StatementForeach |-> 2, ExpressionUnaryOp |-> 1,
   ExpressionBinaryOp |-> 2, ExpressionRange |-> 2, ExpressionAssignment |-> 2,
   ExpressionLambda |-> 1]

(* A vector of nodes; a circuit has its default before it and a call its   *)
(* callee, a dictionary has pairs.                                         *)
Vector ==
  {"DeclarationExternLibrary", "StatementBlock", "StatementCircuit", "ExpressionTuple",
   "ExpressionVector", "ExpressionArray", "ExpressionDictionary", "ExpressionCall"}

Kind == Leaf \cup DOMAIN Arity \cup Vector

(* The children that may be null: position i of a node of kind k.          *)
MayBeNull(k, i) ==
  \/ k = "StatementReturn"
  \/ k = "StatementIf" /\ i = 3
  \/ k = "StatementCircuit" /\ i = 1

NumberOfChildren(k, n) ==
  /\ k \in Leaf => n = 0
  /\ k \in DOMAIN Arity => n = Arity[k]
  /\ k \in {"StatementCircuit", "ExpressionCall"} => n >= 1
  /\ k = "ExpressionDictionary" => n % 2 = 0
  /\ k = "ExpressionTuple" => n # 1

(* A well-formed node among those made before it. *)
WellFormed(node, older) ==
  /\ NumberOfChildren(node.kind, Len(node.kids))
  /\ \A i \in DOMAIN node.kids :
       \/ node.kids[i] \in 1 .. older
       \/ node.kids[i] = Null /\ MayBeNull(node.kind, i)
===============================================================================
