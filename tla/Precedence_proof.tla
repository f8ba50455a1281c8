---------------------------- MODULE Precedence_proof ----------------------------
(***************************************************************************)
(* Proofs about Pipeline, for any package: that the tree the parser makes  *)
(* is the one the precedences of parser.h give.  An operand binds as       *)
(* strongly as the call of precendece that read it asks for, unless it is  *)
(* in brackets; and what stands in brackets was read by the row of a tuple *)
(* with that element alone.                                                *)
(***************************************************************************)
EXTENDS Tree_proof

-----------------------------------------------------------------------------
(* Precedences.                                                            *)

BinaryToken == InfixToken \ (Assigning \cup {"..", "("})

LEMMA PrecedenceFacts ==
  /\ DOMAIN Precedence = 1 .. 10
  /\ \A k \in InfixToken : PrecedenceOf(k) \in 1 .. 10
  /\ \A k \in Assigning \cup {".."} : k \in InfixToken /\ PrecedenceOf(k) = ASSIGNMENT
  /\ PrecedenceOf("(") = CALL /\ "(" \in InfixToken
  /\ \A k \in BinaryToken : k \in InfixToken /\ PrecedenceOf(k) \in 2 .. 10
<1>1. DOMAIN Precedence = 1 .. 10
  BY DEF Precedence
<1>2. /\ Precedence[1] = Assigning \cup {".."}
      /\ Precedence[2] = {"or"} /\ Precedence[3] = {"and"} /\ Precedence[4] = {"==", "!="}
      /\ Precedence[5] = {">", ">=", "<", "<="} /\ Precedence[6] = {"-", "+"}
      /\ Precedence[7] = {"*", "/", "//", "%"} /\ Precedence[8] = {"**", "|"}
      /\ Precedence[9] = {} /\ Precedence[10] = {".", "("}
  BY DEF Precedence
<1>3. \A k \in InfixToken : PrecedenceOf(k) \in 1 .. 10 /\ k \in Precedence[PrecedenceOf(k)]
  <2> SUFFICES ASSUME NEW k \in InfixToken
               PROVE  PrecedenceOf(k) \in 1 .. 10 /\ k \in Precedence[PrecedenceOf(k)]
    OBVIOUS
  <2>1. \E p \in DOMAIN Precedence : k \in Precedence[p]
    BY DEF InfixToken
  <2>2. PrecedenceOf(k) \in DOMAIN Precedence /\ k \in Precedence[PrecedenceOf(k)]
    BY <2>1 DEF PrecedenceOf
  <2> QED BY <1>1, <2>2
<1>4. \A k : (\E p \in 1 .. 10 : k \in Precedence[p]) => k \in InfixToken
  BY <1>1 DEF InfixToken
<1>5. ASSUME NEW k \in Assigning \cup {".."} PROVE k \in InfixToken /\ PrecedenceOf(k) = 1
  <2>1. k \in InfixToken
    BY <1>2, <1>4
  <2>2. \A p \in 1 .. 10 : k \in Precedence[p] => p = 1
    <3>1. k \in {"=", "+=", "-=", "*=", "**=", "/=", "//=", ".."}
      BY DEF Assigning
    <3> SUFFICES ASSUME NEW p \in 2 .. 10, k \in Precedence[p] PROVE FALSE
      OBVIOUS
    <3>2. p = 2 \/ p = 3 \/ p = 4 \/ p = 5 \/ p = 6 \/ p = 7 \/ p = 8 \/ p = 9 \/ p = 10
      OBVIOUS
    <3> QED BY <1>2, <3>1, <3>2
  <2> QED BY <1>3, <2>1, <2>2
<1>6. PrecedenceOf("(") = 10 /\ "(" \in InfixToken
  <2>1. "(" \in InfixToken
    BY <1>2, <1>4
  <2>2. \A p \in 1 .. 10 : "(" \in Precedence[p] => p = 10
    <3> SUFFICES ASSUME NEW p \in 1 .. 9, "(" \in Precedence[p] PROVE FALSE
      OBVIOUS
    <3>1. p = 1 \/ p = 2 \/ p = 3 \/ p = 4 \/ p = 5 \/ p = 6 \/ p = 7 \/ p = 8 \/ p = 9
      OBVIOUS
    <3> QED BY <1>2, <3>1 DEF Assigning
  <2> QED BY <1>3, <2>1, <2>2
<1>7. ASSUME NEW k \in BinaryToken PROVE k \in InfixToken /\ PrecedenceOf(k) \in 2 .. 10
  <2>1. k \in InfixToken /\ k \notin Precedence[1]
    BY <1>2 DEF BinaryToken
  <2> QED BY <1>3, <2>1
<1> QED BY <1>1, <1>3, <1>5, <1>6, <1>7 DEF ASSIGNMENT, CALL

-----------------------------------------------------------------------------
(* How strongly operands bind.                                             *)

(* The brackets of x are among the tokens ts. *)
InGroup(x, ts) ==
  /\ x.lo > 1 /\ ts[x.lo - 1].kind = "("
  /\ \/ ts[x.hi].kind = ")"
     \/ ts[x.hi].kind = "," /\ x.hi < Len(ts) /\ ts[x.hi + 1].kind = ")"

(* x may be an operand where precendece is called for p. *)
Binds(x, p, ts) == p <= Strength(x) \/ InGroup(x, ts)

(* The child i of kids is there and binds at least at p. *)
OperandBinds(kids, i, p, made, ts) ==
  i \in DOMAIN kids /\ kids[i] \in DOMAIN made /\ Binds(made[kids[i]], p, ts)

(* What PrecedenceRespected asks of x, by the tokens read so far. *)
Fits(x, made, ts) ==
  /\ x.kind = "ExpressionBinaryOp" =>
       /\ x.op \in BinaryToken
       /\ OperandBinds(x.kids, 1, PrecedenceOf(x.op), made, ts)
       /\ OperandBinds(x.kids, 2, PrecedenceOf(x.op) + 1, made, ts)
  /\ x.kind \in {"ExpressionRange", "ExpressionAssignment"} =>
       OperandBinds(x.kids, 1, ASSIGNMENT + 1, made, ts)
  /\ x.kind = "ExpressionCall" => OperandBinds(x.kids, 1, CALL, made, ts)
  /\ x.kind = "ExpressionUnaryOp" => OperandBinds(x.kids, 1, UNARY, made, ts)

LEMMA StrengthFacts ==
  /\ \A x : x.kind = "ExpressionBinaryOp" => Strength(x) = PrecedenceOf(x.op)
  /\ \A x : x.kind \in {"ExpressionRange", "ExpressionAssignment"} => Strength(x) = ASSIGNMENT
  /\ \A x : x.kind = "ExpressionCall" => Strength(x) = CALL
  /\ \A x : x.kind \notin Operations \ {"ExpressionUnaryOp"} => Strength(x) = Atom
  BY DEF Strength, Operations

LEMMA BindsMeans ==
  ASSUME NEW made, NEW next, NodesMade(made, next), next \in Nat, NEW x \in {made[n] : n \in DOMAIN made},
         Fits(x, made, tokens), NEW p \in Nat, p <= Atom, Binds(x, p, tokens)
  PROVE  Binding(x) \in Int /\ Binding(x) >= p
<1>1. CASE InGroup(x, tokens)
  <2>1. Grouped(x)
    BY <1>1 DEF InGroup, Grouped
  <2> QED BY <2>1 DEF Binding, Atom, NONE
<1>2. CASE p <= Strength(x)
  <2>1. Strength(x) \in 1 .. 11
    <3>1. CASE x.kind = "ExpressionBinaryOp"
      BY <3>1, StrengthFacts, PrecedenceFacts DEF Fits
    <3>2. CASE x.kind # "ExpressionBinaryOp"
      BY <3>2, StrengthFacts DEF Operations, Atom, NONE, CALL, ASSIGNMENT
    <3> QED BY <3>1, <3>2
  <2> QED BY <1>2, <2>1 DEF Binding, Atom, NONE
<1> QED BY <1>1, <1>2 DEF Binds

(* If all operands fit, the precedences are respected. *)
LEMMA PrecedencesHold ==
  ASSUME NodesMade(nodes, Len(tokens)), Len(tokens) \in Nat,
         \A n \in DOMAIN nodes : Fits(nodes[n], nodes, tokens)
  PROVE  PrecedenceRespected
<1> SUFFICES ASSUME NEW n \in DOMAIN nodes
             PROVE  LET node == nodes[n]
                        Operand_(i) == Binding(nodes[node.kids[i]])
                    IN  /\ node.kind = "ExpressionBinaryOp" =>
                             Operand_(1) >= PrecedenceOf(node.op) /\ Operand_(2) > PrecedenceOf(node.op)
                        /\ node.kind \in {"ExpressionRange", "ExpressionAssignment"} => Operand_(1) > ASSIGNMENT
                        /\ node.kind = "ExpressionCall" => Operand_(1) >= CALL
                        /\ node.kind = "ExpressionUnaryOp" => Operand_(1) >= UNARY
  BY DEF PrecedenceRespected
<1> DEFINE x == nodes[n]
           B(i) == Binding(nodes[x.kids[i]])
<1>1. ASSUME NEW i, NEW p \in Nat, p <= 11, OperandBinds(x.kids, i, p, nodes, tokens)
      PROVE  B(i) \in Int /\ B(i) >= p
  <2>1. x.kids[i] \in DOMAIN nodes /\ Binds(nodes[x.kids[i]], p, tokens)
    BY <1>1 DEF OperandBinds
  <2> QED BY <1>1, <2>1, BindsMeans DEF Atom, NONE
<1>2. Fits(x, nodes, tokens)
  OBVIOUS
<1> HIDE DEF B, x
<1>4. x.kind = "ExpressionBinaryOp" => B(1) >= PrecedenceOf(x.op) /\ B(2) > PrecedenceOf(x.op)
  BY <1>1, <1>2, PrecedenceFacts DEF Fits
<1>5. x.kind \in {"ExpressionRange", "ExpressionAssignment"} => B(1) > ASSIGNMENT
  BY <1>1, <1>2 DEF Fits, ASSIGNMENT
<1>6. x.kind = "ExpressionCall" => B(1) >= CALL
  BY <1>1, <1>2 DEF Fits, CALL
<1>7. x.kind = "ExpressionUnaryOp" => B(1) >= UNARY
  BY <1>1, <1>2 DEF Fits, UNARY
<1> QED BY <1>4, <1>5, <1>6, <1>7 DEF B, x

(* Nodes and tokens are only added. *)
Later(made, ts, made2, ts2) ==
  /\ NodesMade(made, Len(ts)) /\ IsSeq(ts)
  /\ Extends(made, made2) /\ Extends(ts, ts2)

LEMMA LaterFacts ==
  ASSUME NEW made, NEW ts, NEW made2, NEW ts2, Later(made, ts, made2, ts2)
  PROVE  /\ Len(ts) \in Nat /\ DOMAIN ts = 1 .. Len(ts) /\ Len(ts2) \in Nat /\ Len(ts) <= Len(ts2)
         /\ \A i \in 1 .. Len(ts) : ts2[i] = ts[i]
         /\ \A n \in DOMAIN made : n \in DOMAIN made2 /\ made2[n] = made[n]
         /\ \A n \in DOMAIN made :
              made[n].lo \in 1 .. Len(ts) /\ made[n].hi \in 1 .. Len(ts)
<1>1. Len(ts) \in Nat /\ DOMAIN ts = 1 .. Len(ts) /\ Len(ts2) \in Nat
  BY IsSeqFacts DEF Later, Extends
<1>2. \A n \in DOMAIN made : made[n].lo \in 1 .. Len(ts) /\ made[n].hi \in made[n].lo .. Len(ts)
  BY <1>1, NodeSpans DEF Later
<1>3. \A n \in DOMAIN made : made[n].lo \in 1 .. Len(ts) /\ made[n].hi \in 1 .. Len(ts)
  BY <1>1, <1>2
<1> QED BY <1>1, <1>3 DEF Later, Extends

LEMMA InGroupStays ==
  ASSUME NEW made, NEW ts, NEW made2, NEW ts2, Later(made, ts, made2, ts2),
         NEW n \in DOMAIN made, InGroup(made[n], ts)
  PROVE  InGroup(made2[n], ts2)
<1>1. /\ Len(ts) \in Nat /\ Len(ts2) \in Nat /\ Len(ts) <= Len(ts2)
      /\ \A i \in 1 .. Len(ts) : ts2[i] = ts[i]
      /\ made2[n] = made[n] /\ made[n].lo \in 1 .. Len(ts) /\ made[n].hi \in 1 .. Len(ts)
  BY LaterFacts
<1>2. made[n].lo > 1 /\ ts[made[n].lo - 1].kind = "("
  BY DEF InGroup
<1>4. made[n].lo - 1 \in 1 .. Len(ts)
  BY <1>1, <1>2
<1>3. made[n].hi < Len(ts) => made[n].hi + 1 \in 1 .. Len(ts) /\ made[n].hi < Len(ts2)
  BY <1>1
<1> QED BY <1>1, <1>2, <1>3, <1>4 DEF InGroup

LEMMA BindsStays ==
  ASSUME NEW made, NEW ts, NEW made2, NEW ts2, Later(made, ts, made2, ts2),
         NEW kids, NEW i, NEW p, OperandBinds(kids, i, p, made, ts)
  PROVE  OperandBinds(kids, i, p, made2, ts2)
<1>1. kids[i] \in DOMAIN made2 /\ made2[kids[i]] = made[kids[i]]
  BY LaterFacts DEF OperandBinds
<1> QED BY <1>1, InGroupStays DEF OperandBinds, Binds

LEMMA FitsStays ==
  ASSUME NEW made, NEW ts, NEW made2, NEW ts2, Later(made, ts, made2, ts2),
         NEW x, Fits(x, made, ts)
  PROVE  Fits(x, made2, ts2)
BY BindsStays DEF Fits

-----------------------------------------------------------------------------
(* The rows with operands, item by item: a prefix, an infix operator, an   *)
(* assignment or a range, a list of arguments or of the elements of a      *)
(* tuple.                                                                  *)

Row1(a) == <<a>>
Row2(a, b) == <<a, b>>
Row3(a, b, c) == <<a, b, c>>
Row4(a, b, c, d) == <<a, b, c, d>>

UnaryNode == Node("ExpressionUnaryOp")
BinaryNode == Node("ExpressionBinaryOp")
AssignNodes == {Node("ExpressionRange"), Node("ExpressionAssignment")}
CallNode == Node("ExpressionCall")

Comma == Delim(")", ",")
Opening(z) == Row3(Must("("), List(")"), z)
Listing(z) == Row2(List(")"), z)
Element(z) == Row4(Expression, Comma, List(")"), z)
Entering(z) == Row4(Prec(ASSIGNMENT), Comma, List(")"), z)
Parted(z) == Row3(Comma, List(")"), z)
Parting(z) == Row3(Must(","), List(")"), z)
Closing(z) == Row1(z)

(* A row that ends with making an atom. *)
AtomRow(r) == IsRow(r) /\ r # <<>> /\ r[Len(r)].do = "node"

NextKind(ts) == ts[Len(ts)].kind
(* A loop at p takes no further operator. *)
Stops(p, ts) == NextKind(ts) \in InfixToken => PrecedenceOf(NextKind(ts)) < p

(* The node from a token on, up to the next one or in brackets. *)
Placed(x, from, ts) == (x.lo = from /\ x.hi = Len(ts)) \/ InGroup(x, ts)

(* What a call of precendece for p has when it comes to its loop: the next *)
(* operator may take it for an operand.                                    *)
Result(kids, from, p, made, ts) ==
  /\ Len(kids) = 1 /\ IsSeq(kids)
  /\ OperandBinds(kids, 1, p, made, ts) /\ Placed(made[kids[1]], from, ts)
  /\ NextKind(ts) \in InfixToken =>
       /\ OperandBinds(kids, 1, ASSIGNMENT + 1, made, ts)
       /\ OperandBinds(kids, 1, PrecedenceOf(NextKind(ts)), made, ts)

(* Operators *)

(* The loop at p took the left operand of op. *)
LeftOf(f, op, p, made, ts) ==
  /\ op \in BinaryToken /\ p <= PrecedenceOf(op) /\ Len(f.kids) = 1
  /\ OperandBinds(f.kids, 1, PrecedenceOf(op), made, ts)

UnaryActs(f, made, ts) ==
  \/ f.todo \in {Row3(OneOf({"not", "-"}), Prec(UNARY), UnaryNode), Row2(Prec(UNARY), UnaryNode)} /\ f.kids = <<>>
  \/ f.todo = Row1(UnaryNode) /\ OperandBinds(f.kids, 1, UNARY, made, ts)

BinaryActs(f, p, made, ts) ==
  \/ f.todo = Row3(Keep, Above, BinaryNode) /\ LeftOf(f, NextKind(ts), p, made, ts)
  \/ f.todo = Row2(Above, BinaryNode) /\ LeftOf(f, f.op, p, made, ts)
  \/ LeftOf(f, f.op, p, made, ts) /\ f.todo = Row2(Prec(PrecedenceOf(f.op) + 1), BinaryNode)
  \/ /\ f.todo = Row1(BinaryNode) /\ f.op \in BinaryToken /\ p <= PrecedenceOf(f.op)
     /\ OperandBinds(f.kids, 1, PrecedenceOf(f.op), made, ts)
     /\ OperandBinds(f.kids, 2, PrecedenceOf(f.op) + 1, made, ts)
     /\ Stops(PrecedenceOf(f.op) + 1, ts)

AssignActs(f, p, made, ts) ==
  /\ p = ASSIGNMENT /\ OperandBinds(f.kids, 1, ASSIGNMENT + 1, made, ts)
  /\ \E z \in AssignNodes :
       \/ \E x \in {Must(".."), OneOf(Assigning)} : f.todo = Row3(x, Expression, z)
       \/ f.todo \in {Row2(Expression, z), Row2(Prec(ASSIGNMENT), z)}
       \/ f.todo = Row1(z) /\ Stops(ASSIGNMENT, ts)

CallActs(f, p, made, ts) ==
  /\ p <= CALL /\ OperandBinds(f.kids, 1, CALL, made, ts)
  /\ f.todo \in {Opening(CallNode), Listing(CallNode), Element(CallNode), Entering(CallNode), Parted(CallNode),
                 Parting(CallNode), Closing(CallNode)}

(* Tuples *)

(* The first element. *)
First(f, made) == made[f.kids[1]]

Opened(f, ts) == f.first \in DOMAIN ts /\ ts[f.first].kind = "("

(* The element ends where the next token is. *)
Ending(f, made, ts) ==
  /\ Len(f.kids) # 0
  /\ Len(f.kids) = 1 =>
       /\ f.kids[1] \in DOMAIN made
       /\ InGroup(First(f, made), ts)
          \/ (First(f, made).lo = f.first + 1 /\ First(f, made).hi = Len(ts))

(* It ended, at a bracket or before the comma. *)
BetweenElements(f, made, ts) ==
  /\ Len(f.kids) = 0 => Len(ts) = f.first + 1
  /\ Len(f.kids) = 1 =>
       /\ f.kids[1] \in DOMAIN made
       /\ \/ InGroup(First(f, made), ts)
          \/ /\ First(f, made).lo = f.first + 1
             /\ \/ First(f, made).hi = Len(ts) /\ NextKind(ts) = ")"
                \/ First(f, made).hi + 1 = Len(ts) /\ ts[First(f, made).hi].kind = ","

TupleActs(f, made, ts) ==
  \/ f.todo = Opening(Single) /\ f.kids = <<>> /\ f.first = Len(ts)
  \/ f.todo = Listing(Single) /\ Opened(f, ts) /\ BetweenElements(f, made, ts)
  \/ /\ f.todo \in {Element(Single), Entering(Single)} /\ Opened(f, ts)
     /\ Len(f.kids) = 0 => Len(ts) = f.first + 1
  \/ f.todo \in {Parted(Single), Parting(Single)} /\ Opened(f, ts) /\ Ending(f, made, ts)
  \/ /\ f.todo = Closing(Single)
     /\ Len(f.kids) = 1 => f.kids[1] \in DOMAIN made /\ InGroup(First(f, made), ts)

-----------------------------------------------------------------------------
(* The innermost frame f above the frame e, and the others.                *)

(* The rows that the loop at p calls. *)
OperandActs(f, p, made, ts) ==
  \/ AtomRow(f.todo)
  \/ f.todo = <<>> /\ Result(f.kids, f.first, p, made, ts)
  \/ UnaryActs(f, made, ts)
  \/ BinaryActs(f, p, made, ts)
  \/ AssignActs(f, p, made, ts)
  \/ CallActs(f, p, made, ts)
  \/ TupleActs(f, made, ts)

OperandWaits(f, p, made, ts) ==
  \/ AtomRow(f.todo)
  \/ f.todo = Row1(UnaryNode) /\ f.kids = <<>>
  \/ f.todo = Row1(BinaryNode) /\ LeftOf(f, f.op, p, made, ts)
  \/ (\E z \in AssignNodes : f.todo = Row1(z)) /\ p = ASSIGNMENT /\ OperandBinds(f.kids, 1, ASSIGNMENT + 1, made, ts)
  \/ f.todo = Parted(CallNode) /\ p <= CALL /\ OperandBinds(f.kids, 1, CALL, made, ts)
  \/ f.todo = Parted(Single) /\ Opened(f, ts)

(* The call of precendece for p has an operand. *)
LoopActs(f, p, made, ts) ==
  /\ Result(f.kids, f.first, p, made, ts)
  /\ f.todo = Row1(Infix(p)) \/ (f.todo = <<>> /\ Stops(p, ts))

(* For which precedence a frame calls precendece. *)
Level(f) ==
  IF f.todo = Row1(UnaryNode) THEN UNARY
  ELSE IF f.todo = Row1(BinaryNode) THEN PrecedenceOf(f.op) + 1
  ELSE ASSIGNMENT

(* The frame e waits for an operand, which the call of precendece f reads; *)
(* the first element of a tuple begins behind the bracket.                 *)
Asks(e, f) ==
  /\ e.todo # <<>> => Head(e.todo).do # "infix"
  /\ Level(e) \in 1 .. NONE
  /\ e.todo = Parted(Single) /\ Len(e.kids) = 0 => f.first = e.first + 1

(* f is at a prefix or an infix operator for the loop e, or is itself a    *)
(* loop, or neither has to do with operands.                               *)
LinkActs(e, f, made, ts) ==
  \/ \E p \in 1 .. NONE : e.todo = Row1(Infix(p)) /\ f.first = e.first /\ OperandActs(f, p, made, ts)
  \/ Asks(e, f) /\ LoopActs(f, Level(e), made, ts)
  \/ IsRow(e.todo) /\ IsRow(f.todo)

LinkWaits(e, f, made, ts) ==
  \/ \E p \in 1 .. NONE : e.todo = Row1(Infix(p)) /\ f.first = e.first /\ OperandWaits(f, p, made, ts)
  \/ Asks(e, f) /\ f.todo = Row1(Infix(Level(e))) /\ f.kids = <<>>
  \/ IsRow(e.todo) /\ IsRow(f.todo)

(* A frame that stands below the outermost one. *)
Root == [todo |-> <<>>, kids |-> <<>>, first |-> 0, op |-> ""]
Below(r, i) == IF i = 1 THEN Root ELSE r[i - 1]
LastOf(r) == IF r = <<>> THEN Root ELSE r[Len(r)]

(* Every frame of r waits, above the one below it. *)
Linked(r, made, ts) == IsSeq(r) /\ \A i \in DOMAIN r : LinkWaits(Below(r, i), r[i], made, ts)

(* Every node made has operands that bind as it asks for, and so will what *)
(* the calls under way make.                                               *)
PrecedenceInv ==
  /\ \A n \in DOMAIN nodes : Fits(nodes[n], nodes, tokens)
  /\ stack # <<>> =>
       \E r, f : /\ stack = Append(r, f) /\ Linked(r, nodes, tokens)
                 /\ LinkActs(LastOf(r), f, nodes, tokens)

-----------------------------------------------------------------------------
(* Rows of known length                                                    *)

LEMMA SameSeqs ==
  ASSUME NEW s, IsSeq(s), NEW t, IsSeq(t), Len(s) = Len(t), \A i \in 1 .. Len(s) : s[i] = t[i]
  PROVE  s = t
<1>1. PICK S, T : s \in Seq(S) /\ t \in Seq(T)
  BY DEF IsSeq
<1>2. s \in [1 .. Len(s) -> S] /\ t \in [1 .. Len(t) -> T]
  BY <1>1
<1> QED BY <1>2

(* z is what s and t join to. *)
AreParts(s, t, z) ==
  /\ IsSeq(s) /\ IsSeq(t) /\ IsSeq(z) /\ Len(z) = Len(s) + Len(t)
  /\ \A i \in 1 .. Len(s) : z[i] = s[i]
  /\ \A i \in 1 .. Len(t) : z[Len(s) + i] = t[i]

LEMMA JoinIs == ASSUME NEW s, NEW t, NEW z, AreParts(s, t, z) PROVE s \o t = z
<1> USE DEF AreParts
<1> DEFINE x == s \o t
<1>1. /\ IsSeq(x) /\ Len(x) = Len(s) + Len(t) /\ \A i \in 1 .. Len(s) : x[i] = s[i]
      /\ \A i \in 1 .. Len(t) : x[Len(s) + i] = t[i]
  BY ConcatFacts
<1> HIDE DEF x
<1>2. Len(s) \in Nat /\ Len(t) \in Nat
  BY IsSeqFacts
<1>3. ASSUME NEW i \in 1 .. Len(x) PROVE x[i] = z[i]
  <2>1. CASE i <= Len(s)
    BY <1>1, <1>2, <2>1
  <2>2. CASE i > Len(s)
    <3>1. i - Len(s) \in 1 .. Len(t) /\ i = Len(s) + (i - Len(s))
      BY <1>1, <1>2, <2>2
    <3>2. x[Len(s) + (i - Len(s))] = z[Len(s) + (i - Len(s))]
      BY <1>1, <3>1
    <3> QED BY <3>1, <3>2
  <2> QED BY <1>1, <1>2, <2>1, <2>2
<1>4. x = z
  BY <1>1, <1>3, SameSeqs
<1> QED BY <1>4 DEF x

LEMMA NothingJoins == ASSUME NEW t, IsSeq(t) PROVE <<>> \o t = t
<1>1. PICK S : t \in Seq(S)
  BY DEF IsSeq
<1> QED BY <1>1

LEMMA TuplesAreSeqs ==
  ASSUME NEW a, NEW b, NEW c, NEW d
  PROVE  IsSeq(<<>>) /\ IsSeq(<<a>>) /\ IsSeq(<<a, b>>) /\ IsSeq(<<a, b, c>>) /\ IsSeq(<<a, b, c, d>>)
BY DEF IsSeq

LEMMA RowsJoined ==
  ASSUME NEW a, NEW b, NEW c, NEW d
  PROVE  /\ Row1(a) \o Row1(b) = Row2(a, b)
         /\ Row1(a) \o Row2(b, c) = Row3(a, b, c) /\ Row2(a, b) \o Row1(c) = Row3(a, b, c)
         /\ Row1(a) \o Row3(b, c, d) = Row4(a, b, c, d) /\ Row3(a, b, c) \o Row1(d) = Row4(a, b, c, d)
<1>1. Row1(a) \o Row1(b) = Row2(a, b)
  <2> DEFINE x == Row1(a)
             y == Row1(b)
             z == Row2(a, b)
  <2>1. IsSeq(x) /\ IsSeq(y) /\ IsSeq(z) /\ Len(x) = 1 /\ Len(y) = 1 /\ Len(z) = 2
    BY TuplesAreSeqs DEF Row1, Row2
  <2>2. x[1] = z[1] /\ y[1] = z[2]
    BY DEF Row1, Row2
  <2> HIDE DEF x, y, z
  <2>3. (\A i \in 1 .. 1 : i = 1) /\ (\A i \in 1 .. 1 : i = 1)
    OBVIOUS
  <2>4. \A i \in 1 .. Len(x) : z[i] = x[i]
    BY <2>1, <2>2, <2>3
  <2>5. \A i \in 1 .. Len(y) : z[Len(x) + i] = y[i]
    BY <2>1, <2>2, <2>3
  <2>6. Len(z) = Len(x) + Len(y)
    BY <2>1
  <2>7. AreParts(x, y, z)
    BY <2>1, <2>4, <2>5, <2>6 DEF AreParts
  <2> QED BY <2>7, JoinIs DEF x, y, z
<1>2. Row1(a) \o Row2(b, c) = Row3(a, b, c)
  <2> DEFINE x == Row1(a)
             y == Row2(b, c)
             z == Row3(a, b, c)
  <2>1. IsSeq(x) /\ IsSeq(y) /\ IsSeq(z) /\ Len(x) = 1 /\ Len(y) = 2 /\ Len(z) = 3
    BY TuplesAreSeqs DEF Row1, Row2, Row3
  <2>2. x[1] = z[1] /\ y[1] = z[2] /\ y[2] = z[3]
    BY DEF Row1, Row2, Row3
  <2> HIDE DEF x, y, z
  <2>3. (\A i \in 1 .. 1 : i = 1) /\ (\A i \in 1 .. 2 : i = 1 \/ i = 2)
    OBVIOUS
  <2>4. \A i \in 1 .. Len(x) : z[i] = x[i]
    BY <2>1, <2>2, <2>3
  <2>5. \A i \in 1 .. Len(y) : z[Len(x) + i] = y[i]
    BY <2>1, <2>2, <2>3
  <2>6. Len(z) = Len(x) + Len(y)
    BY <2>1
  <2>7. AreParts(x, y, z)
    BY <2>1, <2>4, <2>5, <2>6 DEF AreParts
  <2> QED BY <2>7, JoinIs DEF x, y, z
<1>3. Row2(a, b) \o Row1(c) = Row3(a, b, c)
  <2> DEFINE x == Row2(a, b)
             y == Row1(c)
             z == Row3(a, b, c)
  <2>1. IsSeq(x) /\ IsSeq(y) /\ IsSeq(z) /\ Len(x) = 2 /\ Len(y) = 1 /\ Len(z) = 3
    BY TuplesAreSeqs DEF Row1, Row2, Row3
  <2>2. x[1] = z[1] /\ x[2] = z[2] /\ y[1] = z[3]
    BY DEF Row1, Row2, Row3
  <2> HIDE DEF x, y, z
  <2>3. (\A i \in 1 .. 2 : i = 1 \/ i = 2) /\ (\A i \in 1 .. 1 : i = 1)
    OBVIOUS
  <2>4. \A i \in 1 .. Len(x) : z[i] = x[i]
    BY <2>1, <2>2, <2>3
  <2>5. \A i \in 1 .. Len(y) : z[Len(x) + i] = y[i]
    BY <2>1, <2>2, <2>3
  <2>6. Len(z) = Len(x) + Len(y)
    BY <2>1
  <2>7. AreParts(x, y, z)
    BY <2>1, <2>4, <2>5, <2>6 DEF AreParts
  <2> QED BY <2>7, JoinIs DEF x, y, z
<1>4. Row1(a) \o Row3(b, c, d) = Row4(a, b, c, d)
  <2> DEFINE x == Row1(a)
             y == Row3(b, c, d)
             z == Row4(a, b, c, d)
  <2>1. IsSeq(x) /\ IsSeq(y) /\ IsSeq(z) /\ Len(x) = 1 /\ Len(y) = 3 /\ Len(z) = 4
    BY TuplesAreSeqs DEF Row1, Row3, Row4
  <2>2. x[1] = z[1] /\ y[1] = z[2] /\ y[2] = z[3] /\ y[3] = z[4]
    BY DEF Row1, Row3, Row4
  <2> HIDE DEF x, y, z
  <2>3. (\A i \in 1 .. 1 : i = 1) /\ (\A i \in 1 .. 3 : i = 1 \/ i = 2 \/ i = 3)
    OBVIOUS
  <2>4. \A i \in 1 .. Len(x) : z[i] = x[i]
    BY <2>1, <2>2, <2>3
  <2>5. \A i \in 1 .. Len(y) : z[Len(x) + i] = y[i]
    BY <2>1, <2>2, <2>3
  <2>6. Len(z) = Len(x) + Len(y)
    BY <2>1
  <2>7. AreParts(x, y, z)
    BY <2>1, <2>4, <2>5, <2>6 DEF AreParts
  <2> QED BY <2>7, JoinIs DEF x, y, z
<1>5. Row3(a, b, c) \o Row1(d) = Row4(a, b, c, d)
  <2> DEFINE x == Row3(a, b, c)
             y == Row1(d)
             z == Row4(a, b, c, d)
  <2>1. IsSeq(x) /\ IsSeq(y) /\ IsSeq(z) /\ Len(x) = 3 /\ Len(y) = 1 /\ Len(z) = 4
    BY TuplesAreSeqs DEF Row1, Row3, Row4
  <2>2. x[1] = z[1] /\ x[2] = z[2] /\ x[3] = z[3] /\ y[1] = z[4]
    BY DEF Row1, Row3, Row4
  <2> HIDE DEF x, y, z
  <2>3. (\A i \in 1 .. 3 : i = 1 \/ i = 2 \/ i = 3) /\ (\A i \in 1 .. 1 : i = 1)
    OBVIOUS
  <2>4. \A i \in 1 .. Len(x) : z[i] = x[i]
    BY <2>1, <2>2, <2>3
  <2>5. \A i \in 1 .. Len(y) : z[Len(x) + i] = y[i]
    BY <2>1, <2>2, <2>3
  <2>6. Len(z) = Len(x) + Len(y)
    BY <2>1
  <2>7. AreParts(x, y, z)
    BY <2>1, <2>4, <2>5, <2>6 DEF AreParts
  <2> QED BY <2>7, JoinIs DEF x, y, z
<1> QED BY <1>1, <1>2, <1>3, <1>4, <1>5

(* The rest of a row behind items for its first one. *)
After(items, r) == items \o Tail(r)

LEMMA RowFacts ==
  /\ \A a : Row1(a) # <<>> /\ Head(Row1(a)) = a /\ Tail(Row1(a)) = <<>>
  /\ \A a, b : Row2(a, b) # <<>> /\ Head(Row2(a, b)) = a /\ Tail(Row2(a, b)) = Row1(b)
  /\ \A a, b, c : Row3(a, b, c) # <<>> /\ Head(Row3(a, b, c)) = a /\ Tail(Row3(a, b, c)) = Row2(b, c)
  /\ \A a, b, c, d :
       /\ Row4(a, b, c, d) # <<>> /\ Head(Row4(a, b, c, d)) = a
       /\ Tail(Row4(a, b, c, d)) = Row3(b, c, d)
  BY DEF Row1, Row2, Row3, Row4

LEMMA AfterFacts ==
  /\ \A a : After(<<>>, Row1(a)) = <<>>
  /\ \A a, b : After(<<>>, Row2(a, b)) = Row1(b)
  /\ \A a, b, c : After(<<>>, Row3(a, b, c)) = Row2(b, c)
  /\ \A a, b, c, d : After(<<>>, Row4(a, b, c, d)) = Row3(b, c, d)
  /\ \A x, a, b : After(Row1(x), Row2(a, b)) = Row2(x, b)
  /\ \A x, a, b, c : After(Row1(x), Row3(a, b, c)) = Row3(x, b, c)
  /\ \A x, a, b, c, d : After(Row1(x), Row4(a, b, c, d)) = Row4(x, b, c, d)
  /\ \A x, y, a, b : After(Row3(x, y, a), Row2(a, b)) = Row4(x, y, a, b)
<1>1. ASSUME NEW a, NEW b, NEW c, NEW d
      PROVE  /\ After(<<>>, Row1(a)) = <<>> /\ After(<<>>, Row2(a, b)) = Row1(b)
             /\ After(<<>>, Row3(a, b, c)) = Row2(b, c) /\ After(<<>>, Row4(a, b, c, d)) = Row3(b, c, d)
  <2>1. IsSeq(<<>>) /\ IsSeq(Row1(b)) /\ IsSeq(Row2(b, c)) /\ IsSeq(Row3(b, c, d))
    BY TuplesAreSeqs DEF Row1, Row2, Row3
  <2>2. /\ <<>> \o <<>> = <<>> /\ <<>> \o Row1(b) = Row1(b)
        /\ <<>> \o Row2(b, c) = Row2(b, c) /\ <<>> \o Row3(b, c, d) = Row3(b, c, d)
    BY <2>1, NothingJoins
  <2>3. Tail(Row1(a)) = <<>> /\ Tail(Row2(a, b)) = Row1(b) /\ Tail(Row3(a, b, c)) = Row2(b, c)
        /\ Tail(Row4(a, b, c, d)) = Row3(b, c, d)
    BY RowFacts
  <2> QED BY <2>2, <2>3 DEF After
<1>2. ASSUME NEW x, NEW a, NEW b, NEW c, NEW d
      PROVE  /\ After(Row1(x), Row2(a, b)) = Row2(x, b) /\ After(Row1(x), Row3(a, b, c)) = Row3(x, b, c)
             /\ After(Row1(x), Row4(a, b, c, d)) = Row4(x, b, c, d)
  <2>1. /\ Tail(Row2(a, b)) = Row1(b) /\ Tail(Row3(a, b, c)) = Row2(b, c)
        /\ Tail(Row4(a, b, c, d)) = Row3(b, c, d)
    BY RowFacts
  <2>2. Row1(x) \o Row1(b) = Row2(x, b) /\ Row1(x) \o Row2(b, c) = Row3(x, b, c)
        /\ Row1(x) \o Row3(b, c, d) = Row4(x, b, c, d)
    BY RowsJoined
  <2> QED BY <2>1, <2>2 DEF After
<1>3. ASSUME NEW x, NEW y, NEW a, NEW b
      PROVE  After(Row3(x, y, a), Row2(a, b)) = Row4(x, y, a, b)
  <2>1. Tail(Row2(a, b)) = Row1(b)
    BY RowFacts
  <2>2. Row3(x, y, a) \o Row1(b) = Row4(x, y, a, b)
    BY RowsJoined
  <2> QED BY <2>1, <2>2 DEF After
<1>4. /\ \A a : After(<<>>, Row1(a)) = <<>>
      /\ \A a, b : After(<<>>, Row2(a, b)) = Row1(b)
      /\ \A a, b, c : After(<<>>, Row3(a, b, c)) = Row2(b, c)
      /\ \A a, b, c, d : After(<<>>, Row4(a, b, c, d)) = Row3(b, c, d)
  <2>1. \A a : After(<<>>, Row1(a)) = <<>>
    BY <1>1
  <2>2. \A a, b : After(<<>>, Row2(a, b)) = Row1(b)
    BY <1>1
  <2>3. \A a, b, c : After(<<>>, Row3(a, b, c)) = Row2(b, c)
    BY <1>1
  <2>4. \A a, b, c, d : After(<<>>, Row4(a, b, c, d)) = Row3(b, c, d)
    BY <1>1
  <2> QED BY <2>1, <2>2, <2>3, <2>4
<1>5. /\ \A x, a, b : After(Row1(x), Row2(a, b)) = Row2(x, b)
      /\ \A x, a, b, c : After(Row1(x), Row3(a, b, c)) = Row3(x, b, c)
      /\ \A x, a, b, c, d : After(Row1(x), Row4(a, b, c, d)) = Row4(x, b, c, d)
  BY <1>2
<1>6. \A x, y, a, b : After(Row3(x, y, a), Row2(a, b)) = Row4(x, y, a, b)
  BY <1>3
<1> QED BY <1>4, <1>5, <1>6

LEMMA WaitsStay ==
  ASSUME NEW made, NEW ts, NEW made2, NEW ts2, Later(made, ts, made2, ts2), NEW e, NEW f,
         LinkWaits(e, f, made, ts)
  PROVE  LinkWaits(e, f, made2, ts2)
<1>1. \A kids, i, p : OperandBinds(kids, i, p, made, ts) => OperandBinds(kids, i, p, made2, ts2)
  BY BindsStays
<1>2. Opened(f, ts) => Opened(f, ts2)
  BY LaterFacts DEF Opened
<1>3. \A p : LeftOf(f, f.op, p, made, ts) => LeftOf(f, f.op, p, made2, ts2)
  BY <1>1 DEF LeftOf
<1>4. \A p : OperandWaits(f, p, made, ts) => OperandWaits(f, p, made2, ts2)
  BY <1>1, <1>2, <1>3 DEF OperandWaits
<1> QED BY <1>4 DEF LinkWaits

LEMMA LinkedStays ==
  ASSUME NEW made, NEW ts, NEW made2, NEW ts2, Later(made, ts, made2, ts2), NEW r,
         Linked(r, made, ts)
  PROVE  Linked(r, made2, ts2)
BY WaitsStay DEF Linked

LEMMA LinkedMore ==
  ASSUME NEW made, NEW ts, NEW r, Linked(r, made, ts), NEW f, LinkWaits(LastOf(r), f, made, ts)
  PROVE  Linked(Append(r, f), made, ts) /\ LastOf(Append(r, f)) = f
<1> DEFINE s == Append(r, f)
           l == Len(r)
<1>1. l \in Nat /\ DOMAIN r = 1 .. l /\ IsSeq(r)
  BY IsSeqFacts DEF Linked
<1>2. /\ IsSeq(s) /\ Len(s) = l + 1 /\ DOMAIN s = 1 .. l + 1 /\ s[l + 1] = f
      /\ \A i \in 1 .. l : s[i] = r[i]
  BY <1>1, AppendFacts
<1>3. s # <<>>
  BY <1>1, StackShapes
<1> HIDE DEF s
<1>4. ASSUME NEW i \in 1 .. l + 1 PROVE LinkWaits(Below(s, i), s[i], made, ts)
  <2>1. CASE i = l + 1
    <3>1. CASE r = <<>>
      <4>1. l = 0
        BY <3>1
      <4> QED BY <1>2, <2>1, <3>1, <4>1 DEF Below, LastOf
    <3>2. CASE r # <<>>
      <4>1. l # 0
        BY <1>1, <3>2 DEF IsSeq
      <4>2. Below(s, i) = s[l] /\ s[l] = r[l] /\ LastOf(r) = r[l]
        BY <1>1, <1>2, <2>1, <3>2, <4>1 DEF Below, LastOf
      <4> QED BY <1>2, <2>1, <4>2
    <3> QED BY <3>1, <3>2
  <2>2. CASE i # l + 1
    <3>1. i \in 1 .. l /\ s[i] = r[i]
      BY <1>1, <1>2, <2>2
    <3>2. Below(s, i) = Below(r, i)
      <4>1. i # 1 => i - 1 \in 1 .. l
        BY <1>1, <3>1
      <4> QED BY <1>2, <4>1 DEF Below
    <3> QED BY <1>1, <3>1, <3>2 DEF Linked
  <2> QED BY <2>1, <2>2
<1>5. Linked(s, made, ts)
  BY <1>2, <1>4 DEF Linked
<1>6. LastOf(s) = f
  BY <1>2, <1>3 DEF LastOf
<1> QED BY <1>5, <1>6 DEF s

LEMMA LinkedLast ==
  ASSUME NEW made, NEW ts, NEW s, Linked(s, made, ts), s # <<>>
  PROVE  \E r, f : /\ s = Append(r, f) /\ Linked(r, made, ts) /\ f = LastOf(s)
                   /\ LinkWaits(LastOf(r), f, made, ts)
<1>1. PICK r : IsSeq(r) /\ s = Append(r, s[Len(s)])
  BY StackEnds DEF Linked
<1> DEFINE f == s[Len(s)]
           l == Len(r)
<1>2. l \in Nat /\ DOMAIN r = 1 .. l /\ Len(s) = l + 1 /\ DOMAIN s = 1 .. l + 1
      /\ \A i \in 1 .. l : s[i] = r[i]
  BY <1>1, IsSeqFacts, AppendFacts
<1>3. ASSUME NEW i \in 1 .. l PROVE LinkWaits(Below(r, i), r[i], made, ts)
  <2>1. i \in DOMAIN s /\ s[i] = r[i] /\ (i # 1 => i - 1 \in 1 .. l)
    BY <1>2
  <2>2. Below(s, i) = Below(r, i)
    BY <1>2, <2>1 DEF Below
  <2>3. LinkWaits(Below(s, i), s[i], made, ts)
    BY <2>1 DEF Linked
  <2> QED BY <2>1, <2>2, <2>3
<1>4. LinkWaits(LastOf(r), f, made, ts)
  <2>1. LinkWaits(Below(s, l + 1), f, made, ts) /\ f = s[l + 1]
    BY <1>2 DEF Linked
  <2>2. Below(s, l + 1) = LastOf(r)
    <3>1. CASE l = 0
      <4>1. r = <<>>
        BY <1>1, <3>1 DEF IsSeq
      <4> QED BY <3>1, <4>1 DEF Below, LastOf
    <3>2. CASE l # 0
      <4>1. r # <<>> /\ l \in 1 .. l /\ l + 1 # 1 /\ (l + 1) - 1 = l
        BY <1>2, <3>2
      <4> QED BY <1>2, <4>1 DEF Below, LastOf
    <3> QED BY <3>1, <3>2
  <2> QED BY <2>1, <2>2
<1>5. f = LastOf(s)
  BY DEF LastOf
<1>6. Linked(r, made, ts)
  BY <1>1, <1>2, <1>3 DEF Linked
<1> QED BY <1>1, <1>4, <1>5, <1>6

-----------------------------------------------------------------------------
(* The rows of calls                                                       *)

LEMMA CalledRows ==
  ASSUME NEW fn \in ItsRows, NEW k
  PROVE  IsRow(Row(fn, k))
<1>1. IsRow(statement(k))
  BY StatementRows DEF statement, DeclarationRow
<1>2. IsRow(statement_block)
  BY StatementRows DEF DeclarationRow
<1>3. IsRow(parse_function_body)
  <2>1. IsRow(<<NoNode, Expression, Node("StatementReturn")>>)
    BY PlainItems, RowOf3 DEF Operations
  <2>2. IsRow(<<Sub("statement_block")>>)
    BY PlainItems, OneItem
  <2>3. IsItem(Opt("=>", <<NoNode, Expression, Node("StatementReturn")>>, <<Sub("statement_block")>>))
    BY <2>1, <2>2, OptIsItem
  <2> QED BY <2>3, OneItem DEF parse_function_body
<1>4. IsRow(extern_function)
  <2> DEFINE h == parse_named_function_header
             s == <<Must(";"), Node("DeclarationExternFunction")>>
  <2>1. IsRow(h)
    BY PlainItems, ComposedItems, RowOf4 DEF parse_named_function_header
  <2>2. IsRow(s)
    BY PlainItems, RowOf2 DEF Operations
  <2> HIDE DEF h, s
  <2>3. IsRow(h \o s)
    BY <2>1, <2>2, JoinedRows
  <2> QED BY <2>3 DEF extern_function, h, s
<1> QED BY <1>1, <1>2, <1>3, <1>4 DEF ItsRows, Row

LEMMA ListItems == ASSUME NEW end PROVE IsItem(List(end))
<1>1. IsRow(<<Expression, Delim(end, ",")>>)
  BY PlainItems, RowOf2
<1> QED BY <1>1, LoopItem DEF List

(* Ends with making a node that is no operation. *)
LEMMA AtomRows ==
  /\ AtomRow(expression_literal) /\ AtomRow(expression_array) /\ AtomRow(expression_dictionary)
  /\ AtomRow(expression_vector) /\ AtomRow(expression_identifier) /\ AtomRow(expression_char)
  /\ AtomRow(expression_string) /\ AtomRow(expression_void) /\ AtomRow(expression_continuation)
  /\ AtomRow(expression_lambda)
<1>1. IsItem(Keep) /\ IsItem(Convert)
  BY FlatIsItem DEF Keep, Convert, Plain
<1>2. \A k : Node(k).do = "node"
  BY DEF Node
<1>3. AtomRow(expression_literal)
  BY <1>1, <1>2, PlainItems, RowOf3 DEF expression_literal, AtomRow, Operations
<1>4. AtomRow(expression_array)
  BY <1>2, PlainItems, ListItems, RowOf3 DEF expression_array, AtomRow, Operations
<1>5. AtomRow(expression_vector)
  BY <1>2, PlainItems, ListItems, RowOf3 DEF expression_vector, AtomRow, Operations
<1>6. AtomRow(expression_dictionary)
  <2> DEFINE pairs == Until("}", <<Expression, Must(":"), Expression, Delim("}", ",")>>)
  <2>1. IsRow(<<Expression, Must(":"), Expression, Delim("}", ",")>>)
    BY PlainItems, RowOf4
  <2>2. IsItem(pairs)
    BY <2>1, LoopItem
  <2>3. expression_dictionary = <<Must("#{"), pairs, Node("ExpressionDictionary")>>
    BY DEF expression_dictionary
  <2> HIDE DEF pairs
  <2> QED BY <1>2, <2>2, <2>3, PlainItems, RowOf3 DEF AtomRow, Operations
<1>7. AtomRow(expression_identifier)
  BY <1>2, PlainItems, RowOf2 DEF expression_identifier, AtomRow, Operations
<1>8. AtomRow(expression_char)
  BY <1>1, <1>2, PlainItems, RowOf3 DEF expression_char, AtomRow, Operations
<1>9. AtomRow(expression_string)
  BY <1>2, PlainItems, RowOf2 DEF expression_string, AtomRow, Operations
<1>10. AtomRow(expression_void)
  BY <1>2, PlainItems, RowOf2 DEF expression_void, AtomRow, Operations
<1>11. AtomRow(expression_continuation)
  BY <1>2, PlainItems, RowOf2 DEF expression_continuation, AtomRow, Operations
<1>12. AtomRow(expression_lambda)
  <2> DEFINE h == parse_nameless_function_header
             s == <<Sub("parse_function_body"), Node("ExpressionLambda")>>
  <2>1. IsRow(h) /\ h # <<>>
    BY PlainItems, ComposedItems, RowOf3 DEF parse_nameless_function_header
  <2>2. IsRow(s) /\ s # <<>> /\ s[Len(s)] = Node("ExpressionLambda")
    BY PlainItems, RowOf2 DEF Operations
  <2> HIDE DEF h, s
  <2>3. IsRow(h \o s) /\ h \o s # <<>> /\ (h \o s)[Len(h \o s)] = Node("ExpressionLambda")
    BY <2>1, <2>2, JoinedEnds
  <2> QED BY <1>2, <2>3 DEF expression_lambda, AtomRow, h, s
<1> QED BY <1>3, <1>4, <1>5, <1>6, <1>7, <1>8, <1>9, <1>10, <1>11, <1>12

LEMMA PrefixRows ==
  ASSUME NEW k \in PrefixToken
  PROVE  AtomRow(PrefixRow(k)) \/ PrefixRow(k) = expression_unary \/ PrefixRow(k) = expression_tuple
<1>1. CASE k \in Literal
  BY <1>1, AtomRows DEF PrefixRow, Literal
<1>2. CASE k \in {"not", "-", "+"}
  BY <1>2 DEF PrefixRow, Literal
<1>3. CASE k \in {"[", "(", "#{", "<", "IDENTIFIER", "LITERAL_CHAR", "LITERAL_STRING", "void",
                  "return", "fun"}
  BY <1>3, AtomRows DEF PrefixRow, Literal
<1> QED BY <1>1, <1>2, <1>3 DEF PrefixToken

LEMMA PrefixActs ==
  ASSUME NEW k \in PrefixToken, NEW made, NEW ts, NEW f, f.todo = PrefixRow(k), f.kids = <<>>,
         f.first = Len(ts), NEW p
  PROVE  OperandActs(f, p, made, ts)
<1>1. CASE AtomRow(f.todo)
  BY <1>1 DEF OperandActs
<1>2. CASE f.todo = expression_unary
  <2>1. f.todo = Row3(OneOf({"not", "-"}), Prec(UNARY), UnaryNode)
    BY <1>2 DEF Row3, expression_unary, UNARY, UnaryNode
  <2> QED BY <2>1 DEF OperandActs, UnaryActs
<1>3. CASE f.todo = expression_tuple
  <2>1. f.todo = Opening(Single)
    BY <1>3 DEF expression_tuple, Opening, Row3
  <2> QED BY <2>1 DEF OperandActs, TupleActs
<1> QED BY <1>1, <1>2, <1>3, PrefixRows

LEMMA InfixActs ==
  ASSUME NEW made, NEW ts, NextKind(ts) \in InfixToken, NEW p \in 1 .. NONE,
         p <= PrecedenceOf(NextKind(ts)), NEW f, Result(f.kids, f.first, p, made, ts),
         f.todo = InfixRow(NextKind(ts))
  PROVE  OperandActs(f, p, made, ts)
<1> DEFINE k == NextKind(ts)
<1>1. /\ Len(f.kids) = 1 /\ OperandBinds(f.kids, 1, ASSIGNMENT + 1, made, ts)
      /\ OperandBinds(f.kids, 1, PrecedenceOf(k), made, ts)
  BY DEF Result
<1> HIDE DEF k
<1>2. k \in InfixToken /\ p <= PrecedenceOf(k) /\ f.todo = InfixRow(k)
  BY DEF k
<1>3. CASE k \in Assigning \cup {".."}
  <2>1. p = ASSIGNMENT
    BY <1>2, <1>3, PrecedenceFacts DEF ASSIGNMENT, NONE
  <2>2. CASE k \in Assigning
    <3>2. k # ".." /\ k # "("
      BY <2>2 DEF Assigning
    <3>1. f.todo = Row3(OneOf(Assigning), Expression, Node("ExpressionAssignment"))
      BY <1>2, <2>2, <3>2 DEF InfixRow, Row3, expression_assignment
    <3> QED BY <1>1, <2>1, <3>1 DEF OperandActs, AssignActs, AssignNodes
  <2>3. CASE k = ".."
    <3>1. f.todo = Row3(Must(".."), Expression, Node("ExpressionRange"))
      BY <1>2, <2>3 DEF InfixRow, Row3, expression_range, Assigning
    <3> QED BY <1>1, <2>1, <3>1 DEF OperandActs, AssignActs, AssignNodes
  <2> QED BY <1>3, <2>2, <2>3
<1>4. CASE k = "("
  <2>1. f.todo = Opening(CallNode) /\ PrecedenceOf(k) = CALL
    BY <1>2, <1>4, PrecedenceFacts DEF InfixRow, Row3, Opening, CallNode, Assigning, expression_call
  <2> QED BY <1>1, <1>2, <2>1 DEF OperandActs, CallActs
<1>5. CASE k \notin Assigning \cup {"..", "("}
  <2>1. k \in BinaryToken
    BY <1>2, <1>5 DEF BinaryToken
  <2>2. f.todo = Row3(Keep, Above, BinaryNode)
    BY <1>2, <1>5 DEF InfixRow, Row3, expression_binary, BinaryNode
  <2>3. LeftOf(f, k, p, made, ts)
    BY <1>1, <1>2, <2>1 DEF LeftOf
  <2> QED BY <2>2, <2>3 DEF OperandActs, BinaryActs, k
<1> QED BY <1>3, <1>4, <1>5

-----------------------------------------------------------------------------
(* What the innermost frame is at                                          *)

LEMMA ItemDoes ==
  /\ \A k : Must(k).do = "must"
  /\ \A ks : OneOf(ks).do = "oneof"
  /\ \A p : Prec(p).do = "precedence"
  /\ \A p : Infix(p).do = "infix"
  /\ \A k : Node(k).do = "node"
  /\ Keep.do = "keep" /\ Above.do = "above" /\ Single.do = "single" /\ Expression.do = "expression"
  /\ \A end : List(end).do = "until"
  /\ Comma.do = "delim"
  /\ UnaryNode.do = "node" /\ BinaryNode.do = "node" /\ CallNode.do = "node"
  /\ \A z : z \in AssignNodes => z.do = "node"
<1>1. \A k : Must(k).do = "must" /\ Node(k).do = "node"
  BY DEF Must, Node
<1>2. \A ks : OneOf(ks).do = "oneof"
  BY DEF OneOf
<1>3. \A p : Prec(p).do = "precedence" /\ Infix(p).do = "infix"
  BY DEF Prec, Infix
<1>4. Keep.do = "keep" /\ Above.do = "above" /\ Single.do = "single" /\ Expression.do = "expression"
  BY DEF Keep, Above, Single, Expression
<1>5. \A end : List(end).do = "until"
  BY DEF List, Until
<1>6. Comma.do = "delim"
  BY DEF Comma, Delim
<1>7. UnaryNode.do = "node" /\ BinaryNode.do = "node" /\ CallNode.do = "node"
  BY <1>1 DEF UnaryNode, BinaryNode, CallNode
<1>8. \A z : z \in AssignNodes => z.do = "node"
  BY <1>1 DEF AssignNodes
<1> QED BY <1>1, <1>2, <1>3, <1>4, <1>5, <1>6, <1>7, <1>8

LEMMA ItemParts ==
  /\ \A k : Must(k).kinds = {k} /\ Must(k) = [do |-> "must", kinds |-> {k}]
  /\ \A p : Prec(p).prec = p /\ Infix(p).prec = p
  /\ \A k : Node(k).kind = k
  /\ \A end : List(end).kinds = {end} /\ List(end).body = Row2(Expression, Delim(end, ","))
  /\ Comma.end = ")" /\ Comma.kinds = {","}
  /\ UnaryNode.kind = "ExpressionUnaryOp" /\ BinaryNode.kind = "ExpressionBinaryOp"
  /\ CallNode.kind = "ExpressionCall"
  /\ \A z : z \in AssignNodes => z.kind \in {"ExpressionRange", "ExpressionAssignment"}
<1>1. \A k : Must(k).kinds = {k} /\ Must(k) = [do |-> "must", kinds |-> {k}] /\ Node(k).kind = k
  BY DEF Must, Node
<1>2. \A p : Prec(p).prec = p /\ Infix(p).prec = p
  BY DEF Prec, Infix
<1>3. \A end : List(end).kinds = {end} /\ List(end).body = Row2(Expression, Delim(end, ","))
  BY DEF List, Until, Row2
<1>4. Comma.end = ")" /\ Comma.kinds = {","}
  BY DEF Comma, Delim
<1>5. UnaryNode.kind = "ExpressionUnaryOp" /\ BinaryNode.kind = "ExpressionBinaryOp" /\ CallNode.kind = "ExpressionCall"
  BY <1>1 DEF UnaryNode, BinaryNode, CallNode
<1>6. \A z : z \in AssignNodes => z.kind \in {"ExpressionRange", "ExpressionAssignment"}
  BY <1>1 DEF AssignNodes
<1> QED BY <1>1, <1>2, <1>3, <1>4, <1>5, <1>6

(* It is in a row that is read whatever the operands. *)
RowHere(e, f) ==
  \/ \E p \in 1 .. NONE : e.todo = Row1(Infix(p)) /\ f.first = e.first /\ AtomRow(f.todo)
  \/ IsRow(e.todo) /\ IsRow(f.todo)

(* The rows that read an operator for a loop at p. *)
OperatorActs(f, p, made, ts) ==
  \/ UnaryActs(f, made, ts)
  \/ BinaryActs(f, p, made, ts)
  \/ AssignActs(f, p, made, ts)
  \/ CallActs(f, p, made, ts)
  \/ TupleActs(f, made, ts)

(* It reads an operator with its operands. *)
OperatorHere(e, f, made, ts) ==
  \E p \in 1 .. NONE : e.todo = Row1(Infix(p)) /\ f.first = e.first /\ OperatorActs(f, p, made, ts)

(* It is about to take an infix operator for the operand that e waits for. *)
LoopHere(e, f, made, ts) ==
  Asks(e, f) /\ f.todo = Row1(Infix(Level(e))) /\ Result(f.kids, f.first, Level(e), made, ts)

LEMMA RowActs ==
  ASSUME NEW e, NEW f, RowHere(e, f), NEW made, NEW ts
  PROVE  LinkActs(e, f, made, ts) /\ LinkWaits(e, f, made, ts)
BY DEF RowHere, LinkActs, LinkWaits, OperandActs, OperandWaits

LEMMA OperatorIsLink ==
  ASSUME NEW e, NEW f, NEW made, NEW ts, OperatorHere(e, f, made, ts)
  PROVE  LinkActs(e, f, made, ts)
BY DEF OperatorHere, OperatorActs, LinkActs, OperandActs

LEMMA IsHere ==
  ASSUME NEW e, NEW f, NEW made, NEW ts, LinkActs(e, f, made, ts), f.todo # <<>>
  PROVE  RowHere(e, f) \/ OperatorHere(e, f, made, ts) \/ LoopHere(e, f, made, ts)
BY DEF LinkActs, RowHere, OperatorHere, OperatorActs, LoopHere, OperandActs, LoopActs

(* The first item of a row that reads an operator. *)
LEMMA OperatorHeads ==
  ASSUME NEW e, NEW f, NEW made, NEW ts, OperatorHere(e, f, made, ts)
  PROVE  /\ Head(f.todo).do \in {"oneof", "precedence", "node", "keep", "above", "must", "expression",
                                 "until", "delim", "single"}
         /\ f.todo # <<>>
<1>1. PICK p \in 1 .. NONE : OperatorActs(f, p, made, ts)
  BY DEF OperatorHere
<1>2. ASSUME UnaryActs(f, made, ts) PROVE Head(f.todo).do \in {"oneof", "precedence", "node"} /\ f.todo # <<>>
  BY <1>2, RowFacts, ItemDoes DEF UnaryActs
<1>3. ASSUME BinaryActs(f, p, made, ts)
      PROVE  Head(f.todo).do \in {"keep", "above", "precedence", "node"} /\ f.todo # <<>>
  BY <1>3, RowFacts, ItemDoes DEF BinaryActs
<1>4. ASSUME AssignActs(f, p, made, ts)
      PROVE  Head(f.todo).do \in {"must", "oneof", "expression", "precedence", "node"} /\ f.todo # <<>>
  <2>1. PICK z \in AssignNodes :
          \/ \E x \in {Must(".."), OneOf(Assigning)} : f.todo = Row3(x, Expression, z)
          \/ f.todo \in {Row2(Expression, z), Row2(Prec(ASSIGNMENT), z)}
          \/ f.todo = Row1(z)
    BY <1>4 DEF AssignActs
  <2>2. CASE \E x \in {Must(".."), OneOf(Assigning)} : f.todo = Row3(x, Expression, z)
    BY <2>2, RowFacts, ItemDoes
  <2>3. CASE f.todo \in {Row2(Expression, z), Row2(Prec(ASSIGNMENT), z)}
    BY <2>3, RowFacts, ItemDoes
  <2>4. CASE f.todo = Row1(z)
    BY <2>4, RowFacts, ItemDoes
  <2> QED BY <2>1, <2>2, <2>3, <2>4
<1>5. ASSUME NEW z, z.do \in {"node", "single"},
             f.todo \in {Opening(z), Listing(z), Element(z), Entering(z), Parted(z), Parting(z), Closing(z)}
      PROVE  /\ Head(f.todo).do \in {"must", "until", "expression", "precedence", "delim", "node", "single"}
             /\ f.todo # <<>>
  <2>1. CASE f.todo = Opening(z)
    BY <2>1, RowFacts, ItemDoes DEF Opening
  <2>5. CASE f.todo = Parting(z)
    <3> DEFINE comma == Must(",")
               list == List(")")
    <3>1. f.todo = Row3(comma, list, z)
      BY <2>5 DEF Parting
    <3>2. comma.do = "must"
      BY ItemDoes
    <3> HIDE DEF comma, list
    <3>3. Head(f.todo) = comma /\ f.todo # <<>>
      BY <3>1, RowFacts
    <3> QED BY <3>2, <3>3
  <2>2. CASE f.todo \in {Listing(z), Parted(z)}
    BY <2>2, RowFacts, ItemDoes DEF Listing, Parted
  <2>3. CASE f.todo \in {Element(z), Entering(z)}
    BY <2>3, RowFacts, ItemDoes DEF Element, Entering
  <2>4. CASE f.todo = Closing(z)
    BY <1>5, <2>4, RowFacts DEF Closing
  <2> QED BY <1>5, <2>1, <2>2, <2>3, <2>4, <2>5
<1>6. ASSUME CallActs(f, p, made, ts)
      PROVE  /\ Head(f.todo).do \in {"must", "until", "expression", "precedence", "delim", "node", "single"}
             /\ f.todo # <<>>
  BY <1>5, <1>6, ItemDoes DEF CallActs
<1>7. ASSUME TupleActs(f, made, ts)
      PROVE  /\ Head(f.todo).do \in {"must", "until", "expression", "precedence", "delim", "node", "single"}
             /\ f.todo # <<>>
  BY <1>5, <1>7, ItemDoes DEF TupleActs
<1> QED BY <1>1, <1>2, <1>3, <1>4, <1>6, <1>7 DEF OperatorActs

LEMMA OnlyRows ==
  ASSUME NEW e, NEW f, NEW made, NEW ts, LinkActs(e, f, made, ts), f.todo # <<>>,
         Head(f.todo).do \in {"notempty", "opt", "while", "sub", "convert", "nonode", "default", "discard"}
  PROVE  RowHere(e, f)
<1>1. ~OperatorHere(e, f, made, ts)
  BY OperatorHeads
<1>2. ~LoopHere(e, f, made, ts)
  BY RowFacts, ItemDoes DEF LoopHere
<1> QED BY <1>1, <1>2, IsHere

(* Such a row goes on with items for its first one. *)
LEMMA RowGoes ==
  ASSUME NEW e, NEW f, RowHere(e, f), f.todo # <<>>, Head(f.todo).do # "node",
         NEW items, IsRow(items), NEW g, g.todo = items \o Tail(f.todo), g.first = f.first
  PROVE  RowHere(e, g)
<1>1. IsRow(f.todo)
  BY DEF RowHere, AtomRow
<1>2. IsRow(Tail(f.todo)) /\ IsRow(items \o Tail(f.todo))
  BY <1>1, RestOfRow, JoinedRows
<1>3. ASSUME AtomRow(f.todo) PROVE AtomRow(g.todo)
  <2> DEFINE r == f.todo
             s == Tail(r)
  <2>1. /\ IsSeq(r) /\ r # <<>> /\ r[Len(r)].do = "node" /\ Head(r).do # "node"
    BY <1>3 DEF AtomRow, IsRow
  <2>2. /\ IsSeq(s) /\ Len(s) = Len(r) - 1 /\ Len(r) \in Nat \ {0} /\ Head(r) = r[1]
        /\ \A i \in 1 .. Len(r) - 1 : s[i] = r[i + 1]
    BY <2>1, TailFacts
  <2>3. IsRow(s) /\ IsRow(items \o s) /\ g.todo = items \o s
    BY <1>2
  <2> HIDE DEF r, s
  <2>4. Len(r) # 1
    BY <2>1, <2>2
  <2>5. s # <<>> /\ s[Len(s)] = r[Len(r)]
    <3>1. Len(s) \in 1 .. Len(r) - 1 /\ Len(s) + 1 = Len(r) /\ Len(s) # 0
      BY <2>2, <2>4
    <3> QED BY <2>2, <3>1, IsSeqFacts
  <2>6. CASE items = <<>>
    <3>1. items \o s = s
      BY <2>2, <2>6, NothingJoins
    <3> QED BY <2>1, <2>3, <2>5, <3>1 DEF AtomRow
  <2>7. CASE items # <<>>
    <3>1. items \o s # <<>> /\ (items \o s)[Len(items \o s)] = s[Len(s)]
      BY <2>3, <2>5, <2>7, JoinedEnds
    <3> QED BY <2>1, <2>3, <2>5, <3>1 DEF AtomRow
  <2> QED BY <2>6, <2>7
<1> QED BY <1>2, <1>3 DEF RowHere

-----------------------------------------------------------------------------
(* What follows of a row that reads an operator, by its first item         *)

LEMMA ListStates ==
  ASSUME NEW z
  PROVE  /\ Head(Opening(z)).do = "must" /\ Head(Opening(z)) = Must("(") /\ After(<<>>, Opening(z)) = Listing(z)
         /\ Head(Listing(z)).do = "until" /\ Head(Listing(z)) = List(")") /\ After(<<>>, Listing(z)) = Closing(z)
         /\ After(Row3(Expression, Comma, List(")")), Listing(z)) = Element(z)
         /\ Head(Element(z)).do = "expression" /\ After(Row1(Prec(ASSIGNMENT)), Element(z)) = Entering(z)
         /\ Head(Entering(z)).do = "precedence" /\ Head(Entering(z)) = Prec(ASSIGNMENT)
         /\ After(<<>>, Entering(z)) = Parted(z)
         /\ Head(Parted(z)).do = "delim" /\ Head(Parted(z)) = Comma
         /\ After(<<>>, Parted(z)) = Listing(z) /\ After(Row1(Must(",")), Parted(z)) = Parting(z)
         /\ Head(Parting(z)).do = "must" /\ Head(Parting(z)) = Must(",") /\ After(<<>>, Parting(z)) = Listing(z)
         /\ Head(Closing(z)) = z /\ After(<<>>, Closing(z)) = <<>>
<1> DEFINE open == Must("(")
           comma == Must(",")
           list == List(")")
           del == Comma
           prec == Prec(ASSIGNMENT)
           exp == Expression
<1>1. /\ open.do = "must" /\ comma.do = "must" /\ list.do = "until" /\ del.do = "delim"
      /\ prec.do = "precedence" /\ exp.do = "expression"
  BY ItemDoes
<1>2. /\ Opening(z) = Row3(open, list, z) /\ Listing(z) = Row2(list, z) /\ Element(z) = Row4(exp, del, list, z)
      /\ Entering(z) = Row4(prec, del, list, z) /\ Parted(z) = Row3(del, list, z)
      /\ Parting(z) = Row3(comma, list, z) /\ Closing(z) = Row1(z)
  BY DEF Opening, Listing, Element, Entering, Parted, Parting, Closing
<1> HIDE DEF open, comma, list, del, prec, exp
<1>3. /\ Head(Opening(z)) = open /\ Head(Listing(z)) = list /\ Head(Element(z)) = exp /\ Head(Entering(z)) = prec
      /\ Head(Parted(z)) = del /\ Head(Parting(z)) = comma /\ Head(Closing(z)) = z
  BY <1>2, RowFacts
<1>4. /\ After(<<>>, Opening(z)) = Listing(z) /\ After(<<>>, Listing(z)) = Closing(z)
      /\ After(<<>>, Entering(z)) = Parted(z) /\ After(<<>>, Parted(z)) = Listing(z)
      /\ After(<<>>, Parting(z)) = Listing(z) /\ After(<<>>, Closing(z)) = <<>>
  BY <1>2, AfterFacts
<1>5. After(Row3(exp, del, list), Listing(z)) = Element(z)
  BY <1>2, AfterFacts
<1>6. After(Row1(prec), Element(z)) = Entering(z)
  BY <1>2, AfterFacts
<1>7. After(Row1(comma), Parted(z)) = Parting(z)
  BY <1>2, AfterFacts
<1> QED BY <1>1, <1>3, <1>4, <1>5, <1>6, <1>7 DEF open, comma, list, del, prec, exp

(* The row of a list that z makes a node of, from any of its items on. *)
ListState(t, z) ==
  t \in {Opening(z), Listing(z), Element(z), Entering(z), Parted(z), Parting(z), Closing(z)}

LEMMA ListAt ==
  ASSUME NEW z, NEW t, ListState(t, z), z.do \in {"node", "single"}
  PROVE  /\ Head(t).do = "must" => t = Opening(z) \/ t = Parting(z)
         /\ Head(t).do = "until" => t = Listing(z)
         /\ Head(t).do = "expression" => t = Element(z)
         /\ Head(t).do = "precedence" => t = Entering(z)
         /\ Head(t).do = "delim" => t = Parted(z)
         /\ Head(t).do \in {"node", "single"} => t = Closing(z) /\ Head(t) = z
         /\ Head(t).do \in {"must", "until", "expression", "precedence", "delim", z.do}
<1>1. /\ Head(Opening(z)).do = "must" /\ Head(Listing(z)).do = "until" /\ Head(Element(z)).do = "expression"
      /\ Head(Entering(z)).do = "precedence" /\ Head(Parted(z)).do = "delim" /\ Head(Parting(z)).do = "must"
      /\ Head(Closing(z)) = z
  BY ListStates
<1> QED BY <1>1 DEF ListState

LEMMA UnaryAt ==
  ASSUME NEW f, NEW made, NEW ts, UnaryActs(f, made, ts)
  PROVE  /\ Head(f.todo).do = "oneof" => After(<<>>, f.todo) = Row2(Prec(UNARY), UnaryNode) /\ f.kids = <<>>
         /\ Head(f.todo).do = "precedence" =>
              Head(f.todo) = Prec(UNARY) /\ After(<<>>, f.todo) = Row1(UnaryNode) /\ f.kids = <<>>
         /\ Head(f.todo).do = "node" =>
              /\ Head(f.todo) = UnaryNode /\ After(<<>>, f.todo) = <<>>
              /\ OperandBinds(f.kids, 1, UNARY, made, ts)
         /\ Head(f.todo).do \in {"oneof", "precedence", "node"}
<1> DEFINE one == OneOf({"not", "-"})
           prec == Prec(UNARY)
           node == UnaryNode
<1>1. one.do = "oneof" /\ prec.do = "precedence" /\ node.do = "node"
  BY ItemDoes
<1>2. \/ f.todo = Row3(one, prec, node) /\ f.kids = <<>>
      \/ f.todo = Row2(prec, node) /\ f.kids = <<>>
      \/ f.todo = Row1(node) /\ OperandBinds(f.kids, 1, UNARY, made, ts)
  BY DEF UnaryActs
<1> HIDE DEF one, prec, node
<1>3. CASE f.todo = Row3(one, prec, node) /\ f.kids = <<>>
  BY <1>1, <1>3, RowFacts, AfterFacts DEF prec, node
<1>4. CASE f.todo = Row2(prec, node) /\ f.kids = <<>>
  BY <1>1, <1>4, RowFacts, AfterFacts DEF prec, node
<1>5. CASE f.todo = Row1(node) /\ OperandBinds(f.kids, 1, UNARY, made, ts)
  BY <1>1, <1>5, RowFacts, AfterFacts DEF node
<1> QED BY <1>2, <1>3, <1>4, <1>5

LEMMA BinaryAt ==
  ASSUME NEW f, NEW p, NEW made, NEW ts, BinaryActs(f, p, made, ts), NEW x
  PROVE  /\ Head(f.todo).do = "keep" =>
              After(<<>>, f.todo) = Row2(Above, BinaryNode) /\ LeftOf(f, NextKind(ts), p, made, ts)
         /\ Head(f.todo).do = "above" =>
              After(Row1(x), f.todo) = Row2(x, BinaryNode) /\ LeftOf(f, f.op, p, made, ts)
         /\ Head(f.todo).do = "precedence" =>
              /\ Head(f.todo) = Prec(PrecedenceOf(f.op) + 1) /\ After(<<>>, f.todo) = Row1(BinaryNode)
              /\ LeftOf(f, f.op, p, made, ts)
         /\ Head(f.todo).do = "node" =>
              /\ Head(f.todo) = BinaryNode /\ After(<<>>, f.todo) = <<>>
              /\ f.op \in BinaryToken /\ p <= PrecedenceOf(f.op)
              /\ OperandBinds(f.kids, 1, PrecedenceOf(f.op), made, ts)
              /\ OperandBinds(f.kids, 2, PrecedenceOf(f.op) + 1, made, ts)
              /\ Stops(PrecedenceOf(f.op) + 1, ts)
         /\ Head(f.todo).do \in {"keep", "above", "precedence", "node"}
<1> DEFINE keep == Keep
           above == Above
           prec == Prec(PrecedenceOf(f.op) + 1)
           node == BinaryNode
           last == /\ f.op \in BinaryToken /\ p <= PrecedenceOf(f.op)
                   /\ OperandBinds(f.kids, 1, PrecedenceOf(f.op), made, ts)
                   /\ OperandBinds(f.kids, 2, PrecedenceOf(f.op) + 1, made, ts)
                   /\ Stops(PrecedenceOf(f.op) + 1, ts)
<1>1. keep.do = "keep" /\ above.do = "above" /\ prec.do = "precedence" /\ node.do = "node"
  BY ItemDoes
<1>2. \/ f.todo = Row3(keep, above, node) /\ LeftOf(f, NextKind(ts), p, made, ts)
      \/ f.todo = Row2(above, node) /\ LeftOf(f, f.op, p, made, ts)
      \/ f.todo = Row2(prec, node) /\ LeftOf(f, f.op, p, made, ts)
      \/ f.todo = Row1(node) /\ last
  BY DEF BinaryActs
<1> HIDE DEF keep, above, prec, node, last
<1>3. CASE f.todo = Row3(keep, above, node) /\ LeftOf(f, NextKind(ts), p, made, ts)
  BY <1>1, <1>3, RowFacts, AfterFacts DEF above, node
<1>4. CASE f.todo = Row2(above, node) /\ LeftOf(f, f.op, p, made, ts)
  BY <1>1, <1>4, RowFacts, AfterFacts DEF node
<1>5. CASE f.todo = Row2(prec, node) /\ LeftOf(f, f.op, p, made, ts)
  BY <1>1, <1>5, RowFacts, AfterFacts DEF prec, node
<1>6. CASE f.todo = Row1(node) /\ last
  <2>1. Head(f.todo) = node /\ After(<<>>, f.todo) = <<>>
    BY <1>6, RowFacts, AfterFacts
  <2> QED BY <1>1, <1>6, <2>1 DEF node, last
<1> QED BY <1>2, <1>3, <1>4, <1>5, <1>6

LEMMA AssignAt ==
  ASSUME NEW f, NEW p, NEW made, NEW ts, AssignActs(f, p, made, ts)
  PROVE  \E z \in AssignNodes :
           /\ Head(f.todo).do \in {"must", "oneof"} => After(<<>>, f.todo) = Row2(Expression, z)
           /\ Head(f.todo).do = "expression" => After(Row1(Prec(ASSIGNMENT)), f.todo) = Row2(Prec(ASSIGNMENT), z)
           /\ Head(f.todo).do = "precedence" => Head(f.todo) = Prec(ASSIGNMENT) /\ After(<<>>, f.todo) = Row1(z)
           /\ Head(f.todo).do = "node" => Head(f.todo) = z /\ After(<<>>, f.todo) = <<>> /\ Stops(ASSIGNMENT, ts)
           /\ Head(f.todo).do \in {"must", "oneof", "expression", "precedence", "node"}
<1> DEFINE exp == Expression
           prec == Prec(ASSIGNMENT)
<1>1. exp.do = "expression" /\ prec.do = "precedence" /\ \A z \in AssignNodes : z.do = "node"
  BY ItemDoes
<1>2. PICK z \in AssignNodes :
        \/ \E x \in {Must(".."), OneOf(Assigning)} : f.todo = Row3(x, exp, z)
        \/ f.todo = Row2(exp, z)
        \/ f.todo = Row2(prec, z)
        \/ f.todo = Row1(z) /\ Stops(ASSIGNMENT, ts)
  BY DEF AssignActs
<1>3. \A x \in {Must(".."), OneOf(Assigning)} : x.do \in {"must", "oneof"}
  BY ItemDoes
<1> HIDE DEF exp, prec
<1>4. CASE \E x \in {Must(".."), OneOf(Assigning)} : f.todo = Row3(x, exp, z)
  <2>1. PICK x : f.todo = Row3(x, exp, z) /\ x.do \in {"must", "oneof"}
    BY <1>3, <1>4
  <2>2. Head(f.todo) = x /\ After(<<>>, f.todo) = Row2(exp, z)
    BY <2>1, RowFacts, AfterFacts
  <2> QED BY <2>1, <2>2 DEF exp
<1>5. CASE f.todo = Row2(exp, z)
  <2>1. Head(f.todo) = exp /\ After(Row1(prec), f.todo) = Row2(prec, z)
    BY <1>5, RowFacts, AfterFacts
  <2> QED BY <1>1, <2>1 DEF prec
<1>6. CASE f.todo = Row2(prec, z)
  <2>1. Head(f.todo) = prec /\ After(<<>>, f.todo) = Row1(z)
    BY <1>6, RowFacts, AfterFacts
  <2> QED BY <1>1, <2>1 DEF prec
<1>7. CASE f.todo = Row1(z) /\ Stops(ASSIGNMENT, ts)
  <2>1. Head(f.todo) = z /\ After(<<>>, f.todo) = <<>>
    BY <1>7, RowFacts, AfterFacts
  <2> QED BY <1>1, <1>7, <2>1
<1> QED BY <1>2, <1>4, <1>5, <1>6, <1>7

-----------------------------------------------------------------------------
(* A row that reads an operator goes on                                    *)

(* The frame g is f with items in the place of its first one. *)
Moves(f, g, items) == g.todo = After(items, f.todo) /\ g.first = f.first /\ g.kids = f.kids

(* One more token. *)
OneMore(ts, ts2) == Extends(ts, ts2) /\ Len(ts2) = Len(ts) + 1

LEMMA CallAt ==
  ASSUME NEW f, NEW p, NEW made, NEW ts
  PROVE  CallActs(f, p, made, ts) <=>
           ListState(f.todo, CallNode) /\ p <= CALL /\ OperandBinds(f.kids, 1, CALL, made, ts)
  BY DEF CallActs, ListState

LEMMA TupleAt ==
  ASSUME NEW f, NEW made, NEW ts, TupleActs(f, made, ts)
  PROVE  ListState(f.todo, Single)
  BY DEF TupleActs, ListState

LEMMA OperatorParts ==
  ASSUME NEW f, NEW p, NEW made, NEW ts, OperatorActs(f, p, made, ts)
  PROVE  LET x == Head(f.todo).do IN
         /\ UnaryActs(f, made, ts) => x \in {"oneof", "precedence", "node"}
         /\ BinaryActs(f, p, made, ts) => x \in {"keep", "above", "precedence", "node"}
         /\ AssignActs(f, p, made, ts) => x \in {"must", "oneof", "expression", "precedence", "node"}
         /\ CallActs(f, p, made, ts) => x \in {"must", "until", "expression", "precedence", "delim", "node"}
         /\ TupleActs(f, made, ts) => x \in {"must", "until", "expression", "precedence", "delim", "single"}
<1> DEFINE x == Head(f.todo).do
<1>1. UnaryActs(f, made, ts) => x \in {"oneof", "precedence", "node"}
  BY UnaryAt
<1>2. BinaryActs(f, p, made, ts) => x \in {"keep", "above", "precedence", "node"}
  BY BinaryAt
<1>3. AssignActs(f, p, made, ts) => x \in {"must", "oneof", "expression", "precedence", "node"}
  BY AssignAt
<1>4. CallActs(f, p, made, ts) => x \in {"must", "until", "expression", "precedence", "delim", "node"}
  <2>1. CallNode.do = "node"
    BY ItemDoes
  <2> QED BY <2>1, CallAt, ListAt
<1>5. TupleActs(f, made, ts) => x \in {"must", "until", "expression", "precedence", "delim", "single"}
  <2>1. Single.do = "single"
    BY ItemDoes
  <2> QED BY <2>1, TupleAt, ListAt
<1> QED BY <1>1, <1>2, <1>3, <1>4, <1>5

(* A tuple at each of its items. *)
LEMMA TupleStates ==
  ASSUME NEW f, NEW made, NEW ts, TupleActs(f, made, ts)
  PROVE  /\ f.todo = Opening(Single) => f.kids = <<>> /\ f.first = Len(ts)
         /\ f.todo = Listing(Single) => Opened(f, ts) /\ BetweenElements(f, made, ts)
         /\ f.todo \in {Element(Single), Entering(Single)} =>
              Opened(f, ts) /\ (Len(f.kids) = 0 => Len(ts) = f.first + 1)
         /\ f.todo \in {Parted(Single), Parting(Single)} => Opened(f, ts) /\ Ending(f, made, ts)
         /\ f.todo = Closing(Single) =>
              (Len(f.kids) = 1 => f.kids[1] \in DOMAIN made /\ InGroup(First(f, made), ts))
<1> DEFINE z == Single
<1>1. /\ Head(Opening(z)).do = "must" /\ Head(Listing(z)).do = "until" /\ Head(Element(z)).do = "expression"
      /\ Head(Entering(z)).do = "precedence" /\ Head(Parted(z)).do = "delim" /\ Head(Parting(z)).do = "must"
      /\ Head(Closing(z)).do = "single"
  <2>1. z.do = "single"
    BY ItemDoes
  <2>2. /\ Head(Opening(z)).do = "must" /\ Head(Listing(z)).do = "until" /\ Head(Element(z)).do = "expression"
        /\ Head(Entering(z)).do = "precedence" /\ Head(Parted(z)).do = "delim" /\ Head(Parting(z)).do = "must"
        /\ Head(Closing(z)) = z
    BY ListStates
  <2> QED BY <2>1, <2>2
<1>2. Head(Opening(z)) = Must("(") /\ Head(Parting(z)) = Must(",")
  BY ListStates
<1>3. Must("(").kinds # Must(",").kinds
  <2>1. Must("(").kinds = {"("} /\ Must(",").kinds = {","}
    BY ItemParts
  <2> QED BY <2>1
<1>4. Opening(z) # Parting(z)
  BY <1>2, <1>3
<1>5. \/ f.todo = Opening(z) /\ f.kids = <<>> /\ f.first = Len(ts)
      \/ f.todo = Listing(z) /\ Opened(f, ts) /\ BetweenElements(f, made, ts)
      \/ /\ f.todo \in {Element(z), Entering(z)} /\ Opened(f, ts)
         /\ Len(f.kids) = 0 => Len(ts) = f.first + 1
      \/ f.todo \in {Parted(z), Parting(z)} /\ Opened(f, ts) /\ Ending(f, made, ts)
      \/ /\ f.todo = Closing(z)
         /\ Len(f.kids) = 1 => f.kids[1] \in DOMAIN made /\ InGroup(First(f, made), ts)
  BY DEF TupleActs
<1> HIDE DEF z
<1>6. /\ f.todo = Opening(z) => f.kids = <<>> /\ f.first = Len(ts)
      /\ f.todo = Listing(z) => Opened(f, ts) /\ BetweenElements(f, made, ts)
      /\ f.todo \in {Element(z), Entering(z)} =>
           Opened(f, ts) /\ (Len(f.kids) = 0 => Len(ts) = f.first + 1)
      /\ f.todo \in {Parted(z), Parting(z)} => Opened(f, ts) /\ Ending(f, made, ts)
      /\ f.todo = Closing(z) =>
           (Len(f.kids) = 1 => f.kids[1] \in DOMAIN made /\ InGroup(First(f, made), ts))
  <2>1. CASE f.todo = Opening(z) /\ f.kids = <<>> /\ f.first = Len(ts)
    BY <1>1, <1>4, <2>1
  <2>2. CASE f.todo = Listing(z) /\ Opened(f, ts) /\ BetweenElements(f, made, ts)
    BY <1>1, <2>2
  <2>3. CASE /\ f.todo \in {Element(z), Entering(z)} /\ Opened(f, ts)
             /\ Len(f.kids) = 0 => Len(ts) = f.first + 1
    BY <1>1, <2>3
  <2>4. CASE f.todo \in {Parted(z), Parting(z)} /\ Opened(f, ts) /\ Ending(f, made, ts)
    BY <1>1, <1>4, <2>4
  <2>5. CASE /\ f.todo = Closing(z)
             /\ Len(f.kids) = 1 => f.kids[1] \in DOMAIN made /\ InGroup(First(f, made), ts)
    BY <1>1, <2>5
  <2> QED BY <1>5, <2>1, <2>2, <2>3, <2>4, <2>5
<1> QED BY <1>6 DEF z

(* The token that the frame is at is read; what a tuple has then. *)
LEMMA TupleReads ==
  ASSUME NEW f, NEW made, NEW ts, TupleActs(f, made, ts), NEW ts2, OneMore(ts, ts2), Later(made, ts, made, ts2),
         Head(f.todo).do = "must", NextKind(ts) \in Head(f.todo).kinds, NEW g, Moves(f, g, <<>>),
         Len(ts) \in Nat \ {0}
  PROVE  TupleActs(g, made, ts2)
<1>1. f.todo = Opening(Single) \/ f.todo = Parting(Single)
  BY TupleAt, ListAt, ItemDoes
<1>2. /\ Len(ts2) = Len(ts) + 1 /\ DOMAIN ts = 1 .. Len(ts) /\ DOMAIN ts2 = 1 .. Len(ts2)
      /\ \A i \in 1 .. Len(ts) : ts2[i] = ts[i]
      /\ \A n \in DOMAIN made : made[n].lo \in 1 .. Len(ts) /\ made[n].hi \in 1 .. Len(ts)
  BY LaterFacts, IsSeqFacts DEF OneMore, Extends
<1>3. After(<<>>, Opening(Single)) = Listing(Single) /\ After(<<>>, Parting(Single)) = Listing(Single)
      /\ Head(Opening(Single)) = Must("(") /\ Head(Parting(Single)) = Must(",")
  BY ListStates
<1>4. g.todo = Listing(Single) /\ g.kids = f.kids /\ g.first = f.first
  BY <1>1, <1>3 DEF Moves
<1>5. CASE f.todo = Opening(Single)
  <2>1. f.kids = <<>> /\ f.first = Len(ts)
    BY <1>5, TupleStates
  <2>2. NextKind(ts) = "("
    <3>1. Must("(").kinds = {"("}
      BY ItemParts
    <3> QED BY <1>3, <1>5, <3>1
  <2>3. Len(ts) \in 1 .. Len(ts) /\ Len(ts) \in 1 .. Len(ts2)
    BY <1>2
  <2>4. Opened(g, ts2)
    BY <1>2, <1>4, <2>1, <2>2, <2>3 DEF Opened, NextKind
  <2>5. Len(<<>>) = 0
    OBVIOUS
  <2>6. BetweenElements(g, made, ts2)
    BY <1>2, <1>4, <2>1, <2>5 DEF BetweenElements
  <2> QED BY <1>4, <2>4, <2>6 DEF TupleActs
<1>6. CASE f.todo = Parting(Single)
  <2>1. Opened(f, ts) /\ Ending(f, made, ts)
    BY <1>6, TupleStates
  <2>2. NextKind(ts) = ","
    <3>1. Must(",").kinds = {","}
      BY ItemParts
    <3> QED BY <1>3, <1>6, <3>1
  <2>3. Opened(g, ts2)
    <3>1. DOMAIN ts \subseteq DOMAIN ts2
      BY <1>2
    <3> QED BY <1>2, <1>4, <2>1, <3>1 DEF Opened
  <2>4. ASSUME Len(f.kids) = 1
        PROVE  /\ f.kids[1] \in DOMAIN made
               /\ \/ InGroup(First(f, made), ts2)
                  \/ /\ First(f, made).lo = f.first + 1
                     /\ First(f, made).hi + 1 = Len(ts2) /\ ts2[First(f, made).hi].kind = ","
    <3>1. /\ f.kids[1] \in DOMAIN made
          /\ InGroup(First(f, made), ts)
             \/ (First(f, made).lo = f.first + 1 /\ First(f, made).hi = Len(ts))
      BY <2>1, <2>4 DEF Ending
    <3>2. InGroup(First(f, made), ts) => InGroup(First(f, made), ts2)
      BY <3>1, InGroupStays DEF First
    <3>3. Len(ts) \in 1 .. Len(ts)
      OBVIOUS
    <3> QED BY <1>2, <2>2, <3>1, <3>2, <3>3 DEF NextKind
  <2>5. First(g, made) = First(f, made)
    BY <1>4 DEF First
  <2>6. Len(f.kids) # 0
    BY <2>1 DEF Ending
  <2>7. BetweenElements(g, made, ts2)
    BY <1>4, <2>4, <2>5, <2>6 DEF BetweenElements
  <2> QED BY <1>4, <2>3, <2>7 DEF TupleActs
<1> QED BY <1>1, <1>5, <1>6

(* The closing bracket is read. *)
LEMMA TupleCloses ==
  ASSUME NEW f, NEW made, NEW ts, TupleActs(f, made, ts), NEW ts2, OneMore(ts, ts2), Later(made, ts, made, ts2),
         Head(f.todo).do = "until", NextKind(ts) = ")", NEW g, Moves(f, g, <<>>),
         Len(ts) \in Nat \ {0}
  PROVE  TupleActs(g, made, ts2)
<1>1. f.todo = Listing(Single)
  BY TupleAt, ListAt, ItemDoes
<1>2. /\ Len(ts2) = Len(ts) + 1 /\ DOMAIN ts = 1 .. Len(ts) /\ DOMAIN ts2 = 1 .. Len(ts2)
      /\ \A i \in 1 .. Len(ts) : ts2[i] = ts[i]
      /\ \A n \in DOMAIN made : made[n].lo \in 1 .. Len(ts) /\ made[n].hi \in 1 .. Len(ts)
  BY LaterFacts, IsSeqFacts DEF OneMore, Extends
<1>3. After(<<>>, Listing(Single)) = Closing(Single)
  BY ListStates
<1>4. g.todo = Closing(Single) /\ g.kids = f.kids /\ g.first = f.first
  BY <1>1, <1>3 DEF Moves
<1>5. Opened(f, ts) /\ BetweenElements(f, made, ts)
  BY <1>1, TupleStates
<1>6. ASSUME Len(f.kids) = 1 PROVE f.kids[1] \in DOMAIN made /\ InGroup(First(f, made), ts2)
  <2> DEFINE x == First(f, made)
  <2>1. /\ f.kids[1] \in DOMAIN made
        /\ \/ InGroup(x, ts)
           \/ /\ x.lo = f.first + 1
              /\ \/ x.hi = Len(ts) /\ NextKind(ts) = ")"
                 \/ x.hi + 1 = Len(ts) /\ ts[x.hi].kind = ","
    BY <1>5, <1>6 DEF BetweenElements
  <2>2. x.lo \in 1 .. Len(ts) /\ x.hi \in 1 .. Len(ts)
    BY <1>2, <2>1 DEF First
  <2>3. CASE InGroup(x, ts)
    BY <2>1, <2>3, InGroupStays DEF First
  <2>4. f.first \in 1 .. Len(ts) /\ ts[f.first].kind = "("
    BY <1>2, <1>5 DEF Opened
  <2> HIDE DEF x
  <2>5. CASE x.lo = f.first + 1
    <3>1. x.lo > 1 /\ x.lo - 1 = f.first
      BY <2>4, <2>5
    <3>2. ts2[x.lo - 1].kind = "("
      BY <1>2, <2>4, <3>1
    <3>3. CASE x.hi = Len(ts)
      <4>1. ts2[x.hi].kind = ")"
        BY <1>2, <2>2, <3>3 DEF NextKind
      <4> QED BY <2>1, <3>1, <3>2, <4>1 DEF InGroup, x
    <3>4. CASE x.hi + 1 = Len(ts) /\ ts[x.hi].kind = ","
      <4>0. \A h, l \in Nat : h + 1 = l => h < l + 1
        OBVIOUS
      <4>3. x.hi \in Nat /\ Len(ts) \in Nat /\ Len(ts) \in 1 .. Len(ts)
        BY <2>2
      <4>1. ts2[x.hi].kind = "," /\ x.hi < Len(ts2)
        <5>1. ts2[x.hi] = ts[x.hi]
          BY <1>2, <2>2
        <5>2. x.hi < Len(ts) + 1
          BY <3>4, <4>0, <4>3
        <5> QED BY <1>2, <3>4, <5>1, <5>2
      <4>2. ts2[x.hi + 1].kind = ")"
        <5>1. ts2[Len(ts)] = ts[Len(ts)]
          BY <1>2, <4>3
        <5>2. ts2[x.hi + 1] = ts[Len(ts)]
          BY <3>4, <5>1
        <5> QED BY <5>2 DEF NextKind
      <4> QED BY <2>1, <3>1, <3>2, <4>1, <4>2 DEF InGroup, x
    <3>5. InGroup(x, ts) => InGroup(x, ts2)
      BY <2>1, InGroupStays DEF First, x
    <3> QED BY <2>1, <3>3, <3>4, <3>5 DEF x
  <2> QED BY <2>1, <2>3, <2>5 DEF x
<1>7. First(g, made) = First(f, made)
  BY <1>4 DEF First
<1> QED BY <1>4, <1>6, <1>7 DEF TupleActs

LEMMA CallGoes ==
  ASSUME NEW f, NEW p, NEW made, NEW ts, CallActs(f, p, made, ts), NEW ts2, Later(made, ts, made, ts2),
         NEW g, g.kids = f.kids, ListState(g.todo, CallNode)
  PROVE  CallActs(g, p, made, ts2)
<1>1. p <= CALL /\ OperandBinds(f.kids, 1, CALL, made, ts)
  BY CallAt
<1> QED BY <1>1, CallAt, BindsStays

LEMMA CallStates ==
  ASSUME NEW f, NEW p, NEW made, NEW ts, CallActs(f, p, made, ts)
  PROVE  /\ Head(f.todo).do = "must" => f.todo = Opening(CallNode) \/ f.todo = Parting(CallNode)
         /\ Head(f.todo).do = "until" => f.todo = Listing(CallNode)
         /\ Head(f.todo).do = "expression" => f.todo = Element(CallNode)
         /\ Head(f.todo).do = "precedence" => f.todo = Entering(CallNode)
         /\ Head(f.todo).do = "delim" => f.todo = Parted(CallNode)
         /\ Head(f.todo).do = "node" => f.todo = Closing(CallNode) /\ Head(f.todo) = CallNode
<1>1. CallNode.do = "node"
  BY ItemDoes
<1> QED BY <1>1, CallAt, ListAt

LEMMA TupleIsAt ==
  ASSUME NEW f, NEW made, NEW ts, TupleActs(f, made, ts)
  PROVE  /\ Head(f.todo).do = "until" => f.todo = Listing(Single)
         /\ Head(f.todo).do = "expression" => f.todo = Element(Single)
         /\ Head(f.todo).do = "precedence" => f.todo = Entering(Single)
         /\ Head(f.todo).do = "delim" => f.todo = Parted(Single)
         /\ Head(f.todo).do = "single" => f.todo = Closing(Single)
<1>1. Single.do = "single"
  BY ItemDoes
<1> QED BY <1>1, TupleAt, ListAt

LEMMA OperatorReads ==
  ASSUME NEW f, NEW p, NEW made, NEW ts, OperatorActs(f, p, made, ts), NEW ts2, OneMore(ts, ts2),
         Later(made, ts, made, ts2), Len(ts) \in Nat \ {0},
         Head(f.todo).do \in {"must", "oneof"}, NextKind(ts) \in Head(f.todo).kinds, NEW g, Moves(f, g, <<>>)
  PROVE  OperatorActs(g, p, made, ts2)
<1>0. g.todo = After(<<>>, f.todo) /\ g.kids = f.kids
  BY DEF Moves
<1>1. CASE UnaryActs(f, made, ts)
  <2>1. g.todo = Row2(Prec(UNARY), UnaryNode) /\ g.kids = <<>>
    BY <1>0, <1>1, UnaryAt
  <2> QED BY <2>1 DEF OperatorActs, UnaryActs
<1>2. CASE AssignActs(f, p, made, ts)
  <2>1. PICK z \in AssignNodes : g.todo = Row2(Expression, z)
    BY <1>0, <1>2, AssignAt
  <2>2. p = ASSIGNMENT /\ OperandBinds(g.kids, 1, ASSIGNMENT + 1, made, ts2)
    BY <1>0, <1>2, BindsStays DEF AssignActs
  <2> QED BY <2>1, <2>2 DEF OperatorActs, AssignActs
<1>3. CASE CallActs(f, p, made, ts)
  <2>1. f.todo = Opening(CallNode) \/ f.todo = Parting(CallNode)
    BY <1>3, OperatorParts, CallStates
  <2>2. g.todo = Listing(CallNode)
    <3>1. After(<<>>, Opening(CallNode)) = Listing(CallNode) /\ After(<<>>, Parting(CallNode)) = Listing(CallNode)
      BY ListStates
    <3> QED BY <1>0, <2>1, <3>1
  <2> QED BY <1>0, <1>3, <2>2, CallGoes DEF OperatorActs, ListState
<1>4. CASE TupleActs(f, made, ts)
  <2>1. Head(f.todo).do = "must"
    BY <1>4, OperatorParts
  <2> QED BY <1>4, <2>1, TupleReads DEF OperatorActs
<1>5. ~BinaryActs(f, p, made, ts)
  BY OperatorParts
<1> QED BY <1>1, <1>2, <1>3, <1>4, <1>5 DEF OperatorActs

LEMMA OperatorKeeps ==
  ASSUME NEW f, NEW p, NEW made, NEW ts, OperatorActs(f, p, made, ts), NEW ts2, Later(made, ts, made, ts2),
         Head(f.todo).do = "keep", NEW g, Moves(f, g, <<>>), g.op = NextKind(ts)
  PROVE  OperatorActs(g, p, made, ts2)
<1>1. BinaryActs(f, p, made, ts)
  BY OperatorParts DEF OperatorActs
<1>2. g.todo = Row2(Above, BinaryNode) /\ LeftOf(f, NextKind(ts), p, made, ts) /\ g.kids = f.kids
  BY <1>1, BinaryAt DEF Moves
<1>3. LeftOf(g, g.op, p, made, ts2)
  BY <1>2, BindsStays DEF LeftOf
<1> QED BY <1>2, <1>3 DEF OperatorActs, BinaryActs

LEMMA OperatorCloses ==
  ASSUME NEW f, NEW p, NEW made, NEW ts, OperatorActs(f, p, made, ts), NEW ts2, OneMore(ts, ts2),
         Later(made, ts, made, ts2), Len(ts) \in Nat \ {0},
         Head(f.todo).do = "until", NextKind(ts) \in Head(f.todo).kinds, NEW g, Moves(f, g, <<>>)
  PROVE  OperatorActs(g, p, made, ts2)
<1>0. g.todo = After(<<>>, f.todo) /\ g.kids = f.kids
  BY DEF Moves
<1>1. CASE CallActs(f, p, made, ts)
  <2>2. f.todo = Listing(CallNode) /\ After(<<>>, Listing(CallNode)) = Closing(CallNode)
    BY <1>1, CallStates, ListStates
  <2>1. g.todo = Closing(CallNode)
    BY <1>0, <2>2
  <2> QED BY <1>0, <1>1, <2>1, CallGoes DEF OperatorActs, ListState
<1>2. CASE TupleActs(f, made, ts)
  <2>3. f.todo = Listing(Single) /\ Head(Listing(Single)) = List(")")
    BY <1>2, TupleIsAt, ListStates
  <2>1. Head(f.todo) = List(")")
    BY <2>3
  <2>2. NextKind(ts) = ")"
    <3>1. List(")").kinds = {")"}
      BY ItemParts
    <3> QED BY <2>1, <3>1
  <2> QED BY <1>2, <2>2, TupleCloses DEF OperatorActs
<1> QED BY <1>1, <1>2, OperatorParts DEF OperatorActs

LEMMA OperatorIterates ==
  ASSUME NEW f, NEW p, NEW made, NEW ts, OperatorActs(f, p, made, ts), Later(made, ts, made, ts),
         Head(f.todo).do = "until", NEW g, Moves(f, g, Head(f.todo).body \o <<Head(f.todo)>>),
         NextKind(ts) \notin Head(f.todo).kinds
  PROVE  OperatorActs(g, p, made, ts)
<1>0. CallActs(f, p, made, ts) \/ TupleActs(f, made, ts)
  BY OperatorParts DEF OperatorActs
<1>1. PICK z : /\ f.todo = Listing(z)
               /\ \/ CallActs(f, p, made, ts) /\ z = CallNode
                  \/ TupleActs(f, made, ts) /\ z = Single
  <2>1. CallActs(f, p, made, ts) => f.todo = Listing(CallNode)
    BY CallStates
  <2>2. TupleActs(f, made, ts) => f.todo = Listing(Single)
    BY TupleIsAt
  <2>3. CASE CallActs(f, p, made, ts)
    <3> WITNESS CallNode
    <3> QED BY <2>1, <2>3
  <2>4. CASE TupleActs(f, made, ts)
    <3> WITNESS Single
    <3> QED BY <2>2, <2>4
  <2> QED BY <1>0, <2>3, <2>4
<1>2. Head(f.todo) = List(")")
  <2>1. Head(Listing(z)) = List(")")
    BY ListStates
  <2> QED BY <1>1, <2>1
<1>3. List(")").body \o <<List(")")>> = Row3(Expression, Comma, List(")"))
  <2> DEFINE list == List(")")
  <2>1. list.body = Row2(Expression, Comma)
    BY ItemParts DEF Comma
  <2> HIDE DEF list
  <2>2. Row2(Expression, Comma) \o Row1(list) = Row3(Expression, Comma, list)
    BY RowsJoined
  <2> QED BY <2>1, <2>2 DEF Row1, list
<1>4. g.todo = Element(z) /\ g.kids = f.kids /\ g.first = f.first
  <2>1. g.todo = After(Row3(Expression, Comma, List(")")), f.todo)
    BY <1>2, <1>3 DEF Moves
  <2>2. After(Row3(Expression, Comma, List(")")), Listing(z)) = Element(z)
    BY ListStates
  <2> QED BY <1>1, <2>1, <2>2 DEF Moves
<1>5. CASE CallActs(f, p, made, ts) /\ z = CallNode
  BY <1>4, <1>5, CallGoes DEF OperatorActs, ListState
<1>6. CASE TupleActs(f, made, ts) /\ z = Single
  <2>1. Opened(f, ts) /\ BetweenElements(f, made, ts)
    BY <1>1, <1>6, TupleStates
  <2>2. Opened(g, ts) /\ (Len(g.kids) = 0 => Len(ts) = g.first + 1)
    BY <1>4, <2>1 DEF Opened, BetweenElements
  <2> QED BY <1>4, <1>6, <2>2 DEF OperatorActs, TupleActs
<1> QED BY <1>1, <1>5, <1>6

LEMMA OperatorDelimits ==
  ASSUME NEW f, NEW p, NEW made, NEW ts, OperatorActs(f, p, made, ts), Later(made, ts, made, ts),
         Head(f.todo).do = "delim", NEW g,
         Moves(f, g, IF NextKind(ts) = Head(f.todo).end THEN <<>>
                     ELSE <<[do |-> "must", kinds |-> Head(f.todo).kinds]>>)
  PROVE  OperatorActs(g, p, made, ts)
<1>0. CallActs(f, p, made, ts) \/ TupleActs(f, made, ts)
  BY OperatorParts DEF OperatorActs
<1>1. PICK z : /\ f.todo = Parted(z)
               /\ \/ CallActs(f, p, made, ts) /\ z = CallNode
                  \/ TupleActs(f, made, ts) /\ z = Single
  <2>1. CallActs(f, p, made, ts) => f.todo = Parted(CallNode)
    BY CallStates
  <2>2. TupleActs(f, made, ts) => f.todo = Parted(Single)
    BY TupleIsAt
  <2>3. CASE CallActs(f, p, made, ts)
    <3> WITNESS CallNode
    <3> QED BY <2>1, <2>3
  <2>4. CASE TupleActs(f, made, ts)
    <3> WITNESS Single
    <3> QED BY <2>2, <2>4
  <2> QED BY <1>0, <2>3, <2>4
<1>2. Head(f.todo) = Comma /\ Comma.end = ")" /\ Comma.kinds = {","}
  <2>1. Head(Parted(z)) = Comma
    BY ListStates
  <2> QED BY <1>1, <2>1, ItemParts
<1>3. <<[do |-> "must", kinds |-> Comma.kinds]>> = Row1(Must(","))
  BY <1>2 DEF Row1, Must
<1>4. g.kids = f.kids /\ g.first = f.first
  BY DEF Moves
<1>5. CASE NextKind(ts) = ")"
  <2>1. g.todo = Listing(z)
    <3>1. g.todo = After(<<>>, f.todo)
      BY <1>2, <1>5 DEF Moves
    <3>2. After(<<>>, Parted(z)) = Listing(z)
      BY ListStates
    <3> QED BY <1>1, <3>1, <3>2
  <2>2. CASE CallActs(f, p, made, ts) /\ z = CallNode
    BY <1>4, <2>1, <2>2, CallGoes DEF OperatorActs, ListState
  <2>3. CASE TupleActs(f, made, ts) /\ z = Single
    <3>1. Opened(f, ts) /\ Ending(f, made, ts)
      BY <1>1, <2>3, TupleStates
    <3>2. First(g, made) = First(f, made) /\ Opened(g, ts)
      BY <1>4, <3>1 DEF First, Opened
    <3>3. BetweenElements(g, made, ts)
      BY <1>4, <1>5, <3>1, <3>2 DEF Ending, BetweenElements
    <3> QED BY <2>1, <2>3, <3>2, <3>3 DEF OperatorActs, TupleActs
  <2> QED BY <1>1, <2>2, <2>3
<1>6. CASE NextKind(ts) # ")"
  <2>1. g.todo = Parting(z)
    <3>1. g.todo = After(Row1(Must(",")), f.todo)
      BY <1>2, <1>3, <1>6 DEF Moves
    <3>2. After(Row1(Must(",")), Parted(z)) = Parting(z)
      BY ListStates
    <3> QED BY <1>1, <3>1, <3>2
  <2>2. CASE CallActs(f, p, made, ts) /\ z = CallNode
    BY <1>4, <2>1, <2>2, CallGoes DEF OperatorActs, ListState
  <2>3. CASE TupleActs(f, made, ts) /\ z = Single
    <3>1. Opened(f, ts) /\ Ending(f, made, ts)
      BY <1>1, <2>3, TupleStates
    <3>2. Opened(g, ts) /\ Ending(g, made, ts)
      BY <1>4, <3>1 DEF First, Opened, Ending
    <3> QED BY <2>1, <2>3, <3>2 DEF OperatorActs, TupleActs
  <2> QED BY <1>1, <2>2, <2>3
<1> QED BY <1>5, <1>6

LEMMA OperatorExpects ==
  ASSUME NEW f, NEW p, NEW made, NEW ts, OperatorActs(f, p, made, ts), Later(made, ts, made, ts),
         Head(f.todo).do = "expression", NEW g, Moves(f, g, <<Prec(ASSIGNMENT)>>)
  PROVE  OperatorActs(g, p, made, ts)
<1>1. g.todo = After(Row1(Prec(ASSIGNMENT)), f.todo) /\ g.kids = f.kids /\ g.first = f.first
  BY DEF Moves, Row1
<1>2. CASE AssignActs(f, p, made, ts)
  <2>1. PICK z \in AssignNodes : g.todo = Row2(Prec(ASSIGNMENT), z)
    BY <1>1, <1>2, AssignAt
  <2> QED BY <1>1, <1>2, <2>1 DEF OperatorActs, AssignActs
<1>3. CASE CallActs(f, p, made, ts)
  <2>1. g.todo = Entering(CallNode)
    <3>1. f.todo = Element(CallNode)
      BY <1>3, CallStates
    <3>2. After(Row1(Prec(ASSIGNMENT)), Element(CallNode)) = Entering(CallNode)
      BY ListStates
    <3> QED BY <1>1, <3>1, <3>2
  <2> QED BY <1>1, <1>3, <2>1, CallGoes DEF OperatorActs, ListState
<1>4. CASE TupleActs(f, made, ts)
  <2>1. f.todo = Element(Single) /\ g.todo = Entering(Single)
    <3>1. f.todo = Element(Single)
      BY <1>4, TupleIsAt
    <3>2. After(Row1(Prec(ASSIGNMENT)), Element(Single)) = Entering(Single)
      BY ListStates
    <3> QED BY <1>1, <3>1, <3>2
  <2>2. Opened(g, ts) /\ (Len(g.kids) = 0 => Len(ts) = g.first + 1)
    BY <1>1, <1>4, <2>1, TupleStates DEF Opened
  <2> QED BY <2>1, <2>2 DEF OperatorActs, TupleActs
<1> QED BY <1>2, <1>3, <1>4, OperatorParts DEF OperatorActs

LEMMA OperatorRises ==
  ASSUME NEW f, NEW p, NEW made, NEW ts, OperatorActs(f, p, made, ts),
         Head(f.todo).do = "above", NEW g, Moves(f, g, <<Prec(higher(PrecedenceOf(f.op)))>>), g.op = f.op
  PROVE  OperatorActs(g, p, made, ts)
<1>1. BinaryActs(f, p, made, ts)
  BY OperatorParts DEF OperatorActs
<1>2. g.todo = Row2(Prec(higher(PrecedenceOf(f.op))), BinaryNode) /\ LeftOf(f, f.op, p, made, ts) /\ g.kids = f.kids
  BY <1>1, BinaryAt DEF Moves, Row1
<1>3. higher(PrecedenceOf(f.op)) = PrecedenceOf(f.op) + 1
  <2>1. PrecedenceOf(f.op) \in 2 .. 10
    BY <1>2, PrecedenceFacts DEF LeftOf
  <2> QED BY <2>1 DEF higher, NONE
<1>4. LeftOf(g, g.op, p, made, ts)
  BY <1>2 DEF LeftOf
<1> QED BY <1>2, <1>3, <1>4 DEF OperatorActs, BinaryActs

LEMMA RowHeads ==
  ASSUME NEW e, NEW f, RowHere(e, f), f.todo # <<>>
  PROVE  /\ IsItem(Head(f.todo)) /\ IsRow(f.todo)
         /\ Head(f.todo).do \notin {"above", "infix", "single"}
         /\ Head(f.todo).do = "node" => Head(f.todo).kind \notin Operations
         /\ Head(f.todo).do = "precedence" => Head(f.todo).prec = ASSIGNMENT
<1>1. IsRow(f.todo)
  BY DEF RowHere, AtomRow
<1>2. IsItem(Head(f.todo))
  BY <1>1, RestOfRow
<1> QED BY <1>1, <1>2, ItemHasRows DEF Plain

LEMMA NoLoopHere ==
  ASSUME NEW e, NEW f, NEW made, NEW ts, LoopHere(e, f, made, ts)
  PROVE  Head(f.todo).do = "infix" /\ f.todo = Row1(Infix(Level(e))) /\ Head(f.todo) = Infix(Level(e))
  BY RowFacts, ItemDoes DEF LoopHere

(* The innermost frame goes on with items for its first one. *)
LEMMA LinkGoes ==
  ASSUME NEW e, NEW f, NEW made, NEW ts, LinkActs(e, f, made, ts), f.todo # <<>>,
         Head(f.todo).do \notin {"infix", "node"},
         NEW g, NEW items, g.todo = After(items, f.todo), g.first = f.first,
         IsItem(Head(f.todo)) => IsRow(items),
         NEW made2, NEW ts2, \A p : OperatorActs(f, p, made, ts) => OperatorActs(g, p, made2, ts2)
  PROVE  LinkActs(e, g, made2, ts2)
<1>1. CASE RowHere(e, f)
  <2>1. IsRow(items)
    BY <1>1, RowHeads
  <2>2. g.todo = items \o Tail(f.todo)
    BY DEF After
  <2>3. RowHere(e, g)
    BY <1>1, <2>1, <2>2, RowGoes
  <2> QED BY <2>3, RowActs
<1>2. CASE OperatorHere(e, f, made, ts)
  <2>1. OperatorHere(e, g, made2, ts2)
    BY <1>2 DEF OperatorHere
  <2> QED BY <2>1, OperatorIsLink
<1>3. CASE LoopHere(e, f, made, ts)
  BY <1>3, NoLoopHere
<1> QED BY <1>1, <1>2, <1>3, IsHere

-----------------------------------------------------------------------------
(* Steps of the parser                                                     *)

(* r and f as in PrecedenceInv, and as the tree has them. *)
Linking(r, f, a) ==
  /\ Acting(r, f, a) /\ Linked(r, nodes, tokens) /\ LinkActs(LastOf(r), f, nodes, tokens)
  /\ Later(nodes, tokens, nodes, tokens) /\ Len(tokens) \in Nat \ {0}

LEMMA SameEnds ==
  ASSUME NEW r, IsSeq(r), NEW f, NEW s, IsSeq(s), NEW g, Append(r, f) = Append(s, g)
  PROVE  r = s /\ f = g
<1> DEFINE x == Append(r, f)
<1>1. x[Len(x)] = f /\ SubSeq(x, 1, Len(x) - 1) = r
  BY StackShapes
<1>2. x[Len(x)] = g /\ SubSeq(x, 1, Len(x) - 1) = s
  BY StackShapes
<1> QED BY <1>1, <1>2

LEMMA SomeLinking ==
  ASSUME ParserInv, TreeInv, PrecedenceInv, stack # <<>>
  PROVE  \E r, f, a : Linking(r, f, a)
<1>1. PICK r, f, a : Acting(r, f, a)
  BY SomeActing
<1>2. PICK s, g : stack = Append(s, g) /\ Linked(s, nodes, tokens) /\ LinkActs(LastOf(s), g, nodes, tokens)
  BY DEF PrecedenceInv
<1>3. r = s /\ f = g
  <2>1. IsSeq(r) /\ IsSeq(s) /\ Append(r, f) = Append(s, g)
    BY <1>1, <1>2 DEF Acting, Linked
  <2> QED BY <2>1, SameEnds
<1>4. Later(nodes, tokens, nodes, tokens) /\ Len(tokens) \in Nat \ {0}
  <2>1. IsSeq(nodes) /\ IsSeq(tokens) /\ Len(tokens) \in Nat \ {0}
    BY IsSeqFacts DEF ParserInv, Sequences, TokensInText
  <2> QED BY <2>1, SameExtends DEF Later, TreeInv
<1> QED BY <1>1, <1>2, <1>3, <1>4 DEF Linking

LEMMA LaterNow ==
  ASSUME ParserInv, TreeInv, text' = text, tokens' = tokens \/ advance, Extends(nodes, nodes')
  PROVE  /\ Later(nodes, tokens, nodes', tokens') /\ Later(nodes, tokens, nodes, tokens')
         /\ advance => OneMore(tokens, tokens')
<1>1. IsSeq(nodes) /\ IsSeq(tokens) /\ NodesMade(nodes, Len(tokens))
  BY DEF ParserInv, Sequences, TreeInv
<1>2. Extends(tokens, tokens') /\ (advance => Len(tokens') = Len(tokens) + 1)
  BY ReadOn
<1>3. Extends(nodes, nodes)
  BY <1>1, SameExtends
<1> QED BY <1>1, <1>2, <1>3 DEF Later, OneMore

LEMMA PrecStep ==
  ASSUME ParserInv, TreeInv, PrecedenceInv, text' = text, tokens' = tokens \/ advance, Extends(nodes, nodes'),
         \A n \in DOMAIN nodes' : n \in DOMAIN nodes \/ Fits(nodes'[n], nodes', tokens'),
         stack' = <<>> \/ \E r, g : /\ stack' = Append(r, g) /\ Linked(r, nodes, tokens)
                                    /\ LinkActs(LastOf(r), g, nodes', tokens')
  PROVE  PrecedenceInv'
<1>1. Later(nodes, tokens, nodes', tokens')
  BY LaterNow
<1>2. \A n \in DOMAIN nodes : Fits(nodes[n], nodes', tokens') /\ nodes'[n] = nodes[n]
  BY <1>1, FitsStays, LaterFacts DEF PrecedenceInv
<1>3. \A n \in DOMAIN nodes' : Fits(nodes'[n], nodes', tokens')
  BY <1>2
<1>4. CASE stack' = <<>>
  BY <1>3, <1>4 DEF PrecedenceInv
<1>5. CASE \E r, g : /\ stack' = Append(r, g) /\ Linked(r, nodes, tokens)
                     /\ LinkActs(LastOf(r), g, nodes', tokens')
  <2>1. PICK r, g : /\ stack' = Append(r, g) /\ Linked(r, nodes, tokens)
                    /\ LinkActs(LastOf(r), g, nodes', tokens')
    BY <1>5
  <2>2. Linked(r, nodes', tokens')
    BY <1>1, <2>1, LinkedStays
  <2> QED BY <1>3, <2>1, <2>2 DEF PrecedenceInv
<1> QED BY <1>4, <1>5

LEMMA PrecFrame ==
  ASSUME ParserInv, TreeInv, PrecedenceInv, UNCHANGED <<text, nodes>>, tokens' = tokens \/ advance,
         NEW r, NEW f, NEW a, Linking(r, f, a), NEW g, stack' = Append(r, g),
         LinkActs(LastOf(r), g, nodes, tokens')
  PROVE  PrecedenceInv'
<1>1. Extends(nodes, nodes') /\ nodes' = nodes /\ text' = text
  BY SameExtends DEF ParserInv, Sequences
<1>2. Linked(r, nodes, tokens)
  BY DEF Linking
<1>3. LinkActs(LastOf(r), g, nodes', tokens')
  BY <1>1
<1>4. \A n \in DOMAIN nodes' : n \in DOMAIN nodes
  BY <1>1
<1> QED BY <1>1, <1>2, <1>3, <1>4, PrecStep

LEMMA LinkingFacts ==
  ASSUME NEW r, NEW f, NEW a, Linking(r, f, a)
  PROVE  /\ Acting(r, f, a) /\ Top = f /\ IsFrame(Top) /\ Head(f.todo) = Item /\ peek.kind = NextKind(tokens)
         /\ LinkActs(LastOf(r), f, nodes, tokens) /\ Linked(r, nodes, tokens)
         /\ Later(nodes, tokens, nodes, tokens) /\ Len(tokens) \in Nat \ {0}
         /\ \A g : Set(g) = Append(r, g)
<1>1. Acting(r, f, a)
  BY DEF Linking
<1>2. Top = f /\ IsFrame(Top)
  BY <1>1, ActingFacts
<1> QED BY <1>1, <1>2 DEF Item, peek, NextKind, Linking, Acting

(* A step of the innermost frame; its children may change in a row only. *)
LEMMA PrecGoes ==
  ASSUME ParserInv, TreeInv, PrecedenceInv, NEW r, NEW f, NEW a, Linking(r, f, a), f.todo # <<>>,
         Item.do \notin {"infix", "node"},
         NEW g, NEW items, NEW kids, NEW op, Becomes(g, items, kids, op), Continue(g) \/ Consumes(g),
         IsItem(Item) => IsRow(items),
         \A p : OperatorActs(f, p, nodes, tokens) => OperatorActs(g, p, nodes, tokens')
  PROVE  PrecedenceInv'
<1>1. /\ Top = f /\ Head(f.todo) = Item /\ LinkActs(LastOf(r), f, nodes, tokens) /\ Set(g) = Append(r, g)
  BY LinkingFacts
<1>2. g.todo = After(items, f.todo) /\ g.first = f.first /\ g.kids = kids
  BY <1>1, BecomesFacts DEF After
<1>4. LinkActs(LastOf(r), g, nodes, tokens')
  BY <1>1, <1>2, LinkGoes
<1>5. UNCHANGED <<text, nodes>> /\ (tokens' = tokens \/ advance) /\ stack' = Append(r, g)
  BY <1>1 DEF Continue, Consumes
<1> QED BY <1>4, <1>5, PrecFrame

LEMMA MovesOn ==
  ASSUME NEW r, NEW f, NEW a, Linking(r, f, a), NEW g, NEW items, NEW op, Becomes(g, items, f.kids, op)
  PROVE  Moves(f, g, items) /\ g.op = op
<1>1. Top = f
  BY LinkingFacts
<1>2. g.todo = items \o Tail(f.todo) /\ g.kids = f.kids /\ g.first = f.first /\ g.op = op
  BY <1>1, BecomesFacts
<1> QED BY <1>2 DEF Moves, After

LEMMA PrecMustConsume == ParserInv /\ TreeInv /\ PrecedenceInv /\ must_consume => PrecedenceInv'
<1> SUFFICES ASSUME ParserInv, TreeInv, PrecedenceInv, must_consume PROVE PrecedenceInv'
  OBVIOUS
<1>1. stack # <<>> /\ Top.todo # <<>> /\ Item.do \in {"must", "oneof"} /\ peek.kind \in Item.kinds
  BY DEF must_consume, Doing
<1>2. PICK r, f, a : Linking(r, f, a)
  BY <1>1, SomeLinking
<1>3. /\ Top = f /\ IsFrame(Top) /\ Head(f.todo) = Item /\ peek.kind = NextKind(tokens)
      /\ Len(tokens) \in Nat \ {0}
  BY <1>2, LinkingFacts
<1>4. PICK op, g : Becomes(g, <<>>, f.kids, op) /\ Consumes(g)
  <2>1. PICK op : Consumes([Then(<<>>) EXCEPT !.op = op])
    BY DEF must_consume
  <2> QED BY <1>3, <2>1, ThenParts
<1>5. Moves(f, g, <<>>)
  BY <1>2, <1>4, MovesOn
<1>6. OneMore(tokens, tokens') /\ Later(nodes, tokens, nodes, tokens')
  <2>1. text' = text /\ advance /\ nodes' = nodes
    BY <1>4 DEF Consumes
  <2>2. Extends(nodes, nodes')
    BY <2>1, SameExtends DEF ParserInv, Sequences
  <2> QED BY <2>1, <2>2, LaterNow
<1>7. \A p : OperatorActs(f, p, nodes, tokens) => OperatorActs(g, p, nodes, tokens')
  BY <1>1, <1>3, <1>5, <1>6, OperatorReads
<1> QED BY <1>1, <1>2, <1>3, <1>4, <1>7, NoItems, PrecGoes

LEMMA PrecThrow ==
  ASSUME ParserInv, TreeInv, PrecedenceInv, UNCHANGED <<text, tokens, nodes>>, stack' = <<>>
  PROVE  PrecedenceInv'
<1>1. Extends(nodes, nodes') /\ \A n \in DOMAIN nodes' : n \in DOMAIN nodes
  BY SameExtends DEF ParserInv, Sequences
<1> QED BY <1>1, PrecStep

LEMMA PrecKeepKind == ParserInv /\ TreeInv /\ PrecedenceInv /\ KeepKind => PrecedenceInv'
<1> SUFFICES ASSUME ParserInv, TreeInv, PrecedenceInv, KeepKind PROVE PrecedenceInv'
  OBVIOUS
<1>1. stack # <<>> /\ Top.todo # <<>> /\ Item.do = "keep"
  BY DEF KeepKind, Doing
<1>2. PICK r, f, a : Linking(r, f, a)
  BY <1>1, SomeLinking
<1>3. /\ Top = f /\ IsFrame(Top) /\ Head(f.todo) = Item /\ peek.kind = NextKind(tokens)
  BY <1>2, LinkingFacts
<1>4. PICK g : Becomes(g, <<>>, f.kids, peek.kind) /\ Consumes(g)
  BY <1>3, ThenParts DEF KeepKind
<1>5. Moves(f, g, <<>>) /\ g.op = NextKind(tokens)
  BY <1>2, <1>3, <1>4, MovesOn
<1>6. Later(nodes, tokens, nodes, tokens')
  <2>1. text' = text /\ advance /\ nodes' = nodes
    BY <1>4 DEF Consumes
  <2>2. Extends(nodes, nodes')
    BY <2>1, SameExtends DEF ParserInv, Sequences
  <2> QED BY <2>1, <2>2, LaterNow
<1>7. \A p : OperatorActs(f, p, nodes, tokens) => OperatorActs(g, p, nodes, tokens')
  BY <1>1, <1>3, <1>5, <1>6, OperatorKeeps
<1> QED BY <1>1, <1>2, <1>3, <1>4, <1>7, NoItems, PrecGoes

LEMMA PrecLoop == ParserInv /\ TreeInv /\ PrecedenceInv /\ Loop => PrecedenceInv'
<1> SUFFICES ASSUME ParserInv, TreeInv, PrecedenceInv, Loop PROVE PrecedenceInv'
  OBVIOUS
<1>1. stack # <<>> /\ Top.todo # <<>> /\ Item.do \in {"until", "while"}
  BY DEF Loop, Doing
<1>2. PICK r, f, a : Linking(r, f, a)
  BY <1>1, SomeLinking
<1>3. /\ Top = f /\ IsFrame(Top) /\ Head(f.todo) = Item /\ peek.kind = NextKind(tokens)
      /\ Len(tokens) \in Nat \ {0} /\ Later(nodes, tokens, nodes, tokens)
  BY <1>2, LinkingFacts
<1> DEFINE more == Item.body \o <<Item>>
<1>4. IsItem(Item) => IsRow(more)
  BY <1>1, ItemHasRows, OneItem, JoinedRows
<1>5. PICK items \in {<<>>, more} :
        /\ Continue(Then(items)) \/ Consumes(Then(items))
        /\ Item.do = "until" =>
             \/ items = <<>> /\ Consumes(Then(items)) /\ peek.kind \in Item.kinds
             \/ items = more /\ Continue(Then(items)) /\ peek.kind \notin Item.kinds
  BY <1>1 DEF Loop, Doing
<1>6. IsItem(Item) => IsRow(items)
  BY <1>4, <1>5, NoItems
<1> HIDE DEF more
<1> DEFINE g == Then(items)
<1>7. Becomes(g, items, f.kids, Top.op)
  BY <1>3, ThenParts
<1>8. Moves(f, g, items)
  BY <1>2, <1>7, MovesOn
<1>9. Continue(g) \/ Consumes(g)
  BY <1>5
<1> HIDE DEF g
<1>10. ASSUME NEW p, OperatorActs(f, p, nodes, tokens) PROVE OperatorActs(g, p, nodes, tokens')
  <2>1. Item.do = "until"
    BY <1>1, <1>3, <1>10, OperatorParts DEF OperatorActs
  <2>2. CASE items = <<>> /\ Consumes(g) /\ peek.kind \in Item.kinds
    <3>1. text' = text /\ advance /\ nodes' = nodes
      BY <2>2 DEF Consumes
    <3>2. Extends(nodes, nodes')
      BY <3>1, SameExtends DEF ParserInv, Sequences
    <3>3. OneMore(tokens, tokens') /\ Later(nodes, tokens, nodes, tokens')
      BY <3>1, <3>2, LaterNow
    <3> QED BY <1>3, <1>8, <1>10, <2>1, <2>2, <3>3, OperatorCloses
  <2>3. CASE items = more /\ Continue(g) /\ peek.kind \notin Item.kinds
    <3>1. tokens' = tokens
      BY <2>3 DEF Continue
    <3>2. Moves(f, g, Head(f.todo).body \o <<Head(f.todo)>>)
      BY <1>3, <1>8, <2>3 DEF more
    <3>3. OperatorActs(g, p, nodes, tokens)
      BY <1>3, <1>10, <2>1, <2>3, <3>2, OperatorIterates
    <3> QED BY <3>1, <3>3
  <2> QED BY <1>5, <2>1, <2>2, <2>3 DEF g
<1> QED BY <1>1, <1>2, <1>3, <1>6, <1>7, <1>9, <1>10, PrecGoes

LEMMA PrecDelimiter == ParserInv /\ TreeInv /\ PrecedenceInv /\ Delimiter => PrecedenceInv'
<1> SUFFICES ASSUME ParserInv, TreeInv, PrecedenceInv, Delimiter PROVE PrecedenceInv'
  OBVIOUS
<1>1. stack # <<>> /\ Top.todo # <<>> /\ Item.do = "delim"
  BY DEF Delimiter, Doing
<1>2. PICK r, f, a : Linking(r, f, a)
  BY <1>1, SomeLinking
<1>3. /\ Top = f /\ IsFrame(Top) /\ Head(f.todo) = Item /\ peek.kind = NextKind(tokens)
      /\ Later(nodes, tokens, nodes, tokens)
  BY <1>2, LinkingFacts
<1> DEFINE must == [do |-> "must", kinds |-> Item.kinds]
           items == IF peek.kind = Item.end THEN <<>> ELSE <<must>>
           g == Then(items)
<1>4. Continue(g)
  BY DEF Delimiter
<1>5. IsRow(items)
  <2>1. must.do = "must"
    OBVIOUS
  <2> HIDE DEF must
  <2>2. IsItem(must)
    BY <2>1, FlatIsItem DEF Plain
  <2> QED BY <2>2, OneItem, NoItems
<1>6. items = IF NextKind(tokens) = Head(f.todo).end THEN <<>>
              ELSE <<[do |-> "must", kinds |-> Head(f.todo).kinds]>>
  BY <1>3
<1> HIDE DEF items
<1>7. Becomes(g, items, f.kids, Top.op)
  BY <1>3, ThenParts
<1> HIDE DEF g
<1>8. Moves(f, g, items)
  BY <1>2, <1>7, MovesOn
<1>9. \A p : OperatorActs(f, p, nodes, tokens) => OperatorActs(g, p, nodes, tokens)
  BY <1>1, <1>3, <1>6, <1>8, OperatorDelimits
<1>10. tokens' = tokens
  BY <1>4 DEF Continue
<1> QED BY <1>1, <1>2, <1>3, <1>4, <1>5, <1>7, <1>9, <1>10, PrecGoes

LEMMA PrecExpression == ParserInv /\ TreeInv /\ PrecedenceInv /\ expression => PrecedenceInv'
<1> SUFFICES ASSUME ParserInv, TreeInv, PrecedenceInv, expression PROVE PrecedenceInv'
  OBVIOUS
<1>1. stack # <<>> /\ Top.todo # <<>> /\ Item.do = "expression"
  BY DEF expression, Doing
<1>2. CASE eof
  BY <1>2, PrecThrow DEF expression, Throw
<1>3. CASE ~eof
  <2> DEFINE items == <<Prec(ASSIGNMENT)>>
             g == Then(items)
  <2>1. Continue(g)
    BY <1>3 DEF expression
  <2>2. PICK r, f, a : Linking(r, f, a)
    BY <1>1, SomeLinking
  <2>3. /\ Top = f /\ IsFrame(Top) /\ Head(f.todo) = Item /\ Later(nodes, tokens, nodes, tokens)
    BY <2>2, LinkingFacts
  <2>4. IsRow(items)
    <3>1. Prec(ASSIGNMENT).do = "precedence" /\ Prec(ASSIGNMENT).prec = ASSIGNMENT
      BY ItemDoes, ItemParts
    <3>2. IsItem(Prec(ASSIGNMENT))
      BY <3>1, FlatIsItem DEF Plain
    <3> QED BY <3>2, OneItem
  <2>5. Becomes(g, items, f.kids, Top.op)
    BY <2>3, ThenParts
  <2>6. Moves(f, g, items)
    BY <2>2, <2>5, MovesOn
  <2> HIDE DEF g
  <2>7. \A p : OperatorActs(f, p, nodes, tokens) => OperatorActs(g, p, nodes, tokens)
    BY <1>1, <2>3, <2>6, OperatorExpects
  <2>8. tokens' = tokens
    BY <2>1 DEF Continue
  <2> QED BY <1>1, <2>1, <2>2, <2>3, <2>4, <2>5, <2>7, <2>8, PrecGoes
<1> QED BY <1>2, <1>3

LEMMA PrecRightOperand == ParserInv /\ TreeInv /\ PrecedenceInv /\ RightOperand => PrecedenceInv'
<1> SUFFICES ASSUME ParserInv, TreeInv, PrecedenceInv, RightOperand PROVE PrecedenceInv'
  OBVIOUS
<1>1. stack # <<>> /\ Top.todo # <<>> /\ Item.do = "above"
  BY DEF RightOperand, Doing
<1> DEFINE items == <<Prec(higher(PrecedenceOf(Top.op)))>>
           g == Then(items)
<1>2. Continue(g)
  BY DEF RightOperand
<1>3. PICK r, f, a : Linking(r, f, a)
  BY <1>1, SomeLinking
<1>4. /\ Top = f /\ IsFrame(Top) /\ Head(f.todo) = Item
  BY <1>3, LinkingFacts
<1>5. ~IsItem(Item)
  BY <1>1, ItemHasRows DEF Plain
<1>6. Becomes(g, items, f.kids, Top.op)
  BY <1>4, ThenParts
<1>7. Moves(f, g, items) /\ g.op = f.op
  BY <1>3, <1>4, <1>6, MovesOn
<1>8. items = <<Prec(higher(PrecedenceOf(f.op)))>>
  BY <1>4
<1> HIDE DEF g, items
<1>9. \A p : OperatorActs(f, p, nodes, tokens) => OperatorActs(g, p, nodes, tokens)
  BY <1>1, <1>4, <1>7, <1>8, OperatorRises
<1>10. tokens' = tokens
  BY <1>2 DEF Continue
<1> QED BY <1>1, <1>2, <1>3, <1>4, <1>5, <1>6, <1>9, <1>10, PrecGoes

LEMMA PrecRow ==
  ASSUME ParserInv, TreeInv, PrecedenceInv, stack # <<>>, Top.todo # <<>>,
         Item.do \in {"notempty", "opt", "convert", "nonode", "default", "discard"},
         NEW g, NEW items, NEW kids, NEW op, Becomes(g, items, kids, op), Continue(g) \/ Consumes(g),
         IsItem(Item) => IsRow(items)
  PROVE  PrecedenceInv'
<1>1. PICK r, f, a : Linking(r, f, a)
  BY SomeLinking
<1>2. Top = f /\ Head(f.todo) = Item
  BY <1>1, LinkingFacts
<1>3. \A p : ~OperatorActs(f, p, nodes, tokens)
  BY <1>2, OperatorParts DEF OperatorActs
<1> QED BY <1>1, <1>2, <1>3, PrecGoes

LEMMA TopIsFrame ==
  ASSUME ParserInv, TreeInv, PrecedenceInv, stack # <<>>
  PROVE  IsFrame(Top)
  BY SomeLinking, LinkingFacts

LEMMA PrecParsePackage == ParserInv /\ TreeInv /\ PrecedenceInv /\ parse_package => PrecedenceInv'
<1> SUFFICES ASSUME ParserInv, TreeInv, PrecedenceInv, parse_package PROVE PrecedenceInv'
  OBVIOUS
<1>1. stack # <<>> /\ Top.todo # <<>> /\ Item.do = "notempty"
  BY DEF parse_package, Doing
<1>2. CASE Content(previous) # <<>>
  <2>1. Continue(Then(<<>>))
    BY <1>2 DEF parse_package
  <2>2. Becomes(Then(<<>>), <<>>, Top.kids, Top.op)
    BY <1>1, TopIsFrame, ThenParts
  <2> QED BY <1>1, <2>1, <2>2, NoItems, PrecRow
<1>3. CASE ~(Content(previous) # <<>>)
  BY <1>3, PrecThrow DEF parse_package, Throw
<1> QED BY <1>2, <1>3

LEMMA PrecOptional == ParserInv /\ TreeInv /\ PrecedenceInv /\ Optional => PrecedenceInv'
<1> SUFFICES ASSUME ParserInv, TreeInv, PrecedenceInv, Optional PROVE PrecedenceInv'
  OBVIOUS
<1>1. stack # <<>> /\ Top.todo # <<>> /\ Item.do = "opt"
  BY DEF Optional, Doing
<1>2. PICK items \in {Item.yes, Item.no} : Continue(Then(items)) \/ Consumes(Then(items))
  BY DEF Optional
<1>3. IsItem(Item) => IsRow(items)
  BY <1>1, ItemHasRows
<1>4. Becomes(Then(items), items, Top.kids, Top.op)
  BY <1>1, TopIsFrame, ThenParts
<1> QED BY <1>1, <1>2, <1>3, <1>4, PrecRow

LEMMA PrecConvertLiteral == ParserInv /\ TreeInv /\ PrecedenceInv /\ ConvertLiteral => PrecedenceInv'
<1> SUFFICES ASSUME ParserInv, TreeInv, PrecedenceInv, ConvertLiteral PROVE PrecedenceInv'
  OBVIOUS
<1>1. stack # <<>> /\ Top.todo # <<>> /\ Item.do = "convert"
  BY DEF ConvertLiteral, Doing
<1>2. CASE Unconvertible(previous)
  BY <1>2, PrecThrow DEF ConvertLiteral
<1>3. CASE ~Unconvertible(previous)
  <2>1. Continue(Then(<<>>))
    BY <1>3 DEF ConvertLiteral
  <2>2. Becomes(Then(<<>>), <<>>, Top.kids, Top.op)
    BY <1>1, TopIsFrame, ThenParts
  <2> QED BY <1>1, <2>1, <2>2, NoItems, PrecRow
<1> QED BY <1>2, <1>3

LEMMA PrecKids ==
  ParserInv /\ TreeInv /\ PrecedenceInv /\ (NoChild \/ SetDefault \/ DropChild) => PrecedenceInv'
<1> SUFFICES ASSUME ParserInv, TreeInv, PrecedenceInv PROVE NoChild \/ SetDefault \/ DropChild => PrecedenceInv'
  OBVIOUS
<1>1. ASSUME NoChild PROVE PrecedenceInv'
  <2>1. stack # <<>> /\ Top.todo # <<>> /\ Item.do = "nonode"
    BY <1>1 DEF NoChild, Doing
  <2>2. Becomes(With(Then(<<>>), Null), <<>>, Append(Top.kids, Null), Top.op)
    BY <2>1, TopIsFrame, WithParts
  <2>3. Continue(With(Then(<<>>), Null))
    BY <1>1 DEF NoChild
  <2> QED BY <2>1, <2>2, <2>3, NoItems, PrecRow
<1>2. ASSUME SetDefault PROVE PrecedenceInv'
  <2>1. stack # <<>> /\ Top.todo # <<>> /\ Item.do = "default"
    BY <1>2 DEF SetDefault, Doing
  <2>2. Then(<<>>).kids = Top.kids
    BY <2>1, TopIsFrame, ThenParts, BecomesFacts
  <2>3. PICK kids : Continue([Then(<<>>) EXCEPT !.kids = kids])
    BY <1>2 DEF SetDefault
  <2>4. Becomes([Then(<<>>) EXCEPT !.kids = kids], <<>>, kids, Top.op)
    BY <2>1, TopIsFrame, ThenParts
  <2> QED BY <2>1, <2>3, <2>4, NoItems, PrecRow
<1>3. ASSUME DropChild PROVE PrecedenceInv'
  <2>1. stack # <<>> /\ Top.todo # <<>> /\ Item.do = "discard"
    BY <1>3 DEF DropChild, Doing
  <2>2. Becomes([Then(<<>>) EXCEPT !.kids = <<>>], <<>>, <<>>, Top.op)
    BY <2>1, TopIsFrame, ThenParts
  <2>3. Continue([Then(<<>>) EXCEPT !.kids = <<>>])
    BY <1>3 DEF DropChild
  <2> QED BY <2>1, <2>2, <2>3, NoItems, PrecRow
<1> QED BY <1>1, <1>2, <1>3

LEMMA PrecOutside ==
  ParserInv /\ TreeInv /\ PrecedenceInv
    /\ (must_match_fails \/ precendece_NoRule \/ precendece_NullPrefix \/ Recover) => PrecedenceInv'
<1> SUFFICES ASSUME ParserInv, TreeInv, PrecedenceInv
             PROVE  must_match_fails \/ precendece_NoRule \/ precendece_NullPrefix \/ Recover => PrecedenceInv'
  OBVIOUS
<1>1. must_match_fails \/ precendece_NoRule => PrecedenceInv'
  BY PrecThrow DEF must_match_fails, precendece_NoRule, Throw
<1>2. precendece_NullPrefix => PrecedenceInv'
  BY DEF precendece_NullPrefix, PrecedenceInv
<1>3. ASSUME Recover PROVE PrecedenceInv'
  <2>1. text' = text /\ (tokens' = tokens \/ advance) /\ nodes' = nodes /\ stack' = stack /\ mode = "skip"
    BY <1>3 DEF Recover
  <2>2. stack' = <<>>
    BY <2>1 DEF ParserInv, Skipping
  <2>3. Extends(nodes, nodes') /\ \A n \in DOMAIN nodes' : n \in DOMAIN nodes
    BY <2>1, SameExtends DEF ParserInv, Sequences
  <2> QED BY <2>1, <2>2, <2>3, PrecStep
<1> QED BY <1>1, <1>2, <1>3

LEMMA PrecDeclaration == ParserInv /\ TreeInv /\ PrecedenceInv /\ Declaration => PrecedenceInv'
<1> SUFFICES ASSUME ParserInv, TreeInv, PrecedenceInv, Declaration PROVE PrecedenceInv'
  OBVIOUS
<1> DEFINE h == Called(declaration(peek.kind))
<1>1. stack' = <<h>> /\ UNCHANGED <<text, tokens, nodes>>
  BY DEF Declaration
<1>2. h.todo = declaration(peek.kind)
  BY DEF Called, Frame
<1> HIDE DEF h
<1>3. stack' = Append(<<>>, h)
  <2>1. <<h>> = Append(<<>>, h)
    OBVIOUS
  <2> QED BY <1>1, <2>1
<1>4. IsRow(h.todo)
  BY <1>2, DeclarationFacts DEF DeclarationRow
<1>5. LastOf(<<>>) = Root /\ Root.todo = <<>>
  BY DEF LastOf, Root
<1>6. RowHere(Root, h)
  BY <1>4, <1>5, NoItems DEF RowHere
<1>7. LinkActs(LastOf(<<>>), h, nodes', tokens')
  BY <1>5, <1>6, RowActs
<1>8. Linked(<<>>, nodes, tokens)
  BY NoKids DEF Linked
<1>9. Extends(nodes, nodes') /\ \A n \in DOMAIN nodes' : n \in DOMAIN nodes
  BY <1>1, SameExtends DEF ParserInv, Sequences
<1> QED BY <1>1, <1>3, <1>7, <1>8, <1>9, PrecStep

(* The innermost frame waits for its item to return, another one acts. *)
LEMMA PrecCalls ==
  ASSUME ParserInv, TreeInv, PrecedenceInv, UNCHANGED <<text, tokens, nodes>>,
         NEW r, Linked(r, nodes, tokens), NEW h, stack' = Append(r, h), LinkActs(LastOf(r), h, nodes, tokens)
  PROVE  PrecedenceInv'
<1>1. Extends(nodes, nodes') /\ \A n \in DOMAIN nodes' : n \in DOMAIN nodes
  BY SameExtends DEF ParserInv, Sequences
<1>2. LinkActs(LastOf(r), h, nodes', tokens')
  OBVIOUS
<1> QED BY <1>1, <1>2, PrecStep

LEMMA PrecCallFunction == ParserInv /\ TreeInv /\ PrecedenceInv /\ CallFunction => PrecedenceInv'
<1> SUFFICES ASSUME ParserInv, TreeInv, PrecedenceInv, CallFunction PROVE PrecedenceInv'
  OBVIOUS
<1>1. Doing("sub") /\ stack # <<>> /\ Item.do = "sub" /\ Top.todo # <<>>
  BY DEF CallFunction, Doing
<1>2. PICK r, f, a : Linking(r, f, a)
  BY <1>1, SomeLinking
<1>3. /\ Acting(r, f, a) /\ Top = f /\ IsFrame(Top) /\ Head(f.todo) = Item /\ LinkActs(LastOf(r), f, nodes, tokens)
      /\ Linked(r, nodes, tokens) /\ \A g : Set(g) = Append(r, g)
  BY <1>2, LinkingFacts
<1>4. Item.fn \in ItsRows
  <2>1. PICK m : Leads(Item, a, m)
    BY <1>1, <1>3, ActingFacts, FirstItem
  <2>2. "sub" \in Flat
    BY DEF Flat
  <2> QED BY <1>1, <2>1, <2>2, FlatItem DEF FlatLeads
<1> DEFINE g == Then(<<>>)
           h == Called(Row(Item.fn, peek.kind))
<1>5. Becomes(g, <<>>, f.kids, Top.op)
  BY <1>3, ThenParts
<1>6. stack' = Append(r, g) \o <<h>> /\ UNCHANGED <<text, tokens, nodes>>
  BY <1>3 DEF CallFunction, Pushes
<1>7. h.todo = Row(Item.fn, peek.kind)
  BY DEF Called, Frame
<1> HIDE DEF g, h
<1>8. g.todo = <<>> \o Tail(f.todo) /\ g.first = f.first
  BY <1>3, <1>5, BecomesFacts
<1>9. RowHere(LastOf(r), f)
  BY <1>1, <1>3, OnlyRows
<1>10. RowHere(LastOf(r), g)
  BY <1>1, <1>3, <1>8, <1>9, NoItems, RowGoes
<1>11. LinkWaits(LastOf(r), g, nodes, tokens)
  BY <1>10, RowActs
<1>12. Linked(Append(r, g), nodes, tokens) /\ LastOf(Append(r, g)) = g
  BY <1>3, <1>11, LinkedMore
<1>13. LinkActs(g, h, nodes, tokens)
  <2>1. IsRow(g.todo)
    BY <1>10 DEF RowHere, AtomRow
  <2>2. IsRow(h.todo)
    BY <1>4, <1>7, CalledRows
  <2>3. RowHere(g, h)
    BY <2>1, <2>2 DEF RowHere
  <2> QED BY <2>3, RowActs
<1>14. stack' = Append(Append(r, g), h)
  <2>1. IsSeq(Append(r, g))
    BY <1>12 DEF Linked
  <2> QED BY <1>6, <2>1, StackGrows
<1> QED BY <1>6, <1>12, <1>13, <1>14, PrecCalls

LEMMA NodesDiffer ==
  /\ UnaryNode # BinaryNode
  /\ \A z \in AssignNodes : z # UnaryNode /\ z # BinaryNode
  /\ ~IsItem(UnaryNode) /\ ~IsItem(BinaryNode) /\ ~IsItem(CallNode) /\ ~IsItem(Single)
  /\ \A z \in AssignNodes : ~IsItem(z)
  /\ \A p : ~IsItem(Infix(p))
<1> DEFINE un == UnaryNode
           bin == BinaryNode
           call == CallNode
           one == Single
<1>1. /\ un.kind = "ExpressionUnaryOp" /\ bin.kind = "ExpressionBinaryOp" /\ call.kind = "ExpressionCall"
      /\ \A z \in AssignNodes : z.kind \in {"ExpressionRange", "ExpressionAssignment"}
  BY ItemParts
<1>2. un.do = "node" /\ bin.do = "node" /\ call.do = "node" /\ one.do = "single"
  BY ItemDoes
<1>3. (\A z \in AssignNodes : z.do = "node") /\ \A p : Infix(p).do = "infix"
  BY ItemDoes
<1> HIDE DEF un, bin, call, one
<1>4. un # bin /\ \A z \in AssignNodes : z # un /\ z # bin
  BY <1>1
<1>5. \A x : IsItem(x) => x.do \notin {"infix", "single"} /\ (x.do = "node" => x.kind \notin Operations)
  BY ItemHasRows DEF Plain
<1>6. ~IsItem(un) /\ ~IsItem(bin) /\ ~IsItem(call) /\ ~IsItem(one)
  BY <1>1, <1>2, <1>5 DEF Operations
<1>7. \A z \in AssignNodes : ~IsItem(z)
  BY <1>1, <1>3, <1>5 DEF Operations
<1>8. \A p : ~IsItem(Infix(p))
  BY <1>3, <1>5
<1> QED BY <1>4, <1>6, <1>7, <1>8 DEF un, bin, call, one

LEMMA RowsOfOne ==
  /\ \A x, y : Row1(x) = Row1(y) => x = y
  /\ \A x : IsRow(Row1(x)) => IsItem(x)
  /\ \A z : IsRow(Parted(z)) => IsItem(z)
  /\ \A x, z : x.do # "delim" => Row1(x) # Parted(z)
<1>1. \A x, y : Row1(x) = Row1(y) => x = y
  <2> SUFFICES ASSUME NEW x, NEW y, Row1(x) = Row1(y) PROVE x = y
    OBVIOUS
  <2>1. Head(Row1(x)) = x /\ Head(Row1(y)) = y
    BY RowFacts
  <2> QED BY <2>1
<1>2. ASSUME NEW x, IsRow(Row1(x)) PROVE IsItem(x)
  <2>1. Row1(x) # <<>> /\ Head(Row1(x)) = x
    BY RowFacts
  <2> QED BY <1>2, <2>1, RestOfRow
<1>3. ASSUME NEW z, IsRow(Parted(z)) PROVE IsItem(z)
  <2> DEFINE x == Comma
             y == List(")")
  <2>1. Parted(z) = Row3(x, y, z)
    BY DEF Parted
  <2> HIDE DEF x, y
  <2>2. DOMAIN Row3(x, y, z) = 1 .. 3 /\ Row3(x, y, z)[3] = z
    BY DEF Row3
  <2> QED BY <1>3, <2>1, <2>2 DEF IsRow
<1>4. ASSUME NEW x, NEW z, x.do # "delim" PROVE Row1(x) # Parted(z)
  <2>1. Head(Row1(x)) = x
    BY RowFacts
  <2>2. Head(Parted(z)).do = "delim"
    BY ListStates
  <2> QED BY <1>4, <2>1, <2>2
<1> QED BY <1>1, <1>2, <1>3, <1>4

LEMMA LevelFacts ==
  ASSUME NEW e
  PROVE  /\ IsRow(e.todo) => Level(e) = ASSIGNMENT /\ e.todo # Parted(Single)
         /\ e.todo = Row1(UnaryNode) => Level(e) = UNARY /\ e.todo # Parted(Single)
         /\ e.todo = Row1(BinaryNode) => Level(e) = PrecedenceOf(e.op) + 1 /\ e.todo # Parted(Single)
         /\ \A z \in AssignNodes : e.todo = Row1(z) => Level(e) = ASSIGNMENT /\ e.todo # Parted(Single)
         /\ \A z : e.todo = Parted(z) => Level(e) = ASSIGNMENT
<1> DEFINE un == UnaryNode
           bin == BinaryNode
<1>1. un # bin /\ ~IsItem(un) /\ ~IsItem(bin) /\ \A z \in AssignNodes : z # un /\ z # bin
  BY NodesDiffer
<1>2. un.do = "node" /\ bin.do = "node" /\ \A z \in AssignNodes : z.do = "node"
  BY ItemDoes
<1>3. Level(e) = IF e.todo = Row1(un) THEN UNARY
                 ELSE IF e.todo = Row1(bin) THEN PrecedenceOf(e.op) + 1 ELSE ASSIGNMENT
  BY DEF Level
<1>4. ~IsItem(Single)
  BY NodesDiffer
<1> HIDE DEF un, bin
<1>5. IsRow(e.todo) => e.todo # Row1(un) /\ e.todo # Row1(bin) /\ e.todo # Parted(Single)
  BY <1>1, <1>4, RowsOfOne
<1>6. e.todo = Row1(un) => e.todo # Parted(Single)
  BY <1>2, RowsOfOne
<1>7. e.todo = Row1(bin) => e.todo # Row1(un) /\ e.todo # Parted(Single)
  BY <1>1, <1>2, RowsOfOne
<1>8. \A z \in AssignNodes : e.todo = Row1(z) => e.todo # Row1(un) /\ e.todo # Row1(bin) /\ e.todo # Parted(Single)
  BY <1>1, <1>2, RowsOfOne
<1>9. \A z : e.todo = Parted(z) => e.todo # Row1(un) /\ e.todo # Row1(bin)
  BY <1>2, RowsOfOne
<1> QED BY <1>3, <1>5, <1>6, <1>7, <1>8, <1>9 DEF un, bin

LEMMA NotInfix ==
  ASSUME NEW t
  PROVE  /\ IsRow(t) /\ t # <<>> => Head(t).do # "infix"
         /\ \A z : z.do = "node" /\ t = Row1(z) => Head(t).do # "infix"
         /\ \A z : t = Parted(z) => Head(t).do # "infix"
<1>1. IsRow(t) /\ t # <<>> => Head(t).do # "infix"
  BY RestOfRow, ItemHasRows DEF Plain
<1>2. \A z : z.do = "node" /\ t = Row1(z) => Head(t).do # "infix"
  BY RowFacts
<1>3. \A z : t = Parted(z) => Head(t).do # "infix"
  BY ListStates
<1> QED BY <1>1, <1>2, <1>3

LEMMA PrecHas == \A n : Prec(n).prec = n
  BY ItemParts

(* A frame that has come to an operand: it waits, for its loop l. *)
LEMMA OperandStarts ==
  ASSUME NEW e, NEW f, NEW made, NEW ts, LinkActs(e, f, made, ts), f.todo # <<>>,
         Head(f.todo).do = "precedence", NEW g, Moves(f, g, <<>>), g.op = f.op,
         NEW l, l.todo = Row1(Infix(Head(f.todo).prec)), l.kids = <<>>, l.first = Len(ts)
  PROVE  /\ LinkWaits(e, g, made, ts) /\ LinkWaits(g, l, made, ts)
         /\ Head(f.todo).prec \in 1 .. NONE
<1>0. g.todo = After(<<>>, f.todo) /\ g.first = f.first /\ g.kids = f.kids
  BY DEF Moves
<1> DEFINE q == Head(f.todo).prec
<1>1. SUFFICES LinkWaits(e, g, made, ts) /\ Asks(g, l) /\ Level(g) = q
  BY DEF LinkWaits, Asks
<1>2. CASE RowHere(e, f)
  <2>1. q = ASSIGNMENT
    BY <1>2, RowHeads
  <2>2. g.todo = <<>> \o Tail(f.todo)
    BY <1>0 DEF After
  <2>3. RowHere(e, g)
    BY <1>0, <1>2, <2>2, NoItems, RowGoes
  <2>4. IsRow(g.todo)
    BY <2>3 DEF RowHere, AtomRow
  <2>5. Level(g) = ASSIGNMENT /\ g.todo # Parted(Single)
    BY <2>4, LevelFacts
  <2>6. g.todo # <<>> => Head(g.todo).do # "infix"
    BY <2>4, NotInfix
  <2>7. Asks(g, l)
    BY <2>5, <2>6 DEF Asks, ASSIGNMENT, NONE
  <2> QED BY <2>1, <2>3, <2>5, <2>7, RowActs
<1>3. CASE OperatorHere(e, f, made, ts)
  <2>1. PICK p \in 1 .. NONE : e.todo = Row1(Infix(p)) /\ f.first = e.first /\ OperatorActs(f, p, made, ts)
    BY <1>3 DEF OperatorHere
  <2>2. OperandWaits(g, p, made, ts) => LinkWaits(e, g, made, ts)
    BY <1>0, <2>1 DEF LinkWaits
  <2>3. CASE UnaryActs(f, made, ts)
    <3>1. Head(f.todo) = Prec(UNARY) /\ g.todo = Row1(UnaryNode) /\ g.kids = <<>>
      BY <1>0, <2>3, UnaryAt
    <3>2. q = UNARY
      BY <3>1, PrecHas
    <3>3. Level(g) = UNARY /\ g.todo # Parted(Single) /\ Head(g.todo).do # "infix"
      <4>1. UnaryNode.do = "node"
        BY ItemDoes
      <4> QED BY <3>1, <4>1, LevelFacts, NotInfix
    <3>4. Asks(g, l)
      BY <3>3 DEF Asks, UNARY, NONE
    <3> QED BY <2>2, <3>1, <3>2, <3>3, <3>4 DEF OperandWaits
  <2>4. CASE BinaryActs(f, p, made, ts)
    <3>1. /\ Head(f.todo) = Prec(PrecedenceOf(f.op) + 1) /\ g.todo = Row1(BinaryNode)
          /\ LeftOf(f, f.op, p, made, ts)
      BY <1>0, <2>4, BinaryAt
    <3>2. q = PrecedenceOf(f.op) + 1
      BY <3>1, PrecHas
    <3>3. Level(g) = PrecedenceOf(f.op) + 1 /\ g.todo # Parted(Single) /\ Head(g.todo).do # "infix"
      <4>1. BinaryNode.do = "node"
        BY ItemDoes
      <4> QED BY <3>1, <4>1, LevelFacts, NotInfix
    <3>4. PrecedenceOf(f.op) \in 2 .. 10
      BY <3>1, PrecedenceFacts DEF LeftOf
    <3>5. Asks(g, l)
      BY <3>3, <3>4 DEF Asks, NONE
    <3>6. LeftOf(g, g.op, p, made, ts)
      BY <1>0, <3>1 DEF LeftOf
    <3> QED BY <2>2, <3>1, <3>2, <3>3, <3>5, <3>6 DEF OperandWaits
  <2>5. CASE AssignActs(f, p, made, ts)
    <3>1. PICK z \in AssignNodes : Head(f.todo) = Prec(ASSIGNMENT) /\ g.todo = Row1(z)
      BY <1>0, <2>5, AssignAt
    <3>2. q = ASSIGNMENT
      BY <3>1, PrecHas
    <3>3. Level(g) = ASSIGNMENT /\ g.todo # Parted(Single) /\ Head(g.todo).do # "infix"
      <4>1. z.do = "node"
        BY ItemDoes
      <4> QED BY <3>1, <4>1, LevelFacts, NotInfix
    <3>4. Asks(g, l)
      BY <3>3 DEF Asks, ASSIGNMENT, NONE
    <3>5. p = ASSIGNMENT /\ OperandBinds(g.kids, 1, ASSIGNMENT + 1, made, ts)
      BY <1>0, <2>5 DEF AssignActs
    <3> QED BY <2>2, <3>1, <3>2, <3>3, <3>4, <3>5 DEF OperandWaits
  <2>6. CASE CallActs(f, p, made, ts)
    <3>0. f.todo = Entering(CallNode)
      BY <2>6, CallStates
    <3>9. Head(Entering(CallNode)) = Prec(ASSIGNMENT) /\ After(<<>>, Entering(CallNode)) = Parted(CallNode)
      BY ListStates
    <3>1. Head(f.todo) = Prec(ASSIGNMENT) /\ g.todo = Parted(CallNode)
      BY <1>0, <3>0, <3>9
    <3>2. q = ASSIGNMENT
      BY <3>1, PrecHas
    <3>3. Level(g) = ASSIGNMENT /\ Head(g.todo).do # "infix"
      BY <3>1, LevelFacts, NotInfix
    <3>4. Parted(CallNode) # Parted(Single)
      <4>1. \A z : Parted(z) = Row3(Comma, List(")"), z)
        BY DEF Parted
      <4>2. \A x, y, z : Row3(x, y, z)[3] = z
        BY DEF Row3
      <4>3. CallNode.do # Single.do
        BY ItemDoes
      <4> QED BY <4>1, <4>2, <4>3
    <3>5. Asks(g, l)
      BY <3>1, <3>3, <3>4 DEF Asks, ASSIGNMENT, NONE
    <3>6. p <= CALL /\ OperandBinds(g.kids, 1, CALL, made, ts)
      BY <1>0, <2>6 DEF CallActs
    <3> QED BY <2>2, <3>1, <3>2, <3>3, <3>5, <3>6 DEF OperandWaits
  <2>7. CASE TupleActs(f, made, ts)
    <3>0. f.todo = Entering(Single)
      BY <2>7, TupleIsAt
    <3>9. Head(Entering(Single)) = Prec(ASSIGNMENT) /\ After(<<>>, Entering(Single)) = Parted(Single)
      BY ListStates
    <3>1. Head(f.todo) = Prec(ASSIGNMENT) /\ g.todo = Parted(Single)
      BY <1>0, <3>0, <3>9
    <3>2. q = ASSIGNMENT
      BY <3>1, PrecHas
    <3>3. Level(g) = ASSIGNMENT /\ Head(g.todo).do # "infix"
      BY <3>1, LevelFacts, NotInfix
    <3>4. Opened(g, ts) /\ (Len(g.kids) = 0 => l.first = g.first + 1)
      BY <1>0, <2>7, <3>0, TupleStates DEF Opened
    <3>5. Asks(g, l)
      BY <3>1, <3>3, <3>4 DEF Asks, ASSIGNMENT, NONE
    <3> QED BY <2>2, <3>1, <3>2, <3>3, <3>4, <3>5 DEF OperandWaits
  <2> QED BY <2>1, <2>3, <2>4, <2>5, <2>6, <2>7 DEF OperatorActs
<1>4. CASE LoopHere(e, f, made, ts)
  BY <1>4, NoLoopHere
<1> QED BY <1>2, <1>3, <1>4, IsHere

LEMMA PrecPrecendece == ParserInv /\ TreeInv /\ PrecedenceInv /\ precendece => PrecedenceInv'
<1> SUFFICES ASSUME ParserInv, TreeInv, PrecedenceInv, precendece PROVE PrecedenceInv'
  OBVIOUS
<1>1. /\ Doing("precedence") /\ stack # <<>> /\ Item.do = "precedence" /\ Top.todo # <<>>
      /\ peek.kind \in PrefixToken
  BY DEF precendece, Doing
<1>2. PICK r, f, a : Linking(r, f, a)
  BY <1>1, SomeLinking
<1>3. /\ Top = f /\ IsFrame(Top) /\ Head(f.todo) = Item /\ LinkActs(LastOf(r), f, nodes, tokens)
      /\ Linked(r, nodes, tokens) /\ \A x : Set(x) = Append(r, x)
  BY <1>2, LinkingFacts
<1> DEFINE g == Then(<<>>)
           q == Item.prec
           l == Called(Row1(Infix(q)))
           h == Called(PrefixRow(peek.kind))
<1>4. Becomes(g, <<>>, f.kids, Top.op)
  BY <1>3, ThenParts
<1>5. stack' = Append(r, g) \o <<l, h>> /\ UNCHANGED <<text, tokens, nodes>>
  BY <1>3 DEF precendece, Pushes, Row1
<1>6. /\ l.todo = Row1(Infix(q)) /\ l.kids = <<>> /\ l.first = Len(tokens)
      /\ h.todo = PrefixRow(peek.kind) /\ h.kids = <<>> /\ h.first = Len(tokens)
  BY DEF Called, Frame
<1> HIDE DEF g, l, h
<1>7. Moves(f, g, <<>>) /\ g.op = f.op
  BY <1>2, <1>3, <1>4, MovesOn
<1>8. LinkWaits(LastOf(r), g, nodes, tokens) /\ LinkWaits(g, l, nodes, tokens) /\ q \in 1 .. NONE
  BY <1>1, <1>3, <1>6, <1>7, OperandStarts
<1>9. Linked(Append(r, g), nodes, tokens) /\ LastOf(Append(r, g)) = g
  BY <1>3, <1>8, LinkedMore
<1>10. Linked(Append(Append(r, g), l), nodes, tokens) /\ LastOf(Append(Append(r, g), l)) = l
  BY <1>8, <1>9, LinkedMore
<1>11. LinkActs(l, h, nodes, tokens)
  <2>1. OperandActs(h, q, nodes, tokens)
    BY <1>1, <1>6, PrefixActs
  <2> QED BY <1>6, <1>8, <2>1 DEF LinkActs
<1>12. stack' = Append(Append(Append(r, g), l), h)
  <2>1. IsSeq(Append(r, g))
    BY <1>9 DEF Linked
  <2> QED BY <1>5, <2>1, StackGrows
<1> QED BY <1>5, <1>10, <1>11, <1>12, PrecCalls

LEMMA PrecInfixLoop == ParserInv /\ TreeInv /\ PrecedenceInv /\ InfixLoop => PrecedenceInv'
<1> SUFFICES ASSUME ParserInv, TreeInv, PrecedenceInv, InfixLoop PROVE PrecedenceInv'
  OBVIOUS
<1>1. Doing("infix") /\ stack # <<>> /\ Item.do = "infix" /\ Top.todo # <<>>
  BY DEF InfixLoop, Doing
<1>2. PICK r, f, a : Linking(r, f, a)
  BY <1>1, SomeLinking
<1>3. /\ Top = f /\ IsFrame(Top) /\ Head(f.todo) = Item /\ LinkActs(LastOf(r), f, nodes, tokens)
      /\ Linked(r, nodes, tokens) /\ peek.kind = NextKind(tokens) /\ \A x : Set(x) = Append(r, x)
  BY <1>2, LinkingFacts
<1> DEFINE e == LastOf(r)
           p == Level(e)
<1>4. LoopHere(e, f, nodes, tokens)
  <2>1. ~RowHere(e, f)
    BY <1>1, <1>3, RowHeads
  <2>2. ~OperatorHere(e, f, nodes, tokens)
    BY <1>1, <1>3, OperatorHeads
  <2> QED BY <1>1, <1>3, <2>1, <2>2, IsHere
<1>5. /\ Asks(e, f) /\ p \in 1 .. NONE /\ f.todo = Row1(Infix(p)) /\ Item = Infix(p)
      /\ Result(f.kids, f.first, p, nodes, tokens)
  <2>1. Head(f.todo) = Infix(p) /\ f.todo = Row1(Infix(p))
    BY <1>4, NoLoopHere
  <2> QED BY <1>3, <1>4, <2>1 DEF LoopHere, Asks
<1>6. Item.prec = p
  BY <1>5, ItemParts
<1> HIDE DEF p
<1>7. CASE ~Continues(Item.prec)
  <2> DEFINE g == Then(<<>>)
  <2>1. Continue(g)
    BY <1>7 DEF InfixLoop
  <2>2. Becomes(g, <<>>, f.kids, Top.op) /\ Set(g) = Append(r, g)
    BY <1>3, ThenParts
  <2> HIDE DEF g
  <2>3. g.todo = After(<<>>, f.todo) /\ g.kids = f.kids /\ g.first = f.first
    BY <1>2, <2>2, MovesOn DEF Moves
  <2>4. g.todo = <<>>
    BY <1>5, <2>3, AfterFacts
  <2>5. Stops(p, tokens)
    <3>1. NextKind(tokens) \in InfixToken => ~(p <= PrecedenceOf(NextKind(tokens)))
      BY <1>3, <1>6, <1>7 DEF Continues
    <3>2. NextKind(tokens) \in InfixToken => PrecedenceOf(NextKind(tokens)) \in 1 .. 10
      BY PrecedenceFacts
    <3> QED BY <1>5, <3>1, <3>2 DEF Stops, NONE
  <2>6. LoopActs(g, p, nodes, tokens)
    BY <1>5, <2>3, <2>4, <2>5 DEF LoopActs
  <2>7. Asks(e, g)
    BY <1>5, <2>3 DEF Asks
  <2>8. LinkActs(e, g, nodes, tokens)
    BY <2>6, <2>7 DEF LinkActs, p
  <2>9. UNCHANGED <<text, nodes>> /\ tokens' = tokens /\ stack' = Append(r, g)
    BY <2>1, <2>2 DEF Continue
  <2> QED BY <1>2, <2>8, <2>9, PrecFrame
<1>8. CASE Continues(Item.prec)
  <2> DEFINE g == [Top EXCEPT !.kids = <<>>]
             h == Frame(InfixRow(peek.kind), Top.kids, Top.first)
  <2>1. stack' = Append(Append(r, g), h) /\ UNCHANGED <<text, tokens, nodes>>
    BY <1>3, <1>8 DEF InfixLoop
  <2>2. g.todo = f.todo /\ g.kids = <<>> /\ g.first = f.first
    BY <1>3 DEF IsFrame
  <2>3. h.todo = InfixRow(NextKind(tokens)) /\ h.kids = f.kids /\ h.first = f.first
    BY <1>3 DEF Frame
  <2> HIDE DEF g, h
  <2>4. LinkWaits(e, g, nodes, tokens)
    <3>1. Asks(e, g)
      BY <1>5, <2>2 DEF Asks
    <3> QED BY <1>5, <2>2, <3>1 DEF LinkWaits, p
  <2>5. Linked(Append(r, g), nodes, tokens) /\ LastOf(Append(r, g)) = g
    BY <1>3, <2>4, LinkedMore
  <2>6. NextKind(tokens) \in InfixToken /\ p <= PrecedenceOf(NextKind(tokens))
    BY <1>3, <1>6, <1>8 DEF Continues
  <2>7. Result(h.kids, h.first, p, nodes, tokens)
    BY <1>5, <2>3
  <2>8. OperandActs(h, p, nodes, tokens)
    BY <1>5, <2>3, <2>6, <2>7, InfixActs
  <2>9. LinkActs(g, h, nodes, tokens)
    BY <1>5, <2>2, <2>3, <2>8 DEF LinkActs
  <2> QED BY <2>1, <2>5, <2>9, PrecCalls
<1> QED BY <1>7, <1>8

-----------------------------------------------------------------------------
(* Steps that make a node                                                  *)

LEMMA AtomRowEnds ==
  ASSUME NEW r, AtomRow(r), Tail(r) # <<>>
  PROVE  AtomRow(Tail(r))
<1> DEFINE s == Tail(r)
<1>1. IsSeq(r) /\ r # <<>> /\ r[Len(r)].do = "node" /\ IsRow(s)
  BY RestOfRow DEF AtomRow, IsRow
<1>2. /\ IsSeq(s) /\ Len(s) = Len(r) - 1 /\ Len(r) \in Nat \ {0}
      /\ \A i \in 1 .. Len(r) - 1 : s[i] = r[i + 1]
  BY <1>1, TailFacts
<1>3. s # <<>>
  OBVIOUS
<1> HIDE DEF s
<1>4. s[Len(s)] = r[Len(r)]
  <2>1. Len(s) # 0
    BY <1>2, <1>3, IsSeqFacts
  <2>2. Len(s) \in 1 .. Len(r) - 1 /\ Len(s) + 1 = Len(r)
    BY <1>2, <2>1
  <2> QED BY <1>2, <2>2
<1> QED BY <1>1, <1>3, <1>4 DEF AtomRow, s

LEMMA NoAfter == ASSUME NEW r, IsRow(r), r # <<>> PROVE After(<<>>, r) = Tail(r)
<1>1. IsSeq(Tail(r))
  BY RestOfRow DEF IsRow
<1> QED BY <1>1, NothingJoins DEF After

(* The frame g has the node n behind the last item but one. *)
NodeHere(f, g, n, kind, made, ts) ==
  /\ g.todo = After(<<>>, f.todo) /\ g.first = f.first
  /\ IsSeq(g.kids) /\ Len(g.kids) = 1 /\ g.kids[1] = n /\ n \in DOMAIN made
  /\ made[n].kind = kind /\ made[n].kids = f.kids /\ made[n].op = f.op
  /\ made[n].lo = f.first /\ made[n].hi = Len(ts)

LEMMA MadeResult ==
  ASSUME NEW f, NEW g, NEW n, NEW kind, NEW made, NEW ts, NodeHere(f, g, n, kind, made, ts),
         NEW p \in 1 .. NONE, p <= Strength(made[n]),
         NextKind(ts) \in InfixToken => 2 <= Strength(made[n]) /\ PrecedenceOf(NextKind(ts)) <= Strength(made[n])
  PROVE  Result(g.kids, g.first, p, made, ts)
<1>1. 1 \in DOMAIN g.kids /\ g.kids[1] \in DOMAIN made /\ made[g.kids[1]] = made[n] /\ Len(g.kids) = 1 /\ IsSeq(g.kids)
  BY IsSeqFacts DEF NodeHere
<1>2. \A q : q <= Strength(made[n]) => OperandBinds(g.kids, 1, q, made, ts)
  BY <1>1 DEF OperandBinds, Binds
<1>3. Placed(made[g.kids[1]], g.first, ts)
  BY <1>1 DEF Placed, NodeHere
<1>4. ASSIGNMENT + 1 = 2
  BY DEF ASSIGNMENT
<1> QED BY <1>1, <1>2, <1>3, <1>4 DEF Result

LEMMA OperandIsLink ==
  ASSUME NEW e, NEW f, NEW made, NEW ts, NEW p \in 1 .. NONE, e.todo = Row1(Infix(p)), f.first = e.first,
         OperandActs(f, p, made, ts)
  PROVE  LinkActs(e, f, made, ts)
  BY DEF LinkActs

LEMMA AtomMade ==
  ASSUME NEW e, NEW f, RowHere(e, f), f.todo # <<>>, NEW g, NEW n, NEW kind, NEW made, NEW ts,
         NodeHere(f, g, n, kind, made, ts), kind \notin Operations
  PROVE  LinkActs(e, g, made, ts) /\ Fits(made[n], made, ts)
<1>1. made[n].kind = kind /\ g.todo = After(<<>>, f.todo) /\ g.first = f.first
  BY DEF NodeHere
<1>2. Fits(made[n], made, ts)
  BY <1>1 DEF Fits, Operations
<1>3. Strength(made[n]) = 11
  BY <1>1, StrengthFacts DEF Atom, NONE
<1>4. CASE \E p \in 1 .. NONE : e.todo = Row1(Infix(p)) /\ f.first = e.first /\ AtomRow(f.todo)
  <2>1. PICK p \in 1 .. NONE : e.todo = Row1(Infix(p)) /\ f.first = e.first /\ AtomRow(f.todo)
    BY <1>4
  <2>2. g.todo = Tail(f.todo)
    BY <1>1, <2>1, NoAfter DEF AtomRow
  <2>3. CASE g.todo = <<>>
    <3>1. NextKind(ts) \in InfixToken => PrecedenceOf(NextKind(ts)) <= 11
      BY PrecedenceFacts
    <3>2. p <= 11
      BY DEF NONE
    <3>3. Result(g.kids, g.first, p, made, ts)
      BY <1>3, <3>1, <3>2, MadeResult
    <3>4. OperandActs(g, p, made, ts)
      BY <2>3, <3>3 DEF OperandActs
    <3> QED BY <1>1, <1>2, <2>1, <3>4, OperandIsLink
  <2>4. CASE g.todo # <<>>
    <3>1. AtomRow(g.todo)
      BY <2>1, <2>2, <2>4, AtomRowEnds
    <3>2. OperandActs(g, p, made, ts)
      BY <3>1 DEF OperandActs
    <3> QED BY <1>1, <1>2, <2>1, <3>2, OperandIsLink
  <2> QED BY <2>3, <2>4
<1>5. CASE IsRow(e.todo) /\ IsRow(f.todo)
  <2>1. IsRow(g.todo)
    <3>1. After(<<>>, f.todo) = Tail(f.todo)
      BY <1>5, NoAfter
    <3>2. IsRow(Tail(f.todo))
      BY <1>5, RestOfRow
    <3> QED BY <1>1, <3>1, <3>2
  <2> QED BY <1>2, <1>5, <2>1 DEF LinkActs
<1> QED BY <1>2, <1>4, <1>5 DEF RowHere

LEMMA OperationMade ==
  ASSUME NEW e, NEW f, NEW old, NEW ts, OperatorHere(e, f, old, ts), Head(f.todo).do = "node",
         NEW g, NEW n, NEW made, Later(old, ts, made, ts),
         NodeHere(f, g, n, Head(f.todo).kind, made, ts)
  PROVE  LinkActs(e, g, made, ts) /\ Fits(made[n], made, ts) /\ Head(f.todo).kind # "Literal"
<1> DEFINE x == made[n]
<1>1. PICK p \in 1 .. NONE : e.todo = Row1(Infix(p)) /\ f.first = e.first /\ OperatorActs(f, p, old, ts)
  BY DEF OperatorHere
<1>2. /\ g.todo = After(<<>>, f.todo) /\ g.first = f.first
      /\ x.kind = Head(f.todo).kind /\ x.kids = f.kids /\ x.op = f.op
  BY DEF NodeHere
<1>3. ASSUME NEW i, NEW q, OperandBinds(f.kids, i, q, old, ts) PROVE OperandBinds(x.kids, i, q, made, ts)
  BY <1>2, <1>3, BindsStays
<1>4. ASSUME g.todo = <<>>, Result(g.kids, g.first, p, made, ts) PROVE LinkActs(e, g, made, ts)
  BY <1>1, <1>2, <1>4 DEF LinkActs, OperandActs
<1>5. NextKind(ts) \in InfixToken => PrecedenceOf(NextKind(ts)) \in 1 .. 10
  BY PrecedenceFacts
<1>6. ASSUME p <= Strength(x),
             NextKind(ts) \in InfixToken => 2 <= Strength(x) /\ PrecedenceOf(NextKind(ts)) <= Strength(x)
      PROVE  Result(g.kids, g.first, p, made, ts)
  BY <1>6, MadeResult
<1> HIDE DEF x
<1>7. CASE UnaryActs(f, old, ts)
  <2>1. Head(f.todo) = UnaryNode /\ g.todo = <<>> /\ OperandBinds(x.kids, 1, UNARY, made, ts)
    BY <1>2, <1>3, <1>7, UnaryAt
  <2>2. x.kind = "ExpressionUnaryOp"
    BY <1>2, <2>1, ItemParts
  <2>3. Strength(x) = 11
    BY <2>2, StrengthFacts DEF Operations, Atom, NONE
  <2>4. p <= 11
    BY DEF NONE
  <2>5. Result(g.kids, g.first, p, made, ts)
    BY <1>5, <1>6, <2>3, <2>4
  <2> QED BY <1>2, <1>4, <2>1, <2>2, <2>5 DEF Fits, x
<1>8. CASE BinaryActs(f, p, old, ts)
  <2>1. /\ Head(f.todo) = BinaryNode /\ g.todo = <<>> /\ f.op \in BinaryToken /\ p <= PrecedenceOf(f.op)
        /\ OperandBinds(x.kids, 1, PrecedenceOf(f.op), made, ts)
        /\ OperandBinds(x.kids, 2, PrecedenceOf(f.op) + 1, made, ts)
        /\ Stops(PrecedenceOf(f.op) + 1, ts)
    BY <1>2, <1>3, <1>8, BinaryAt
  <2>2. x.kind = "ExpressionBinaryOp"
    BY <1>2, <2>1, ItemParts
  <2>3. Strength(x) = PrecedenceOf(f.op) /\ PrecedenceOf(f.op) \in 2 .. 10
    BY <1>2, <2>1, <2>2, StrengthFacts, PrecedenceFacts
  <2>4. NextKind(ts) \in InfixToken => PrecedenceOf(NextKind(ts)) <= PrecedenceOf(f.op)
    BY <1>5, <2>1, <2>3 DEF Stops
  <2>5. Result(g.kids, g.first, p, made, ts)
    BY <1>6, <2>1, <2>3, <2>4
  <2> QED BY <1>2, <1>4, <2>1, <2>2, <2>5 DEF Fits, x
<1>9. CASE AssignActs(f, p, old, ts)
  <2>1. PICK z \in AssignNodes : Head(f.todo) = z /\ g.todo = <<>> /\ Stops(ASSIGNMENT, ts)
    BY <1>2, <1>9, AssignAt
  <2>2. p = ASSIGNMENT /\ OperandBinds(x.kids, 1, ASSIGNMENT + 1, made, ts)
    BY <1>3, <1>9 DEF AssignActs
  <2>3. x.kind \in {"ExpressionRange", "ExpressionAssignment"}
    BY <1>2, <2>1, ItemParts
  <2>4. Strength(x) = 1 /\ p = 1
    BY <2>2, <2>3, StrengthFacts DEF ASSIGNMENT
  <2>5. NextKind(ts) \notin InfixToken
    BY <1>5, <2>1 DEF Stops, ASSIGNMENT
  <2>6. Result(g.kids, g.first, p, made, ts)
    BY <1>6, <2>4, <2>5
  <2> QED BY <1>2, <1>4, <2>1, <2>2, <2>3, <2>6 DEF Fits, x
<1>10. CASE CallActs(f, p, old, ts)
  <2>1. f.todo = Closing(CallNode) /\ Head(f.todo) = CallNode
    BY <1>10, CallStates
  <2>2. After(<<>>, Closing(CallNode)) = <<>>
    BY ListStates
  <2>3. g.todo = <<>>
    BY <1>2, <2>1, <2>2
  <2>4. p <= CALL /\ OperandBinds(x.kids, 1, CALL, made, ts)
    BY <1>3, <1>10 DEF CallActs
  <2>5. x.kind = "ExpressionCall"
    BY <1>2, <2>1, ItemParts
  <2>6. Strength(x) = 10 /\ p <= 10
    BY <2>4, <2>5, StrengthFacts DEF CALL
  <2>7. Result(g.kids, g.first, p, made, ts)
    BY <1>5, <1>6, <2>6
  <2> QED BY <1>2, <1>4, <2>3, <2>4, <2>5, <2>7 DEF Fits, x
<1>11. ~TupleActs(f, old, ts)
  BY <1>1, OperatorParts
<1> QED BY <1>1, <1>7, <1>8, <1>9, <1>10, <1>11 DEF OperatorActs

LEMMA NodeIsHere ==
  ASSUME ParserInv, TreeInv, NEW r, NEW f, NEW a, Linking(r, f, a), NEW kind, Makes(kind)
  PROVE  \E g : /\ NodeHere(f, g, Len(nodes) + 1, kind, nodes', tokens)
                /\ stack' = Append(r, g) /\ text' = text /\ tokens' = tokens
                /\ Extends(nodes, nodes') /\ Later(nodes, tokens, nodes', tokens)
                /\ \A n \in DOMAIN nodes' : n \in DOMAIN nodes \/ n = Len(nodes) + 1
<1> DEFINE n == Len(nodes) + 1
           kids == Row1(n)
           g == [Then(<<>>) EXCEPT !.kids = kids]
           x == NewNode(kind, Top.kids)
<1>1. /\ Top = f /\ IsFrame(Top) /\ \A y : Set(y) = Append(r, y)
      /\ Linked(r, nodes, tokens)
  BY LinkingFacts
<1>2. nodes' = Append(nodes, x) /\ stack' = Append(r, g) /\ UNCHANGED <<text, tokens>>
  BY <1>1 DEF Makes, Row1
<1>3. Becomes(g, <<>>, kids, Top.op)
  BY <1>1, ThenParts
<1>4. x.kind = kind /\ x.kids = f.kids /\ x.op = f.op /\ x.lo = f.first /\ x.hi = Len(tokens)
  BY <1>1 DEF NewNode
<1>5. IsSeq(kids) /\ Len(kids) = 1 /\ kids[1] = n
  BY TuplesAreSeqs DEF Row1
<1> HIDE DEF g, x, kids
<1>6. g.todo = After(<<>>, f.todo) /\ g.first = f.first /\ g.kids = kids
  BY <1>1, <1>3, BecomesFacts DEF After
<1>7. IsSeq(nodes) /\ DOMAIN nodes = 1 .. Len(nodes) /\ Len(nodes) \in Nat
  BY IsSeqFacts DEF ParserInv, Sequences
<1>8. nodes'[n] = x /\ DOMAIN nodes' = 1 .. n /\ Extends(nodes, nodes')
  BY <1>2, <1>7, AppendFacts, AppendExtends
<1>9. n \in DOMAIN nodes' /\ \A i \in DOMAIN nodes' : i \in DOMAIN nodes \/ i = n
  BY <1>7, <1>8
<1>10. Later(nodes, tokens, nodes', tokens)
  BY <1>2, <1>8, LaterNow
<1>11. NodeHere(f, g, n, kind, nodes', tokens)
  BY <1>4, <1>5, <1>6, <1>8, <1>9 DEF NodeHere
<1> QED BY <1>2, <1>8, <1>9, <1>10, <1>11

LEMMA PrecMakes ==
  ASSUME ParserInv, TreeInv, PrecedenceInv, NEW r, NEW f, NEW a, Linking(r, f, a), NEW kind, NEW g,
         NodeHere(f, g, Len(nodes) + 1, kind, nodes', tokens), stack' = Append(r, g),
         text' = text, tokens' = tokens, Extends(nodes, nodes'),
         \A n \in DOMAIN nodes' : n \in DOMAIN nodes \/ n = Len(nodes) + 1,
         LinkActs(LastOf(r), g, nodes', tokens), Fits(nodes'[Len(nodes) + 1], nodes', tokens)
  PROVE  PrecedenceInv'
<1>1. Linked(r, nodes, tokens)
  BY LinkingFacts
<1>2. \A n \in DOMAIN nodes' : n \in DOMAIN nodes \/ Fits(nodes'[n], nodes', tokens')
  OBVIOUS
<1>3. LinkActs(LastOf(r), g, nodes', tokens')
  OBVIOUS
<1> QED BY <1>1, <1>2, <1>3, PrecStep

LEMMA PrecMakeNode == ParserInv /\ TreeInv /\ PrecedenceInv /\ make_node => PrecedenceInv'
<1> SUFFICES ASSUME ParserInv, TreeInv, PrecedenceInv, make_node PROVE PrecedenceInv'
  OBVIOUS
<1>1. Doing("node") /\ stack # <<>> /\ Item.do = "node" /\ Top.todo # <<>>
  BY DEF make_node, Doing
<1>2. PICK r, f, a : Linking(r, f, a)
  BY <1>1, SomeLinking
<1>3. /\ Acting(r, f, a) /\ Top = f /\ Head(f.todo) = Item /\ LinkActs(LastOf(r), f, nodes, tokens)
  BY <1>2, LinkingFacts
<1> DEFINE kind == IF Item.kind = "Literal" THEN LiteralKind(Top.op) ELSE Item.kind
<1>4. Makes(kind)
  BY DEF make_node
<1>5. Item.kind = "Literal" => kind \notin Operations
  <2>1. SUFFICES ASSUME Item.kind = "Literal" PROVE LiteralKind(f.op) \notin Operations
    BY <1>3
  <2>2. PICK m : Leads(Item, a, m)
    BY <1>1, <1>3, ActingFacts, FirstItem
  <2>3. a = Takes(Item.kind)
    <3>1. "node" \in Flat
      BY DEF Flat
    <3> QED BY <1>1, <2>2, <3>1, FlatItem DEF FlatLeads
  <2>4. Acting(r, f, "value")
    <3>1. a = "value"
      BY <2>1, <2>3 DEF Takes, Leaf
    <3> QED BY <1>3, <3>1
  <2> QED BY <2>4, LiteralValue DEF Operations
<1>6. Item.kind # "Literal" => kind = Item.kind
  OBVIOUS
<1> HIDE DEF kind
<1>7. PICK g : /\ NodeHere(f, g, Len(nodes) + 1, kind, nodes', tokens)
               /\ stack' = Append(r, g) /\ text' = text /\ tokens' = tokens
               /\ Extends(nodes, nodes') /\ Later(nodes, tokens, nodes', tokens)
               /\ \A n \in DOMAIN nodes' : n \in DOMAIN nodes \/ n = Len(nodes) + 1
  BY <1>2, <1>4, NodeIsHere
<1>8. LinkActs(LastOf(r), g, nodes', tokens) /\ Fits(nodes'[Len(nodes) + 1], nodes', tokens)
  <2>1. CASE RowHere(LastOf(r), f)
    <3>1. Item.kind \notin Operations
      BY <1>1, <1>3, <2>1, RowHeads
    <3>2. kind \notin Operations
      BY <1>5, <1>6, <3>1
    <3> QED BY <1>1, <1>3, <1>7, <2>1, <3>2, AtomMade
  <2>2. CASE OperatorHere(LastOf(r), f, nodes, tokens)
    <3> DEFINE op == Head(f.todo).kind
    <3>1. op # "Literal"
      <4>1. PICK p : OperatorActs(f, p, nodes, tokens)
        BY <2>2 DEF OperatorHere
      <4>2. UnaryActs(f, nodes, tokens) => op = "ExpressionUnaryOp"
        BY <1>1, <1>3, UnaryAt, ItemParts
      <4>3. BinaryActs(f, p, nodes, tokens) => op = "ExpressionBinaryOp"
        BY <1>1, <1>3, BinaryAt, ItemParts
      <4>4. ASSUME AssignActs(f, p, nodes, tokens) PROVE op \in {"ExpressionRange", "ExpressionAssignment"}
        <5>1. PICK z \in AssignNodes : Head(f.todo) = z
          BY <1>1, <1>3, <4>4, AssignAt
        <5> QED BY <5>1, ItemParts
      <4>5. CallActs(f, p, nodes, tokens) => op = "ExpressionCall"
        BY <1>1, <1>3, CallStates, ItemParts
      <4>6. ~TupleActs(f, nodes, tokens)
        BY <1>1, <1>3, <4>1, OperatorParts
      <4> QED BY <4>1, <4>2, <4>3, <4>4, <4>5, <4>6 DEF OperatorActs
    <3>2. kind = Head(f.todo).kind
      BY <1>3, <1>6, <3>1
    <3>3. NodeHere(f, g, Len(nodes) + 1, Head(f.todo).kind, nodes', tokens)
      BY <1>7, <3>2
    <3> QED BY <1>1, <1>3, <1>7, <2>2, <3>3, OperationMade
  <2>3. ~LoopHere(LastOf(r), f, nodes, tokens)
    BY <1>1, <1>3, NoLoopHere
  <2> QED BY <1>1, <1>3, <2>1, <2>2, <2>3, IsHere
<1> QED BY <1>2, <1>7, <1>8, PrecMakes

LEMMA PrecTupleOrGroup == ParserInv /\ TreeInv /\ PrecedenceInv /\ TupleOrGroup => PrecedenceInv'
<1> SUFFICES ASSUME ParserInv, TreeInv, PrecedenceInv, TupleOrGroup PROVE PrecedenceInv'
  OBVIOUS
<1>1. Doing("single") /\ stack # <<>> /\ Item.do = "single" /\ Top.todo # <<>>
  BY DEF TupleOrGroup, Doing
<1>2. PICK r, f, a : Linking(r, f, a)
  BY <1>1, SomeLinking
<1>3. /\ Acting(r, f, a) /\ Top = f /\ IsFrame(Top) /\ Head(f.todo) = Item
      /\ LinkActs(LastOf(r), f, nodes, tokens) /\ \A x : Set(x) = Append(r, x)
  BY <1>2, LinkingFacts
<1> DEFINE e == LastOf(r)
<1>4. PICK p \in 1 .. NONE :
        e.todo = Row1(Infix(p)) /\ f.first = e.first /\ TupleActs(f, nodes, tokens)
  <2>1. ~RowHere(e, f)
    BY <1>1, <1>3, RowHeads
  <2>2. ~LoopHere(e, f, nodes, tokens)
    BY <1>1, <1>3, NoLoopHere
  <2>3. OperatorHere(e, f, nodes, tokens)
    BY <1>1, <1>3, <2>1, <2>2, IsHere
  <2>4. PICK p \in 1 .. NONE :
          e.todo = Row1(Infix(p)) /\ f.first = e.first /\ OperatorActs(f, p, nodes, tokens)
    BY <2>3 DEF OperatorHere
  <2>5. TupleActs(f, nodes, tokens)
    BY <1>1, <1>3, <2>4, OperatorParts DEF OperatorActs
  <2> QED BY <2>4, <2>5
<1>5. f.todo = Closing(Single)
  BY <1>1, <1>3, <1>4, TupleIsAt
<1>6. After(<<>>, f.todo) = <<>>
  <2>1. After(<<>>, Closing(Single)) = <<>>
    BY ListStates
  <2> QED BY <1>5, <2>1
<1>8. CASE Len(f.kids) = 1
  <2> DEFINE g == Then(<<>>)
  <2>1. Continue(g) /\ Becomes(g, <<>>, f.kids, Top.op) /\ Set(g) = Append(r, g)
    BY <1>3, <1>8, ThenParts DEF TupleOrGroup
  <2> HIDE DEF g
  <2>2. g.todo = <<>> /\ g.kids = f.kids /\ g.first = f.first
    BY <1>2, <1>6, <2>1, MovesOn DEF Moves
  <2>3. f.kids[1] \in DOMAIN nodes /\ InGroup(nodes[f.kids[1]], tokens)
    BY <1>4, <1>5, <1>8, TupleStates DEF First
  <2>4. IsSeq(f.kids) /\ 1 \in DOMAIN f.kids
    <3>1. IsSeq(f.kids)
      BY <1>3, ActingFacts
    <3> QED BY <1>8, <3>1, IsSeqFacts
  <2>5. \A q : OperandBinds(g.kids, 1, q, nodes, tokens)
    BY <2>2, <2>3, <2>4 DEF OperandBinds, Binds
  <2>6. Result(g.kids, g.first, p, nodes, tokens)
    BY <1>8, <2>2, <2>3, <2>4, <2>5 DEF Result, Placed
  <2>7. OperandActs(g, p, nodes, tokens)
    BY <2>2, <2>6 DEF OperandActs
  <2>8. LinkActs(e, g, nodes, tokens)
    BY <1>4, <2>2, <2>7, OperandIsLink
  <2>9. UNCHANGED <<text, nodes>> /\ tokens' = tokens /\ stack' = Append(r, g)
    BY <2>1 DEF Continue
  <2> QED BY <1>2, <2>8, <2>9, PrecFrame
<1>9. CASE Len(f.kids) # 1
  <2> DEFINE kind == "ExpressionTuple"
             n == Len(nodes) + 1
  <2>1. Makes(kind)
    BY <1>3, <1>9 DEF TupleOrGroup
  <2>2. PICK g : /\ NodeHere(f, g, n, kind, nodes', tokens)
                 /\ stack' = Append(r, g) /\ text' = text /\ tokens' = tokens
                 /\ Extends(nodes, nodes') /\ Later(nodes, tokens, nodes', tokens)
                 /\ \A i \in DOMAIN nodes' : i \in DOMAIN nodes \/ i = n
    BY <1>2, <2>1, NodeIsHere
  <2>3. nodes'[n].kind = "ExpressionTuple" /\ g.todo = <<>> /\ g.first = f.first
    BY <1>6, <2>2 DEF NodeHere
  <2>4. Fits(nodes'[n], nodes', tokens)
    BY <2>3 DEF Fits
  <2>5. Strength(nodes'[n]) = 11
    BY <2>3, StrengthFacts DEF Operations, Atom, NONE
  <2>6. Result(g.kids, g.first, p, nodes', tokens)
    <3>1. p <= 11 /\ (NextKind(tokens) \in InfixToken => PrecedenceOf(NextKind(tokens)) <= 11)
      BY PrecedenceFacts DEF NONE
    <3> QED BY <2>2, <2>5, <3>1, MadeResult
  <2>7. OperandActs(g, p, nodes', tokens)
    BY <2>3, <2>6 DEF OperandActs
  <2>8. LinkActs(e, g, nodes', tokens)
    BY <1>4, <2>3, <2>7, OperandIsLink
  <2> HIDE DEF kind
  <2> QED BY <1>2, <2>2, <2>4, <2>8, PrecMakes
<1> QED BY <1>8, <1>9

-----------------------------------------------------------------------------
(* A call returns its node                                                 *)

LEMMA KidsGrow ==
  ASSUME NEW kids, IsSeq(kids), NEW n, NEW made, NEW ts
  PROVE  LET more == Append(kids, n) IN
         /\ IsSeq(more) /\ Len(more) = Len(kids) + 1 /\ more[Len(kids) + 1] = n /\ Len(kids) \in Nat
         /\ \A i, q : OperandBinds(kids, i, q, made, ts) => OperandBinds(more, i, q, made, ts)
         /\ \A q : n \in DOMAIN made /\ Binds(made[n], q, ts) => OperandBinds(more, Len(kids) + 1, q, made, ts)
<1> DEFINE more == Append(kids, n)
<1>1. /\ IsSeq(more) /\ Len(more) = Len(kids) + 1 /\ DOMAIN more = 1 .. Len(kids) + 1
      /\ (\A i \in DOMAIN kids : more[i] = kids[i]) /\ more[Len(kids) + 1] = n
      /\ Len(kids) \in Nat /\ DOMAIN kids = 1 .. Len(kids)
  BY AppendFacts, IsSeqFacts
<1> HIDE DEF more
<1>2. ASSUME NEW i \in DOMAIN kids PROVE i \in DOMAIN more /\ more[i] = kids[i]
  BY <1>1
<1>3. \A i, q : OperandBinds(kids, i, q, made, ts) => OperandBinds(more, i, q, made, ts)
  BY <1>2 DEF OperandBinds
<1>4. Len(kids) + 1 \in DOMAIN more
  BY <1>1
<1>5. \A q : n \in DOMAIN made /\ Binds(made[n], q, ts) => OperandBinds(more, Len(kids) + 1, q, made, ts)
  BY <1>1, <1>4 DEF OperandBinds
<1> QED BY <1>1, <1>3, <1>5 DEF more

(* The frame g is h with the node n for one more child. *)
TakesOne(h, g, n) ==
  /\ IsSeq(h.kids) /\ g.kids = Append(h.kids, n)
  /\ g.todo = h.todo /\ g.first = h.first /\ g.op = h.op

LEMMA ResultOfOne ==
  ASSUME NEW f, NEW p, NEW made, NEW ts, Result(f.kids, f.first, p, made, ts)
  PROVE  LET n == f.kids[1] IN
         /\ n \in DOMAIN made /\ Binds(made[n], p, ts) /\ Placed(made[n], f.first, ts)
         /\ \A h, g : TakesOne(h, g, n) /\ h.kids = <<>> /\ h.first = f.first => Result(g.kids, g.first, p, made, ts)
<1> DEFINE n == f.kids[1]
<1>1. n \in DOMAIN made /\ Binds(made[n], p, ts) /\ Placed(made[n], f.first, ts)
  BY DEF Result, OperandBinds
<1>2. ASSUME NEW h, NEW g, TakesOne(h, g, n), h.kids = <<>>, h.first = f.first
      PROVE  Result(g.kids, g.first, p, made, ts)
  <2>1. IsSeq(g.kids) /\ Len(g.kids) = 1 /\ g.kids[1] = n /\ g.first = f.first
    <3>1. Len(h.kids) = 0
      BY <1>2
    <3>2. IsSeq(g.kids) /\ Len(g.kids) = Len(h.kids) + 1 /\ g.kids[Len(h.kids) + 1] = n
      <4> DEFINE k == h.kids
      <4>1. IsSeq(k) /\ g.kids = Append(k, n)
        BY <1>2 DEF TakesOne
      <4> HIDE DEF k, n
      <4>2. IsSeq(Append(k, n)) /\ Len(Append(k, n)) = Len(k) + 1 /\ Append(k, n)[Len(k) + 1] = n
        BY <4>1, KidsGrow
      <4>3. IsSeq(g.kids) /\ Len(g.kids) = Len(k) + 1 /\ g.kids[Len(k) + 1] = n
        BY <4>1, <4>2
      <4> QED BY <4>3 DEF k
    <3>3. g.first = f.first
      BY <1>2 DEF TakesOne
    <3> QED BY <3>1, <3>2, <3>3
  <2>2. 1 \in DOMAIN g.kids
    BY <2>1, IsSeqFacts
  <2>3. \A q : OperandBinds(f.kids, 1, q, made, ts) => OperandBinds(g.kids, 1, q, made, ts)
    BY <2>1, <2>2 DEF OperandBinds
  <2> QED BY <2>1, <2>3 DEF Result
<1> QED BY <1>1, <1>2

LEMMA NoInfixWaits ==
  ASSUME NEW e, NEW h, NEW made, NEW ts, LinkWaits(e, h, made, ts), NEW p, h.todo = Row1(Infix(p))
  PROVE  Asks(e, h) /\ p = Level(e) /\ h.kids = <<>>
<1> DEFINE x == Infix(p)
<1>1. x.do = "infix" /\ ~IsItem(x) /\ x.prec = p
  BY ItemDoes, NodesDiffer, ItemParts
<1>2. UnaryNode.do = "node" /\ BinaryNode.do = "node" /\ \A z \in AssignNodes : z.do = "node"
  BY ItemDoes
<1>3. Infix(Level(e)).prec = Level(e)
  BY ItemParts
<1> HIDE DEF x
<1>4. h.todo = Row1(x)
  BY DEF x
<1>5. ~IsRow(h.todo)
  BY <1>1, <1>4, RowsOfOne
<1>6. h.todo # Row1(UnaryNode) /\ h.todo # Row1(BinaryNode) /\ \A z \in AssignNodes : h.todo # Row1(z)
  BY <1>1, <1>2, <1>4, RowsOfOne
<1>7. \A z : h.todo # Parted(z)
  BY <1>1, <1>4, RowsOfOne
<1>8. \A q : ~OperandWaits(h, q, made, ts)
  BY <1>5, <1>6, <1>7 DEF OperandWaits, AtomRow
<1>9. Asks(e, h) /\ h.todo = Row1(Infix(Level(e))) /\ h.kids = <<>>
  BY <1>5, <1>8 DEF LinkWaits
<1>10. x = Infix(Level(e))
  BY <1>4, <1>9, RowsOfOne
<1> QED BY <1>1, <1>3, <1>9, <1>10

LEMMA NoOperationsInRows ==
  ASSUME NEW e, NEW h, NEW made, NEW ts, LinkWaits(e, h, made, ts), IsRow(h.todo)
  PROVE  RowHere(e, h)
<1>1. \A p : h.todo # Row1(Infix(p))
  BY RowsOfOne, NodesDiffer
<1>2. h.todo # Row1(UnaryNode) /\ h.todo # Row1(BinaryNode) /\ \A z \in AssignNodes : h.todo # Row1(z)
  BY RowsOfOne, NodesDiffer
<1>3. h.todo # Parted(CallNode) /\ h.todo # Parted(Single)
  BY RowsOfOne, NodesDiffer
<1>4. \A p : OperandWaits(h, p, made, ts) => AtomRow(h.todo)
  BY <1>2, <1>3 DEF OperandWaits
<1> QED BY <1>1, <1>4 DEF LinkWaits, RowHere

LEMMA RowTakes ==
  ASSUME NEW e, NEW h, RowHere(e, h), NEW g, g.todo = h.todo, g.first = h.first
  PROVE  RowHere(e, g)
  BY DEF RowHere

(* An operation that waits takes an operand. *)
LEMMA OperandTaken ==
  ASSUME NEW h, NEW f, NEW made, NEW ts, Asks(h, f), f.todo = <<>>, LoopActs(f, Level(h), made, ts),
         NEW p, OperandWaits(h, p, made, ts), NEW g, TakesOne(h, g, f.kids[1])
  PROVE  OperandActs(g, p, made, ts)
<1> DEFINE n == f.kids[1]
           k == h.kids
           q == Level(h)
<1>1. Result(f.kids, f.first, q, made, ts) /\ Stops(q, ts)
  <2>1. f.todo # Row1(Infix(q))
    BY RowFacts
  <2> QED BY <2>1 DEF LoopActs
<1>2. n \in DOMAIN made /\ Binds(made[n], q, ts) /\ Placed(made[n], f.first, ts)
  BY <1>1, ResultOfOne
<1>3. /\ IsSeq(g.kids) /\ Len(g.kids) = Len(k) + 1 /\ g.kids[Len(k) + 1] = n /\ Len(k) \in Nat
      /\ \A i, o : OperandBinds(k, i, o, made, ts) => OperandBinds(g.kids, i, o, made, ts)
      /\ OperandBinds(g.kids, Len(k) + 1, q, made, ts)
  BY <1>2, KidsGrow DEF TakesOne
<1>4. g.todo = h.todo /\ g.first = h.first /\ g.op = h.op
  BY DEF TakesOne
<1> HIDE DEF n, q
<1>5. CASE AtomRow(h.todo)
  BY <1>4, <1>5 DEF OperandActs
<1>6. CASE h.todo = Row1(UnaryNode) /\ h.kids = <<>>
  <2>1. q = UNARY /\ Len(k) = 0
    BY <1>6, LevelFacts DEF q
  <2>2. OperandBinds(g.kids, 1, UNARY, made, ts)
    BY <1>3, <2>1
  <2> QED BY <1>4, <1>6, <2>2 DEF OperandActs, UnaryActs
<1>7. CASE h.todo = Row1(BinaryNode) /\ LeftOf(h, h.op, p, made, ts)
  <2>1. q = PrecedenceOf(h.op) + 1
    BY <1>7, LevelFacts DEF q
  <2>2. /\ h.op \in BinaryToken /\ p <= PrecedenceOf(h.op) /\ Len(k) = 1
        /\ OperandBinds(k, 1, PrecedenceOf(h.op), made, ts)
    BY <1>7 DEF LeftOf
  <2>3. OperandBinds(g.kids, 1, PrecedenceOf(h.op), made, ts) /\ OperandBinds(g.kids, 2, PrecedenceOf(h.op) + 1, made, ts)
    BY <1>3, <2>1, <2>2
  <2> QED BY <1>1, <1>4, <1>7, <2>1, <2>2, <2>3 DEF OperandActs, BinaryActs
<1>8. CASE /\ \E z \in AssignNodes : h.todo = Row1(z)
           /\ p = ASSIGNMENT /\ OperandBinds(h.kids, 1, ASSIGNMENT + 1, made, ts)
  <2>1. PICK z \in AssignNodes : h.todo = Row1(z)
    BY <1>8
  <2>2. q = ASSIGNMENT
    BY <2>1, LevelFacts DEF q
  <2>3. OperandBinds(g.kids, 1, ASSIGNMENT + 1, made, ts)
    BY <1>3, <1>8
  <2> QED BY <1>1, <1>4, <1>8, <2>1, <2>2, <2>3 DEF OperandActs, AssignActs
<1>9. CASE h.todo = Parted(CallNode) /\ p <= CALL /\ OperandBinds(h.kids, 1, CALL, made, ts)
  <2>1. OperandBinds(g.kids, 1, CALL, made, ts)
    BY <1>3, <1>9
  <2> QED BY <1>4, <1>9, <2>1 DEF OperandActs, CallActs
<1>10. CASE h.todo = Parted(Single) /\ Opened(h, ts)
  <2>1. Opened(g, ts)
    BY <1>4, <1>10 DEF Opened
  <2>2. ASSUME Len(g.kids) = 1
        PROVE  /\ g.kids[1] \in DOMAIN made
               /\ InGroup(First(g, made), ts) \/ (First(g, made).lo = g.first + 1 /\ First(g, made).hi = Len(ts))
    <3>1. Len(k) = 0 /\ g.kids[1] = n
      BY <1>3, <2>2
    <3>2. f.first = g.first + 1
      BY <1>4, <1>10, <3>1 DEF Asks
    <3>3. First(g, made) = made[n]
      BY <3>1 DEF First
    <3> QED BY <1>2, <3>1, <3>2, <3>3 DEF Placed
  <2>3. Ending(g, made, ts)
    <3>1. Len(g.kids) # 0
      BY <1>3
    <3> QED BY <2>2, <3>1 DEF Ending
  <2> QED BY <1>4, <1>10, <2>1, <2>3 DEF OperandActs, TupleActs
<1> QED BY <1>5, <1>6, <1>7, <1>8, <1>9, <1>10 DEF OperandWaits

LEMMA NodeTaken ==
  ASSUME NEW e, NEW h, NEW f, NEW made, NEW ts, LinkWaits(e, h, made, ts), LinkActs(h, f, made, ts),
         f.todo = <<>>, NEW g, TakesOne(h, g, f.kids[1])
  PROVE  LinkActs(e, g, made, ts)
<1>1. g.todo = h.todo /\ g.first = h.first
  BY DEF TakesOne
<1>2. CASE \E p \in 1 .. NONE : h.todo = Row1(Infix(p)) /\ f.first = h.first /\ OperandActs(f, p, made, ts)
  <2>1. PICK p \in 1 .. NONE : h.todo = Row1(Infix(p)) /\ f.first = h.first /\ OperandActs(f, p, made, ts)
    BY <1>2
  <2>2. Result(f.kids, f.first, p, made, ts)
    <3>1. ~AtomRow(f.todo)
      BY DEF AtomRow
    <3>2. ~OperatorHere(h, f, made, ts)
      BY OperatorHeads
    <3>3. ~OperatorActs(f, p, made, ts)
      BY <2>1, <3>2 DEF OperatorHere
    <3> QED BY <2>1, <3>1, <3>3 DEF OperandActs, OperatorActs
  <2>3. Asks(e, h) /\ p = Level(e) /\ h.kids = <<>>
    BY <2>1, NoInfixWaits
  <2>4. Result(g.kids, g.first, p, made, ts)
    BY <2>1, <2>2, <2>3, ResultOfOne
  <2>5. LoopActs(g, p, made, ts)
    BY <1>1, <2>1, <2>4 DEF LoopActs
  <2>6. Asks(e, g)
    BY <1>1, <2>3 DEF Asks
  <2> QED BY <2>3, <2>5, <2>6 DEF LinkActs
<1>3. CASE Asks(h, f) /\ LoopActs(f, Level(h), made, ts)
  <2>1. CASE IsRow(e.todo) /\ IsRow(h.todo)
    <3>1. RowHere(e, g)
      BY <1>1, <2>1 DEF RowHere
    <3> QED BY <3>1, RowActs
  <2>2. CASE Asks(e, h) /\ h.todo = Row1(Infix(Level(e))) /\ h.kids = <<>>
    <3>1. h.todo # <<>> /\ Head(h.todo).do = "infix"
      BY <2>2, RowFacts, ItemDoes
    <3> QED BY <1>3, <3>1 DEF Asks
  <2>3. CASE \E p \in 1 .. NONE : e.todo = Row1(Infix(p)) /\ h.first = e.first /\ OperandWaits(h, p, made, ts)
    <3>1. PICK p \in 1 .. NONE : e.todo = Row1(Infix(p)) /\ h.first = e.first /\ OperandWaits(h, p, made, ts)
      BY <2>3
    <3>2. OperandActs(g, p, made, ts)
      BY <1>3, <3>1, OperandTaken
    <3> QED BY <1>1, <3>1, <3>2, OperandIsLink
  <2> QED BY <2>1, <2>2, <2>3 DEF LinkWaits
<1>4. CASE IsRow(h.todo) /\ IsRow(f.todo)
  <2>1. RowHere(e, g)
    BY <1>1, <1>4, NoOperationsInRows, RowTakes
  <2> QED BY <2>1, RowActs
<1> QED BY <1>2, <1>3, <1>4 DEF LinkActs

LEMMA PrecReturnNode == ParserInv /\ TreeInv /\ PrecedenceInv /\ ReturnNode => PrecedenceInv'
<1> SUFFICES ASSUME ParserInv, TreeInv, PrecedenceInv, ReturnNode PROVE PrecedenceInv'
  OBVIOUS
<1> DEFINE n == Top.kids[1]
           rest == SubSeq(stack, 1, Len(stack) - 1)
<1>1. stack # <<>> /\ Top.todo = <<>> /\ UNCHANGED <<text, tokens, nodes>>
  BY DEF ReturnNode
<1>2. rest = <<>> => stack' = <<>>
  BY DEF ReturnNode
<1>3. rest # <<>> => stack' = [rest EXCEPT ![Len(rest)] = With(rest[Len(rest)], n)]
  BY DEF ReturnNode
<1>4. PICK r, f, a : Linking(r, f, a)
  BY <1>1, SomeLinking
<1>5. /\ Acting(r, f, a) /\ Top = f /\ LinkActs(LastOf(r), f, nodes, tokens) /\ Linked(r, nodes, tokens)
  BY <1>4, LinkingFacts
<1>6. rest = r
  BY <1>5, StackShapes DEF Acting
<1>7. n = f.kids[1]
  BY <1>5
<1> HIDE DEF n, rest
<1>8. CASE r = <<>>
  BY <1>1, <1>2, <1>6, <1>8, PrecThrow
<1>9. CASE r # <<>>
  <2>1. PICK s, h : /\ r = Append(s, h) /\ Linked(s, nodes, tokens) /\ h = LastOf(r)
                    /\ LinkWaits(LastOf(s), h, nodes, tokens)
    BY <1>5, <1>9, LinkedLast
  <2>2. IsFrame(h) /\ IsSeq(h.kids)
    <3>1. Waiting(r, f.first, nodes, Len(tokens))
      BY <1>5 DEF Acting
    <3>2. PICK s2, h2 : r = Append(s2, h2) /\ Waiting(s2, h2.first, nodes, Len(tokens)) /\ IsCall(h2, nodes, Len(tokens))
      BY <1>9, <3>1, WaitingLast
    <3>3. IsSeq(s) /\ IsSeq(s2)
      BY <2>1, <3>2 DEF Linked, Waiting
    <3>4. h = h2
      BY <2>1, <3>2, <3>3, SameEnds
    <3> QED BY <3>2, <3>4 DEF IsCall, Among
  <2> DEFINE g == With(h, n)
  <2>3. TakesOne(h, g, n)
    <3>1. PICK t, k, i, o : h = [todo |-> t, kids |-> k, first |-> i, op |-> o]
      BY <2>2 DEF IsFrame
    <3>2. g = [h EXCEPT !.kids = Append(k, n)] /\ h.kids = k
      BY <3>1 DEF With
    <3>3. ASSUME NEW m PROVE [h EXCEPT !.kids = m] = [todo |-> t, kids |-> m, first |-> i, op |-> o]
      BY <3>1
    <3>4. g = [todo |-> t, kids |-> Append(k, n), first |-> i, op |-> o]
      BY <3>2, <3>3
    <3> HIDE DEF g
    <3>5. g.todo = h.todo /\ g.first = h.first /\ g.op = h.op /\ g.kids = Append(h.kids, n)
      BY <3>1, <3>4
    <3> QED BY <2>2, <3>5 DEF TakesOne
  <2>4. stack' = Append(s, g)
    <3>1. IsSeq(s)
      BY <2>1 DEF Linked
    <3>2. r[Len(r)] = h /\ \A x : [r EXCEPT ![Len(r)] = x] = Append(s, x)
      BY <2>1, <3>1, StackShapes
    <3> QED BY <1>3, <1>6, <1>9, <3>2
  <2> HIDE DEF g
  <2>5. LinkActs(LastOf(s), g, nodes, tokens)
    BY <1>1, <1>5, <1>7, <2>1, <2>3, NodeTaken
  <2> QED BY <1>1, <2>1, <2>4, <2>5, PrecCalls
<1> QED BY <1>8, <1>9

LEMMA NextPrecedence ==
  ParserInv /\ TreeInv /\ PrecedenceInv /\ (ParserStep \/ UNCHANGED parserVars) => PrecedenceInv'
<1>1. PrecedenceInv /\ UNCHANGED parserVars => PrecedenceInv'
  BY DEF parserVars, PrecedenceInv
<1>2. ParserInv /\ TreeInv /\ PrecedenceInv /\ ParserStep => PrecedenceInv'
  BY PrecDeclaration, PrecMustConsume, PrecOutside, PrecParsePackage, PrecKeepKind, PrecOptional, PrecLoop,
     PrecDelimiter, PrecCallFunction, PrecExpression, PrecRightOperand, PrecPrecendece, PrecInfixLoop,
     PrecMakeNode, PrecTupleOrGroup, PrecConvertLiteral, PrecKids, PrecReturnNode
  DEF ParserStep
<1> QED BY <1>1, <1>2

-----------------------------------------------------------------------------
(* The stages of the pipeline                                              *)

LEMMA PrecedenceBegin == ASSUME NEW units, Begin(units) PROVE PrecedenceInv'
<1>1. nodes' = <<>> /\ stack' = <<>>
  BY DEF Begin, Holds
<1> QED BY <1>1, NoKids DEF PrecedenceInv

Fitting == phase = "parse" => PrecedenceInv

LEMMA InitFitting == PipelineInit => Fitting
  BY DEF PipelineInit, Fitting

LEMMA NextFitting == Parsing /\ Compiling /\ Fitting /\ [PipelineNext]_pipelineVars => Fitting'
<1> SUFFICES ASSUME Parsing, Compiling, Fitting, [PipelineNext]_pipelineVars, phase' = "parse"
             PROVE  PrecedenceInv'
  BY DEF Fitting
<1>1. CASE ResolveImports \/ StartOptimizing \/ Optimize \/ (\E p \in Source : OptimizeNext(p)) \/ Finish
  <2>1. phase' # "parse"
    BY <1>1 DEF ResolveImports, StartOptimizing, Optimize, OptimizeNext, Optimized, Finish
  <2> QED BY <2>1
<1>2. CASE StartParsing
  BY <1>2, PrecedenceBegin DEF StartParsing
<1>3. CASE \E p \in Source : ParseNext(p)
  BY <1>3, PrecedenceBegin DEF ParseNext
<1>4. ASSUME phase = "parse", ParserStep \/ UNCHANGED parserVars PROVE PrecedenceInv'
  <2>1. ParserInv /\ TreeInv /\ PrecedenceInv
    BY <1>4 DEF Parsing, Compiling, Fitting
  <2> QED BY <1>4, <2>1, NextPrecedence
<1>5. CASE Parse
  BY <1>4, <1>5 DEF Parse
<1>6. CASE UNCHANGED pipelineVars
  <2>1. phase' = phase /\ UNCHANGED parserVars
    BY <1>6 DEF pipelineVars
  <2> QED BY <1>4, <2>1
<1> QED BY <1>1, <1>2, <1>3, <1>5, <1>6 DEF PipelineNext

LEMMA FittingTrees == Parsing /\ Compiling /\ Fitting => TreeFitsTheTokens
<1> SUFFICES ASSUME Parsing, Compiling, Fitting PROVE PrecedenceRespected
  BY CompilingNests DEF TreeFitsTheTokens
<1>1. CASE phase = "parse"
  <2>1. NodesMade(nodes, Len(tokens)) /\ PrecedenceInv
    BY <1>1 DEF Compiling, Fitting, TreeInv
  <2>2. Len(tokens) \in Nat
    BY <1>1, IsSeqFacts DEF Parsing, ParserInv
  <2> QED BY <2>1, <2>2, PrecedencesHold DEF PrecedenceInv
<1>2. CASE phase # "parse"
  BY <1>2, NoKids DEF Compiling, Idle, PrecedenceRespected
<1> QED BY <1>1, <1>2

(* The tree is the one that the precedences of parser.h give the tokens:   *)
(* no operator takes an operand from a stronger one, and no token is in    *)
(* two children, in whatever order operators, prefixes, groups and         *)
(* statements come, and after whatever errors.                             *)
THEOREM TreeFits == PipelineSpec => []TreeFitsTheTokens
<1> DEFINE All == PipelineInv /\ Fitting
<1>1. PipelineInit => All
  BY InitPipelineInv, InitFitting
<1>2. All /\ [PipelineNext]_pipelineVars => All'
  BY NextPipelineInv, NextFitting DEF PipelineInv
<1>3. All => TreeFitsTheTokens
  BY FittingTrees DEF PipelineInv
<1> HIDE DEF All
<1> QED BY <1>1, <1>2, <1>3, PTL DEF PipelineSpec

===============================================================================
