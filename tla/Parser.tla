--------------------------------- MODULE Parser ---------------------------------
(***************************************************************************)
(* The parser (source/silk/pipeline/parser.cxx) as a machine with a stack: *)
(* a call of one of its functions is a frame, and what the function still  *)
(* has to do is the frame's sequence of items.  Each parse function is a   *)
(* row, the sequence of items that its body is; each kind of item is an    *)
(* action.  Names, types and locations are not kept, nodes are.            *)
(*                                                                         *)
(* A definition X_Y marked Faulty is X with a plausible bug; no            *)
(* specification uses it.  The runs' properties are tested against them.   *)
(***************************************************************************)
EXTENDS Integers, Scanner, SyntaxTree

CONSTANT
  Number     \* Number[d] is the value of the run of digits d

ASSUME ParserAssumption == Number \in [Digits -> Nat]

VARIABLES
  text,      \* the text of the source that is parsed
  tokens,    \* _tokens: all tokens read, the last one is the next to consume
  stack,     \* the calls under way, the innermost last
  nodes,     \* the nodes made so far; a node is the index of its record here
  tree,      \* the declarations parsed
  mode,      \* "parse", "skip" after a throw, "crashed", or "idle"
  reports    \* the tokens whose locations were reported

parserVars == <<text, tokens, stack, nodes, tree, mode, reports>>

-----------------------------------------------------------------------------
(* Items *)

Must(k) == [do |-> "must", kinds |-> {k}]             \* must_consume, parse_identifier
OneOf(ks) == [do |-> "oneof", kinds |-> ks]           \* match one of them, then advance
NotEmpty == [do |-> "notempty"]                       \* the test in parse_package
Keep == [do |-> "keep"]                               \* advance() and keep the kind
Opt(k, yes, no) == [do |-> "opt", kinds |-> {k}, yes |-> yes, no |-> no]
Until(k, body) == [do |-> "until", kinds |-> {k}, body |-> body]
While(k, body) == [do |-> "while", kinds |-> {k}, body |-> body]
Delim(end, k) == [do |-> "delim", end |-> end, kinds |-> {k}]
Sub(f) == [do |-> "sub", fn |-> f]                    \* declaration() .. parse_function_body()
Expression == [do |-> "expression"]
Prec(p) == [do |-> "precedence", prec |-> p]
Above == [do |-> "above"]                             \* precendece(higher(rule->precedence))
Infix(p) == [do |-> "infix", prec |-> p]              \* the loop of precendece
NoNode == [do |-> "nonode"]                           \* a nullptr for a child
Default == [do |-> "default"]                         \* default_switch = the node just parsed
Node(kind) == [do |-> "node", kind |-> kind]          \* make_node
Convert == [do |-> "convert"]                         \* std::stoull and the like
Single == [do |-> "single"]                           \* a tuple of one is its element
Discard == [do |-> "discard"]                         \* the node just parsed is not used

Identifier == Must("IDENTIFIER")
Package == <<Must("LITERAL_STRING"), NotEmpty>>
Typing == Opt("::", <<Identifier>>, <<>>)
Fields(end, delim) == Until(end, <<Identifier, Typing, Delim(end, delim)>>)
Params == Opt("(", <<Fields(")", ",")>>, <<>>)
List(end) == Until(end, <<Expression, Delim(end, ",")>>)

-----------------------------------------------------------------------------
(* Rows: the parse functions *)

parse_named_function_header == <<Must("fun"), Identifier, Params, Typing>>
parse_nameless_function_header == <<Must("fun"), Params, Typing>>
parse_function_body ==
  <<Opt("=>", <<NoNode, Expression, Node("StatementReturn")>>, <<Sub("statement_block")>>)>>

declaration_main == <<Must("main"), Must(";"), Node("ModuleMain")>>
declaration_package == <<Must("pkg")>> \o Package \o <<Must(";"), Node("ModuleDeclaration")>>
declaration_import ==
  <<Must("use")>> \o Package
    \o <<Opt("/", <<Identifier, While(",", <<Identifier>>)>>, <<>>), Must(";"),
         Node("ModuleImport")>>
declaration_function ==
  parse_named_function_header
    \o <<Sub("parse_function_body"), Node("ExpressionLambda"), Node("DeclarationFunction")>>
declaration_enum ==
  <<Must("enum"), Identifier, Must("{"), Fields("}", ";"), Node("DeclarationEnum")>>
declaration_object ==
  <<Must("obj"), Identifier, Typing, Must("{"), Must("}"), Node("DeclarationObject")>>
extern_function ==
  parse_named_function_header \o <<Must(";"), Node("DeclarationExternFunction")>>
declaration_library ==
  <<Must("dll")>> \o Package
    \o <<Must("{"), Until("}", <<Sub("extern_function")>>), Node("DeclarationExternLibrary")>>
declaration_macro == <<Must("macro"), Identifier, Must("{"), Must("}"), Node("DeclarationMacro")>>

statement_empty == <<Must(";"), Node("StatementEmpty")>>
statement_expression == <<Expression, Must(";"), Node("StatementExpression")>>
statement_block == <<Must("{"), Until("}", <<Sub("statement")>>), Node("StatementBlock")>>

(* A second default replaces the first. *)
statement_circuit ==
  <<Must("${"), NoNode,
    Until("}", <<Opt("_", <<Must(":"), Sub("statement"), Default>>,
                          <<Identifier, Must(":"), Sub("statement")>>)>>),
    Node("StatementCircuit")>>
statement_variable ==
  <<OneOf({"let", "def"}), Identifier, Typing, Must("="), Expression, Must(";"),
    Node("StatementVariable")>>
statement_constant ==
  <<Must("const"), Identifier, Typing, Must("="), Expression, Must(";"),
    Node("StatementConstant")>>

(* Faulty: no node stands for a continuation that is not given. *)
statement_return_NoSlot ==
  <<Must("return"), Opt("[", <<Expression, Must("]")>>, <<>>),
    Opt(";", <<NoNode, Node("StatementReturn")>>,
             <<Expression, Must(";"), Node("StatementReturn")>>)>>

statement_return ==
  <<Must("return"), Opt("[", <<Expression, Must("]")>>, <<NoNode>>),
    Opt(";", <<NoNode, Node("StatementReturn")>>,
             <<Expression, Must(";"), Node("StatementReturn")>>)>>
statement_switch == <<Must("switch"), Identifier, Must(";"), Node("StatementSwitch")>>
statement_itercontrol ==
  <<OneOf({"break", "continue"}), Must(";"), Node("StatementIterationControl")>>
statement_if ==
  <<Must("if"), Must("("), Expression, Must(")"), Sub("statement"),
    Opt("else", <<Sub("statement")>>, <<NoNode>>), Node("StatementIf")>>
statement_while ==
  <<Must("while"), Must("("), Expression, Must(")"), Sub("statement"), Node("StatementWhile")>>
statement_loop == <<Must("loop"), Sub("statement"), Node("StatementLoop")>>
statement_for ==
  <<Must("for"), Must("("), Sub("statement"), Expression, Must(";"), Expression, Must(")"),
    Sub("statement"), Node("StatementFor")>>
statement_foreach ==
  <<Must("foreach"), Must("("), OneOf({"let", "def"}), Identifier, Must("<-"), Expression,
    Must(")"), Sub("statement"), Node("StatementForeach")>>
statement_match ==
  <<Must("match"), Must("("), Expression, Discard, Must(")"), Must("{"), Must("}"),
    Node("StatementMatch")>>

expression_identifier == <<Identifier, Node("ExpressionIdentifier")>>
expression_void == <<Must("void"), Node("ExpressionVoid")>>
expression_continuation == <<Must("return"), Node("ExpressionContinuation")>>
expression_literal == <<Keep, Convert, Node("Literal")>>
expression_char == <<Must("LITERAL_CHAR"), Convert, Node("ExpressionChar")>>
expression_string == <<Must("LITERAL_STRING"), Node("ExpressionString")>>
expression_unary == <<OneOf({"not", "-"}), Prec(9), Node("ExpressionUnaryOp")>>
expression_binary == <<Keep, Above, Node("ExpressionBinaryOp")>>
expression_tuple == <<Must("("), List(")"), Single>>
expression_range == <<Must(".."), Expression, Node("ExpressionRange")>>
expression_vector == <<Must("<"), List(">"), Node("ExpressionVector")>>
expression_array == <<Must("["), List("]"), Node("ExpressionArray")>>
expression_dictionary ==
  <<Must("#{"), Until("}", <<Expression, Must(":"), Expression, Delim("}", ",")>>),
    Node("ExpressionDictionary")>>
Assigning == {"=", "+=", "-=", "*=", "**=", "/=", "//="}
expression_assignment == <<OneOf(Assigning), Expression, Node("ExpressionAssignment")>>
expression_call == <<Must("("), List(")"), Node("ExpressionCall")>>
expression_lambda ==
  parse_nameless_function_header \o <<Sub("parse_function_body"), Node("ExpressionLambda")>>

LiteralKind(k) ==
  CASE k \in {"true", "false"} -> "ExpressionBool"
    [] k \in {"pi", "tau", "eul"} -> "ExpressionRealKeyword"
    [] k = "LITERAL_NAT" -> "ExpressionNat"
    [] k = "LITERAL_INT" -> "ExpressionInt"
    [] k = "LITERAL_REAL" -> "ExpressionReal"

-----------------------------------------------------------------------------
(* Tables *)

(* The infix operators from ASSIGNMENT to CALL; UNARY has none.            *)
Precedence ==
  <<Assigning \cup {".."}, {"or"}, {"and"}, {"==", "!="}, {">", ">=", "<", "<="}, {"-", "+"},
    {"*", "/", "//", "%"}, {"**", "|"}, {}, {".", "("}>>
ASSIGNMENT == 1
UNARY == 9
CALL == 10
NONE == 11

InfixToken == UNION {Precedence[p] : p \in DOMAIN Precedence}
PrecedenceOf(k) == CHOOSE p \in DOMAIN Precedence : k \in Precedence[p]

(* Faulty: the right operand binds no tighter than the operator. *)
higher_Same(p) == p

higher(p) == IF p = NONE THEN p ELSE p + 1

Literal == {"LITERAL_NAT", "LITERAL_INT", "LITERAL_REAL", "true", "false", "pi", "tau", "eul"}
PrefixToken ==
  Literal \cup {"[", "(", "#{", "not", "<", "-", "+", "IDENTIFIER", "LITERAL_CHAR",
                "LITERAL_STRING", "void", "return", "fun"}

PrefixRow(k) ==
  CASE k \in Literal -> expression_literal
    [] k = "[" -> expression_array
    [] k = "(" -> expression_tuple
    [] k = "#{" -> expression_dictionary
    [] k = "<" -> expression_vector
    [] k \in {"not", "-", "+"} -> expression_unary
    [] k = "IDENTIFIER" -> expression_identifier
    [] k = "LITERAL_CHAR" -> expression_char
    [] k = "LITERAL_STRING" -> expression_string
    [] k = "void" -> expression_void
    [] k = "return" -> expression_continuation
    [] k = "fun" -> expression_lambda

InfixRow(k) ==
  CASE k \in Assigning -> expression_assignment
    [] k = ".." -> expression_range
    [] k = "(" -> expression_call
    [] OTHER -> expression_binary

statement(k) ==
  CASE k = ";" -> statement_empty
    [] k = "{" -> statement_block
    [] k = "${" -> statement_circuit
    [] k \in {"def", "let"} -> statement_variable
    [] k = "const" -> statement_constant
    [] k = "return" -> statement_return
    [] k = "switch" -> statement_switch
    [] k \in {"continue", "break"} -> statement_itercontrol
    [] k = "if" -> statement_if
    [] k = "while" -> statement_while
    [] k = "loop" -> statement_loop
    [] k = "for" -> statement_for
    [] k = "foreach" -> statement_foreach
    [] k = "match" -> statement_match
    [] OTHER -> statement_expression

declaration(k) ==
  CASE k = "main" -> declaration_main
    [] k = "pkg" -> declaration_package
    [] k = "use" -> declaration_import
    [] k = "fun" -> declaration_function
    [] k = "enum" -> declaration_enum
    [] k = "obj" -> declaration_object
    [] k = "dll" -> declaration_library
    [] k = "macro" -> declaration_macro
    [] OTHER -> statement(k)

Row(f, k) ==
  CASE f = "statement" -> statement(k)
    [] f = "statement_block" -> statement_block
    [] f = "parse_function_body" -> parse_function_body
    [] f = "extern_function" -> extern_function

-----------------------------------------------------------------------------
(* Steps *)

peek == tokens[Len(tokens)]
previous == tokens[Len(tokens) - 1]
eof == peek.kind = "TOK_END"

(* scan() until a token that is no comment. *)
Uncommented(from) ==
  LET next[i \in 1 .. Len(text) + 1] ==
        LET t == scan(text, i) IN IF t.kind = "COMMENT" THEN next[t.hi] ELSE t
  IN  next[from]

advance == tokens' = Append(tokens, Uncommented(peek.hi))

Frame(row, kids, first) == [todo |-> row, kids |-> kids, first |-> first, op |-> ""]
Called(row) == Frame(row, <<>>, Len(tokens))

Top == stack[Len(stack)]
Item == Head(Top.todo)
Doing(what) == mode = "parse" /\ stack # <<>> /\ Top.todo # <<>> /\ Item.do = what

(* The innermost frame with its first item replaced by items; any frame    *)
(* with the node n for another child.                                      *)
Then(items) == [Top EXCEPT !.todo = items \o Tail(@)]
With(frame, n) == [frame EXCEPT !.kids = Append(@, n)]
Set(frame) == [stack EXCEPT ![Len(stack)] = frame]

(* throw report(...) at the token i. *)
Throw(i) ==
  /\ stack' = <<>>
  /\ mode' = "skip"
  /\ reports' = Append(reports, i)
  /\ UNCHANGED <<text, tokens, nodes, tree>>

(* A step that changes no more than the frame it is in. *)
Continue(frame) ==
  /\ stack' = Set(frame)
  /\ UNCHANGED <<text, tokens, nodes, tree, mode, reports>>

Consumes(frame) ==
  /\ advance
  /\ stack' = Set(frame)
  /\ UNCHANGED <<text, nodes, tree, mode, reports>>

Pushes(frames) ==
  /\ stack' = Set(Then(<<>>)) \o frames
  /\ UNCHANGED <<text, tokens, nodes, tree, mode, reports>>

must_consume ==
  /\ Doing("must") \/ Doing("oneof")
  /\ peek.kind \in Item.kinds
  /\ Consumes([Then(<<>>) EXCEPT !.op = IF Item.do = "oneof" THEN peek.kind ELSE @])

must_match_fails ==
  /\ Doing("must") \/ Doing("oneof")
  /\ peek.kind \notin Item.kinds
  /\ Throw(IF Item.do = "must" THEN Len(tokens) - 1 ELSE Len(tokens))

(* What a string holds; the scanner closes one that the text leaves open.  *)
Content(t) ==
  LET closed == text[t.hi - 1] = "'" /\ t.hi - 1 > t.lo IN
    SubSeq(text, t.lo + 1, IF closed THEN t.hi - 2 ELSE t.hi - 1)

parse_package ==
  /\ Doing("notempty")
  /\ IF Content(previous) # <<>> THEN Continue(Then(<<>>)) ELSE Throw(Len(tokens) - 1)

KeepKind == Doing("keep") /\ Consumes([Then(<<>>) EXCEPT !.op = peek.kind])

Optional ==
  /\ Doing("opt")
  /\ IF peek.kind \in Item.kinds THEN Consumes(Then(Item.yes)) ELSE Continue(Then(Item.no))

(* while (!consume(end)) ... and do ... while (consume(k)): once more the  *)
(* body and then the loop, or on to what follows it.                       *)
Loop ==
  \/ /\ Doing("until")
     /\ IF peek.kind \in Item.kinds THEN Consumes(Then(<<>>))
                                    ELSE Continue(Then(Item.body \o <<Item>>))
  \/ /\ Doing("while")
     /\ IF peek.kind \in Item.kinds THEN Consumes(Then(Item.body \o <<Item>>))
                                    ELSE Continue(Then(<<>>))

Delimiter ==
  /\ Doing("delim")
  /\ Continue(Then(IF peek.kind = Item.end THEN <<>> ELSE <<[do |-> "must", kinds |-> Item.kinds]>>))

CallFunction == Doing("sub") /\ Pushes(<<Called(Row(Item.fn, peek.kind))>>)

expression ==
  /\ Doing("expression")
  /\ IF eof THEN Throw(Len(tokens) - 1) ELSE Continue(Then(<<Prec(ASSIGNMENT)>>))

RightOperand == Doing("above") /\ Continue(Then(<<Prec(higher(PrecedenceOf(Top.op)))>>))

(* precendece: the prefix function runs first, then the loop over infix    *)
(* functions with what it returns.                                         *)
precendece ==
  /\ Doing("precedence")
  /\ peek.kind \in PrefixToken
  /\ Pushes(<<Called(<<Infix(Item.prec)>>), Called(PrefixRow(peek.kind))>>)

precendece_NoRule ==
  /\ Doing("precedence")
  /\ peek.kind \notin PrefixToken \cup InfixToken
  /\ Throw(Len(tokens))

(* A rule without a prefix function: the call of a null pointer.           *)
precendece_NullPrefix ==
  /\ Doing("precedence")
  /\ peek.kind \in InfixToken \ PrefixToken
  /\ mode' = "crashed"
  /\ UNCHANGED <<text, tokens, stack, nodes, tree, reports>>

Continues(p) == peek.kind \in InfixToken /\ p <= PrecedenceOf(peek.kind)

InfixLoop ==
  /\ Doing("infix")
  /\ IF Continues(Item.prec)
     THEN /\ stack' = Append(Set([Top EXCEPT !.kids = <<>>]),
                             Frame(InfixRow(peek.kind), Top.kids, Top.first))
          /\ UNCHANGED <<text, tokens, nodes, tree, mode, reports>>
     ELSE Continue(Then(<<>>))

(* The value of a literal; reals are not told apart. *)
ValueOf(kind) ==
  CASE kind = "ExpressionNat" -> Number[text[previous.lo]]
    [] kind = "ExpressionInt" -> 0 - Number[text[previous.lo + 1]]
    [] OTHER -> 0

NewNode(kind, kids) ==
  [kind |-> kind, kids |-> kids, op |-> Top.op, val |-> ValueOf(kind),
   lo |-> Top.first, hi |-> Len(tokens)]

Makes(kind) ==
  /\ nodes' = Append(nodes, NewNode(kind, Top.kids))
  /\ stack' = Set([Then(<<>>) EXCEPT !.kids = <<Len(nodes) + 1>>])
  /\ UNCHANGED <<text, tokens, tree, mode, reports>>

make_node ==
  /\ Doing("node")
  /\ Makes(IF Item.kind = "Literal" THEN LiteralKind(Top.op) ELSE Item.kind)

TupleOrGroup ==
  /\ Doing("single")
  /\ IF Len(Top.kids) = 1 THEN Continue(Then(<<>>)) ELSE Makes("ExpressionTuple")

(* std::out_of_range and std::range_error are caught with everything else  *)
(* but nothing was reported.  Reals are never out of range here.           *)
Unconvertible(t) ==
  CASE t.kind = "LITERAL_NAT" -> Number[text[t.lo]] >= Modulus
    [] t.kind = "LITERAL_INT" -> Number[text[t.lo + 1]] > Modulus \div 2
    [] t.kind = "LITERAL_CHAR" -> t.hi = t.lo + 1
    [] OTHER -> FALSE

ConvertLiteral ==
  /\ Doing("convert")
  /\ IF Unconvertible(previous)
     THEN /\ stack' = <<>>
          /\ mode' = "skip"
          /\ UNCHANGED <<text, tokens, nodes, tree, reports>>
     ELSE Continue(Then(<<>>))

NoChild == Doing("nonode") /\ Continue(With(Then(<<>>), Null))

(* The last child becomes the first one; a child that is not used.         *)
SetDefault ==
  /\ Doing("default")
  /\ LET n == Len(Top.kids) IN
       Continue([Then(<<>>) EXCEPT !.kids = <<@[n]>> \o SubSeq(@, 2, n - 1)])
DropChild == Doing("discard") /\ Continue([Then(<<>>) EXCEPT !.kids = <<>>])

(* A call returns its node to its caller; that of declaration() to parse.  *)
ReturnNode ==
  /\ mode = "parse" /\ stack # <<>> /\ Top.todo = <<>>
  /\ LET rest == SubSeq(stack, 1, Len(stack) - 1)
         node == Top.kids[1]
     IN  IF rest = <<>>
         THEN stack' = <<>> /\ tree' = Append(tree, node)
         ELSE stack' = [rest EXCEPT ![Len(rest)] = With(@, node)] /\ UNCHANGED tree
  /\ UNCHANGED <<text, tokens, nodes, mode, reports>>

-----------------------------------------------------------------------------
(* parse *)

Holds(t, ts, m) ==
  /\ text' = t /\ tokens' = ts /\ mode' = m
  /\ stack' = <<>> /\ nodes' = <<>> /\ tree' = <<>> /\ reports' = <<>>

(* _tokens = {scan()}: a comment that begins the text is not skipped.      *)
Begin(units) == Holds(units, <<scan(units, 1)>>, "parse")
End == Holds(<<>>, <<>>, "idle")

Declaration ==
  /\ mode = "parse" /\ stack = <<>> /\ ~eof
  /\ stack' = <<Called(declaration(peek.kind))>>
  /\ UNCHANGED <<text, tokens, nodes, tree, mode, reports>>

Parsed == mode = "parse" /\ stack = <<>> /\ eof

(* Faulty: the semicolon is left for the next declaration. *)
Recover_KeepsSemicolon ==
  /\ mode = "skip"
  /\ IF eof \/ peek.kind = ";"
     THEN mode' = "parse" /\ UNCHANGED tokens
     ELSE advance /\ UNCHANGED mode
  /\ UNCHANGED <<text, stack, nodes, tree, reports>>

(* The loop of the catch block: up to and including the next semicolon.    *)
Recover ==
  /\ mode = "skip"
  /\ IF eof THEN UNCHANGED tokens ELSE advance
  /\ mode' = IF eof \/ peek.kind = ";" THEN "parse" ELSE "skip"
  /\ UNCHANGED <<text, stack, nodes, tree, reports>>

Idle ==
  /\ text = <<>> /\ tokens = <<>> /\ stack = <<>> /\ nodes = <<>> /\ tree = <<>>
  /\ mode = "idle" /\ reports = <<>>

ParserStep ==
  \/ Declaration
  \/ must_consume
  \/ must_match_fails
  \/ parse_package
  \/ KeepKind
  \/ Optional
  \/ Loop
  \/ Delimiter
  \/ CallFunction
  \/ expression
  \/ RightOperand
  \/ precendece
  \/ precendece_NoRule
  \/ precendece_NullPrefix
  \/ InfixLoop
  \/ make_node
  \/ TupleOrGroup
  \/ ConvertLiteral
  \/ NoChild
  \/ SetDefault
  \/ DropChild
  \/ ReturnNode
  \/ Recover

-----------------------------------------------------------------------------
(* Parts of the properties *)

ParserTypeOK ==
  /\ mode \in {"idle", "parse", "skip", "crashed"}
  /\ \A i \in DOMAIN tokens : tokens[i].lo <= tokens[i].hi /\ tokens[i].hi <= Len(text) + 1
  /\ \A n \in DOMAIN nodes : nodes[n].kind \in Kind /\ WellFormed(nodes[n], n - 1)
  /\ \A f \in DOMAIN stack : \A i \in DOMAIN stack[f].kids : stack[f].kids[i] \in 0 .. Len(nodes)
  /\ \A i \in DOMAIN tree : tree[i] \in DOMAIN nodes
  /\ \A i \in DOMAIN reports : reports[i] \in DOMAIN tokens

(* A node in brackets of its own, which may hold a trailing comma, and how *)
(* strongly its operator binds.                                            *)
Grouped(n) ==
  /\ n.lo > 1 /\ tokens[n.lo - 1].kind = "("
  /\ LET comma == tokens[n.hi].kind = ","
     IN tokens[IF comma THEN n.hi + 1 ELSE n.hi].kind = ")"
Atom == NONE
Strength(n) ==
  CASE n.kind = "ExpressionBinaryOp" -> PrecedenceOf(n.op)
    [] n.kind \in {"ExpressionRange", "ExpressionAssignment"} -> ASSIGNMENT
    [] n.kind = "ExpressionCall" -> CALL
    [] OTHER -> Atom
Binding(n) == IF Grouped(n) THEN Atom ELSE Strength(n)

(* A left operand binds at least as strongly as its operator, the right    *)
(* one of a binary operator more strongly: equal operators associate to    *)
(* the left, assignments and ranges to the right.                          *)
PrecedenceRespected ==
  \A n \in DOMAIN nodes :
    LET node == nodes[n]
        Operand(i) == Binding(nodes[node.kids[i]])
    IN  /\ node.kind = "ExpressionBinaryOp" =>
             Operand(1) >= PrecedenceOf(node.op) /\ Operand(2) > PrecedenceOf(node.op)
        /\ node.kind \in {"ExpressionRange", "ExpressionAssignment"} => Operand(1) > ASSIGNMENT
        /\ node.kind = "ExpressionCall" => Operand(1) >= CALL
        /\ node.kind = "ExpressionUnaryOp" => Operand(1) >= UNARY

(* Children cover disjoint parts of their parent's tokens, in order; only  *)
(* a circuit's default may stand anywhere.                                 *)
SpansNest ==
  \A n \in DOMAIN nodes :
    LET node == nodes[n]
        kids == {i \in DOMAIN node.kids : node.kids[i] # Null}
    IN  /\ \A i \in kids : nodes[node.kids[i]].lo >= node.lo /\ nodes[node.kids[i]].hi <= node.hi
        /\ \A i, j \in kids :
             i < j /\ ~(i = 1 /\ node.kind = "StatementCircuit") =>
               nodes[node.kids[i]].hi <= nodes[node.kids[j]].lo

(* What lies between two tokens is blank or a comment up to its newline.   *)
Skipped(from, to) ==
  \A i \in from .. to - 1 :
    \/ text[i] \in Blank
    \/ \E c \in from .. i : text[c] = "#" /\ \A j \in c .. i - 1 : text[j] # "\n"

NoTextIsLost ==
  \A i \in DOMAIN tokens : Skipped(IF i = 1 THEN 1 ELSE tokens[i - 1].hi, tokens[i].lo)

(* The tokens between two declarations of the tree, or behind the last     *)
(* one, are given up as a whole: up to a semicolon or the end, and with a  *)
(* report, unless a literal among them has no value.                       *)
GivenUp(from, to) ==
  /\ tokens[to - 1].kind = ";" \/ to = Len(tokens)
  /\ \/ \E r \in DOMAIN reports : reports[r] >= from /\ (reports[r] < to \/ to = Len(tokens))
     \/ \E i \in from .. to - 1 : Unconvertible(tokens[i])

NoDeclarationIsLost ==
  Parsed =>
    \A i \in 0 .. Len(tree) :
      LET from == IF i = 0 THEN 1 ELSE nodes[tree[i]].hi
          to == IF i = Len(tree) THEN Len(tokens) ELSE nodes[tree[i + 1]].lo
      IN  from = to \/ (from < to /\ GivenUp(from, to))
===============================================================================
